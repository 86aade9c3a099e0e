---------------------- MODULE OutboundDelivery_refines ----------------------
(***************************************************************************)
(* OutboundDelivery implements DeliveryContract, for every value of the    *)
(* constants: the abstract phase of a message is read off its committed    *)
(* row, so that a drain pass shows as one step, its commit.  And a         *)
(* finished row stays finished.  Both follow from the invariant IInv.      *)
(***************************************************************************)
EXTENDS OutboundDelivery_proofs

-----------------------------------------------------------------------------
(* Three ways a step of the queue shows in the contract.                   *)

\* What the contract sees is a function of these five variables.
LEMMA Stutters ==
  ASSUME UNCHANGED <<msg, db, next, sends, recv>>
  PROVE  UNCHANGED Contract!cvars
BY DEF Contract!cvars, PhaseOf, KindOf

\* A step that keeps the statuses, the history and the enqueued messages is invisible
\* to the contract.
LEMMA SamePhase ==
  ASSUME UNCHANGED <<msg, next, sends, recv>>,
         \A m \in Msg : db'[m].status = db[m].status
  PROVE  UNCHANGED Contract!cvars
<1>1. \A m \in Msg : PhaseOf(m)' = PhaseOf(m)
  BY DEF PhaseOf
<1> QED BY <1>1 DEF Contract!cvars, KindOf

\* A step that only moves rows along their life cycle is a Pass.
LEMMA Passes ==
  ASSUME UNCHANGED <<msg, sends, recv>>,
         \A m \in Msg : PhaseOf(m)' \in Contract!Moves(m)
  PROVE  Contract!Next
<1> DEFINE phase == [m \in Msg |-> PhaseOf(m)]
<1>1. phase' = [m \in Msg |-> phase'[m]]
  OBVIOUS
<1>2. \A m \in Msg : phase'[m] \in Contract!Moves(m)
  OBVIOUS
<1>3. /\ {m \in Msg : KindOf(m) # "command"}' = {m \in Msg : KindOf(m) # "command"}
      /\ {m \in Msg : sends[m] > 0}' = {m \in Msg : sends[m] > 0}
      /\ {m \in Msg : recv[m] > 0}' = {m \in Msg : recv[m] > 0}
  BY DEF KindOf
<1>4. Contract!Pass
  BY <1>1, <1>2, <1>3 DEF Contract!Pass
<1> QED BY <1>4 DEF Contract!Next

\* A row of the drain's session and the phases its commit may move a message to.
LEMMA Moved ==
  ASSUME IInv, next' = next, NEW m \in Msg,
         \/ db'[m] = View(m)
         \/ db'[m].status = "absent" /\ View(m).status \in {"completed", "absent"}
         \/ View(m).status = "sent" /\ db'[m].status \in {"pending", "failed"},
         View(m).status # "in_progress"
  PROVE  PhaseOf(m)' \in Contract!Moves(m)
<1>1. db[m] \in Row /\ tx[m] \in Row
  BY DEF IInv, TypeOK
<1>2. db[m].status \in Status /\ tx[m].status \in Status /\ db[m].status # "in_progress"
  BY <1>1, RowFields DEF IInv, Cycle, NeverStuck
<1>3. db[m].status # "absent" => m < next
  BY DEF IInv, Cycle, Numbering, TypeOK, Absent, Msg
<1>4. CASE m \notin touched
  <2>1. View(m) = db[m]
    BY <1>4 DEF View
  <2>2. CASE db[m].status \in {"pending", "sent"}
    BY <2>1, <2>2 DEF PhaseOf, Contract!Moves
  <2>3. CASE db[m].status = "completed"
    BY <2>1, <2>3, <1>3 DEF PhaseOf, Contract!Moves
  <2>4. CASE db[m].status \in {"failed", "expired"}
    BY <2>1, <2>4 DEF PhaseOf, Contract!Moves
  <2>5. CASE db[m].status = "absent"
    BY <2>1, <2>5 DEF PhaseOf, Contract!Moves
  <2> QED BY <1>2, <2>2, <2>3, <2>4, <2>5 DEF Status
<1>5. CASE m \in touched
  <2>1. /\ View(m) = tx[m] /\ db[m].status = "pending" /\ PhaseOf(m) = "queued"
        /\ tx[m].status \in {"sent", "completed"} => sends[m] > 0
        /\ tx[m].status = "completed" => KindOf(m) # "command"
        /\ tx[m].status # "absent"
    BY <1>5 DEF View, PhaseOf, IInv, Cycle, NoLostUpdate, Holding
  <2>2. CASE tx[m].status \in {"pending", "failed", "expired"}
    BY <2>1, <2>2 DEF PhaseOf, Contract!Moves
  <2>3. CASE tx[m].status = "sent"
    <3>1. PhaseOf(m)' \in {"awaiting", "queued", "dead"}
      BY <2>1, <2>3 DEF PhaseOf
    <3>2. m \in {k \in Msg : sends[k] > 0}
      BY <2>1, <2>3
    <3>3. KindOf(m) = "command"
      BY <1>5, <2>3 DEF IInv, Cycle, Holding
    <3> QED BY <2>1, <3>1, <3>2, <3>3 DEF Contract!Moves
  <2>4. CASE tx[m].status = "completed"
    <3>1. PhaseOf(m)' \in {"done", "gone"}
      BY <2>1, <2>4, <1>3 DEF PhaseOf
    <3>2. m \in {k \in Msg : sends[k] > 0} /\ m \in {k \in Msg : KindOf(k) # "command"}
      BY <2>1, <2>4
    <3> QED BY <2>1, <3>1, <3>2 DEF Contract!Moves
  <2> QED BY <1>2, <2>1, <2>2, <2>3, <2>4 DEF Status, View
<1> QED BY <1>4, <1>5

-----------------------------------------------------------------------------
(* The steps that show.                                                    *)

\* Nothing is submitted, handed over or received at first.
LEMMA RefinesInit == Init => Contract!Init
BY DEF Init, Contract!Init, PhaseOf, Absent, Msg

\* An enqueue is a submission.
LEMMA RefinesEnqueue == IInv /\ Enqueue => Contract!Next
<1> SUFFICES ASSUME IInv, Enqueue PROVE Contract!Next
  OBVIOUS
<1> DEFINE phase == [m \in Msg |-> PhaseOf(m)]
<1>1. PICK k \in Msg : k = next
  BY DEF Enqueue
<1>2. /\ next' = k + 1 /\ UNCHANGED <<msg, sends, recv>>
      /\ \A m \in Msg : db'[m] = IF m = k THEN NewRow ELSE db[m]
  BY <1>1 DEF Enqueue, history, IInv, TypeOK
<1>3. db[k].status = "absent"
  BY <1>1 DEF IInv, Cycle, Numbering, Absent, Msg
<1>4. PhaseOf(k) = "none" /\ PhaseOf(k)' = "queued"
  BY <1>1, <1>2, <1>3 DEF PhaseOf, NewRow, Msg
<1>5. \A m \in Msg : m # k => PhaseOf(m)' = PhaseOf(m)
  BY <1>1, <1>2 DEF PhaseOf, Msg
<1>6. phase[k] = "none" /\ phase' = [phase EXCEPT ![k] = "queued"]
  BY <1>4, <1>5
<1>7. Contract!Submit
  BY <1>2, <1>6 DEF Contract!Submit, KindOf
<1> QED BY <1>7 DEF Contract!Next

\* Deleting an expired row forgets a dead message.
LEMMA RefinesDelete ==
  ASSUME IInv, NEW k \in Msg, DeleteExpired(k) PROVE Contract!Next
<1>1. /\ UNCHANGED <<msg, next, sends, recv>> /\ db[k].status = "expired"
      /\ \A m \in Msg : db'[m] = IF m = k THEN Absent ELSE db[m]
  BY DEF DeleteExpired, history, IInv, TypeOK
<1>2. k < next
  BY <1>1 DEF IInv, Cycle, Numbering, TypeOK, Absent, Msg
<1>3. PhaseOf(k)' \in Contract!Moves(k)
  BY <1>1, <1>2 DEF PhaseOf, Contract!Moves, Absent
<1>4. \A m \in Msg : m # k => PhaseOf(m)' \in Contract!Moves(m)
  BY <1>1 DEF PhaseOf, Contract!Moves
<1> QED BY <1>1, <1>3, <1>4, Passes

\* A commit of the drain, by a handler or at the end of the pass, is a pass of the
\* contract: it moves every message one step at most.
LEMMA RefinesCommit == IInv /\ (InboundCommit \/ CommitDrain) => Contract!Next
<1> SUFFICES ASSUME IInv, InboundCommit \/ CommitDrain PROVE Contract!Next
  OBVIOUS
<1>1. UNCHANGED <<msg, next, sends, recv>> /\ pc \in {"inbound", "outbound"}
  BY DEF InboundCommit, CommitDrain, history
<1>2. \A m \in Msg : View(m).status # "in_progress"
  BY <1>1 DEF View, IInv, Cycle, Holding, NeverStuck
<1>3. ASSUME NEW m \in Msg
      PROVE  \/ db'[m] = View(m)
             \/ db'[m].status = "absent" /\ View(m).status \in {"completed", "absent"}
             \/ View(m).status = "sent" /\ db'[m].status \in {"pending", "failed"}
  <2>1. CASE InboundCommit
    BY <2>1 DEF InboundCommit
  <2>2. CASE CommitDrain
    BY <2>2, CommittedRow DEF Absent
  <2> QED BY <2>1, <2>2
<1>4. \A m \in Msg : PhaseOf(m)' \in Contract!Moves(m)
  BY <1>1, <1>2, <1>3, Moved
<1> QED BY <1>1, <1>4, Passes

\* A send that reaches the socket hands over a queued message; a failed one is invisible.
LEMMA RefinesStart ==
  ASSUME IInv, NEW k \in Msg, StartSend(k) PROVE [Contract!Next]_(Contract!cvars)
<1> DEFINE phase == [m \in Msg |-> PhaseOf(m)]
           handed == {m \in Msg : sends[m] > 0}
<1>1. UNCHANGED <<msg, db, next, recv>> /\ k \in group
  BY DEF StartSend, IsFirst
<1>2. CASE sends' = sends
  BY <1>1, <1>2, Stutters
<1>3. CASE sends' = [sends EXCEPT ![k] = @ + 1]
  <2>1. db[k].status = "pending"
    BY <1>1 DEF IInv, Cycle, NoLostUpdate
  <2>2. phase[k] = "queued" /\ phase' = phase
    BY <1>1, <2>1 DEF PhaseOf
  <2>3. handed' = handed \cup {k}
    BY <1>3 DEF IInv, TypeOK
  <2>4. Contract!HandOver
    BY <1>1, <2>2, <2>3 DEF Contract!HandOver, KindOf
  <2> QED BY <2>4 DEF Contract!Next
<1> QED BY <1>2, <1>3 DEF StartSend

\* The agent receives only what was handed over.
LEMMA RefinesReceive ==
  ASSUME IInv, NEW k \in Msg, AgentReceive(k) PROVE Contract!Next
<1> DEFINE phase == [m \in Msg |-> PhaseOf(m)]
           got == {m \in Msg : recv[m] > 0}
<1>1. UNCHANGED <<msg, db, next, sends>> /\ wire[k] > 0 /\ recv' = [recv EXCEPT ![k] = @ + 1]
  BY DEF AgentReceive
<1>2. sends[k] > 0
  BY <1>1 DEF IInv, Cycle, Evidence
<1>3. got' = got \cup {k} /\ phase' = phase
  BY <1>1 DEF IInv, TypeOK, PhaseOf
<1>4. Contract!Receive
  BY <1>1, <1>2, <1>3 DEF Contract!Receive, KindOf
<1> QED BY <1>4 DEF Contract!Next

\* An acknowledgment confirms a message that awaits it and is received; it is invisible
\* for any other.
LEMMA RefinesAcknowledge ==
  ASSUME IInv, NEW k \in Msg, Acknowledge(k) PROVE [Contract!Next]_(Contract!cvars)
<1> DEFINE phase == [m \in Msg |-> PhaseOf(m)]
<1>1. /\ UNCHANGED <<msg, next, sends, recv>> /\ acks[k] > 0
      /\ \A m \in Msg : db'[m] = IF m = k THEN MarkAcknowledged(db[m]) ELSE db[m]
      /\ db[k] \in Row /\ db \in [Msg -> Row] /\ db' \in [Msg -> Row]
  BY MarkAcknowledgedRow DEF Acknowledge, IInv, TypeOK
<1>2. CASE db[k].status # "sent"
  <2>1. \A m \in Msg : db'[m].status = db[m].status
    BY <1>1, <1>2, MarkAcknowledgedRow
  <2> QED BY <1>1, <2>1, SamePhase
<1>3. CASE db[k].status = "sent"
  <2>1. PhaseOf(k) = "awaiting" /\ PhaseOf(k)' = "done"
    BY <1>1, <1>3, MarkAcknowledgedRow DEF PhaseOf
  <2>2. \A m \in Msg : m # k => PhaseOf(m)' = PhaseOf(m)
    BY <1>1 DEF PhaseOf
  <2>3. phase[k] = "awaiting" /\ phase' = [phase EXCEPT ![k] = "done"]
    BY <2>1, <2>2
  <2>4. recv[k] > 0 /\ KindOf(k) = "command"
    BY <1>1 DEF IInv, Cycle, Evidence
  <2>5. Contract!Confirm
    BY <1>1, <2>3, <2>4 DEF Contract!Confirm, KindOf
  <2> QED BY <2>5 DEF Contract!Next
<1> QED BY <1>2, <1>3

\* What the drain does before it commits, rollbacks, losses and reconnections are invisible.
LEMMA RefinesQuiet ==
  ASSUME IInv, BeginDrain \/ SelectBatch \/ InboundRollback \/ RollbackDrain \/ Restart
               \/ (\E h \in Host : RejectGroup(h) \/ AdmitGroup(h) \/ Drop(h) \/ Register(h)
                                   \/ ChangeHost(h) \/ ToggleWindow(h))
               \/ (\E m \in Msg : AfterSend(m) \/ FailUnknown(m) \/ LoseMessage(m)
                                  \/ LoseAck(m))
               \/ UNCHANGED vars
  PROVE  UNCHANGED Contract!cvars
<1>1. UNCHANGED <<msg, db, next, sends, recv>>
  BY DEF BeginDrain, SelectBatch, InboundRollback, RollbackDrain, Restart, RejectGroup, AdmitGroup, Drop,
         Register, ChangeHost, ToggleWindow, AfterSend, FailUnknown, LoseMessage, LoseAck,
         vars, history
<1> QED BY <1>1, Stutters

\* The passing of time is invisible.
LEMMA RefinesMinute == IInv /\ Minute => UNCHANGED Contract!cvars
<1> SUFFICES ASSUME IInv, Minute PROVE UNCHANGED Contract!cvars
  OBVIOUS
<1>1. UNCHANGED <<msg, next, sends, recv>>
  BY DEF Minute
<1>2. \A m \in Msg : db'[m].status = db[m].status
  BY OlderRow DEF Minute, IInv, TypeOK
<1> QED BY <1>1, <1>2, SamePhase

\* The outbound queue keeps the promises of DeliveryContract: batches, retries,
\* rollbacks, restarts and late acknowledgments never show as anything else.
THEOREM Refinement == Spec => ImplementsContract
<1>1. Init => Contract!Init
  BY RefinesInit
<1>2. IInv /\ [Next]_vars => [Contract!Next]_(Contract!cvars)
  <2> SUFFICES ASSUME IInv, [Next]_vars PROVE [Contract!Next]_(Contract!cvars)
    OBVIOUS
  <2>1. CASE Api
    BY <2>1, RefinesEnqueue, RefinesDelete DEF Api
  <2>2. CASE Drain
    BY <2>2, RefinesQuiet, RefinesCommit, RefinesStart DEF Drain
  <2>3. CASE Agent
    BY <2>3, RefinesReceive, RefinesAcknowledge DEF Agent
  <2>4. CASE Disturb
    BY <2>4, RefinesQuiet DEF Disturb
  <2>5. CASE Minute
    BY <2>5, RefinesMinute
  <2>6. CASE UNCHANGED vars
    BY <2>6, RefinesQuiet
  <2> QED BY <2>1, <2>2, <2>3, <2>4, <2>5, <2>6 DEF Next
<1> QED BY <1>1, <1>2, Invariant, PTL DEF Spec, ImplementsContract, Contract!Spec

-----------------------------------------------------------------------------
(* Finished rows.                                                          *)

\* A finished row never changes again, except to be deleted: no late
\* acknowledgment, retry or commit of a drain begun earlier brings it back.
THEOREM FinishedStaysFinished == Spec => TerminalStable
<1> DEFINE Stable(m) == db[m].status \in Terminal => db'[m].status \in {db[m].status, "absent"}
<1>1. ASSUME IInv, [Next]_vars, NEW m \in Msg PROVE Stable(m)
  <2> USE <1>1
  <2>1. ASSUME db'[m].status = db[m].status PROVE Stable(m)
    BY <2>1
  <2>2. CASE Enqueue
    BY <2>2, <2>1 DEF Enqueue, IInv, TypeOK, Cycle, Numbering, Absent, Terminal, Msg
  <2>3. ASSUME NEW k \in Msg, DeleteExpired(k) PROVE Stable(m)
    BY <2>3, <2>1 DEF DeleteExpired, IInv, TypeOK, Absent
  <2>4. CASE InboundCommit \/ CommitDrain
    <3> SUFFICES ASSUME db[m].status \in Terminal
                 PROVE  db'[m].status \in {db[m].status, "absent"}
      OBVIOUS
    <3>1. View(m) = db[m]
      BY DEF View, IInv, Cycle, NoLostUpdate, Terminal
    <3>2. CASE InboundCommit
      BY <3>1, <3>2 DEF InboundCommit
    <3>3. CASE CommitDrain
      BY <3>1, <3>3, CommittedRow DEF Absent, Terminal
    <3> QED BY <2>4, <3>2, <3>3
  <2>5. ASSUME NEW k \in Msg, Acknowledge(k) PROVE Stable(m)
    BY <2>5, <2>1, MarkAcknowledgedRow DEF Acknowledge, IInv, TypeOK, Terminal
  <2>6. CASE Minute
    BY <2>6, <2>1, OlderRow DEF Minute, IInv, TypeOK
  <2>7. CASE UNCHANGED db
    BY <2>7, <2>1
  <2>8. ASSUME NEW k \in Msg, StartSend(k) \/ AfterSend(k) \/ FailUnknown(k)
                              \/ AgentReceive(k) \/ LoseMessage(k) \/ LoseAck(k)
        PROVE  UNCHANGED db
    BY <2>8 DEF StartSend, AfterSend, FailUnknown, AgentReceive, LoseMessage, LoseAck
  <2>9. ASSUME NEW h \in Host, RejectGroup(h) \/ AdmitGroup(h) \/ Drop(h) \/ Register(h)
                               \/ ChangeHost(h) \/ ToggleWindow(h)
        PROVE  UNCHANGED db
    BY <2>9 DEF RejectGroup, AdmitGroup, Drop, Register, ChangeHost, ToggleWindow
  <2>10. ASSUME BeginDrain \/ SelectBatch \/ InboundRollback \/ RollbackDrain \/ Restart \/ UNCHANGED vars
         PROVE  UNCHANGED db
    BY <2>10 DEF BeginDrain, SelectBatch, InboundRollback, RollbackDrain, Restart, vars
  <2> QED
    BY <2>2, <2>3, <2>4, <2>5, <2>6, <2>7, <2>8, <2>9, <2>10
       DEF Next, Api, Drain, Agent, Disturb
<1>2. IInv /\ [Next]_vars =>
        \A m \in Msg : db[m].status \in Terminal => db'[m].status \in {db[m].status, "absent"}
  BY <1>1
<1> QED BY <1>2, Invariant, PTL DEF Spec, TerminalStable
=============================================================================
