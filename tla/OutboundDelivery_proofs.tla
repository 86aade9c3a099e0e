----------------------- MODULE OutboundDelivery_proofs -----------------------
(***************************************************************************)
(* Proofs about OutboundDelivery for every number of messages and hosts,   *)
(* every batch limit, retry limit and timeout, and every set of            *)
(* disturbances.  The safety properties follow from one inductive          *)
(* invariant, IInv, whose parts are                                        *)
(*   Numbering  a message not enqueued yet has no row and was never sent   *)
(*   Retriable  a live row has a retry left                                *)
(*   DrainOrder where the rows of the open drain pass are                  *)
(*   Holding    what the drain may have made of a row it holds             *)
(*   Budget     how often a message can have been handed to the socket     *)
(*   Evidence   what a copy or an acknowledgment in flight proves          *)
(* The spacing of copies follows from a second one on top of it:           *)
(*   Spaced     silence and timer make up the timeout and the backoff      *)
(*   Waits      what the drain has selected is due                         *)
(* The passes are followed through their phases, with more invariants on   *)
(* top of IInv:                                                            *)
(*   StepsLeft  the variant of a pass: every step of the drain lowers it   *)
(*   OneHost    the admitted rows are of one host, the batch of others     *)
(*   ExhaustedRowsOnly   a FAILED row has made all its attempts            *)
(*   Ledger     a message was sent as often as it is in flight, received   *)
(*              or lost                                                    *)
(***************************************************************************)
EXTENDS OutboundDelivery, MessageQueue_proofs

Numbering == \A m \in Msg : m >= next => db[m] = Absent /\ sends[m] = 0

Retriable ==
  \A m \in Msg : /\ db[m].status \in Live => db[m].retries < MaxRetries
                 /\ tx[m].status \in Live => tx[m].retries < MaxRetries

DrainOrder ==
  /\ pc = "idle" => touched = {}
  /\ pc \in {"idle", "inbound"} => batch = {} /\ group = {}
  /\ pc = "inbound" => \A m \in touched : tx[m].status = "expired"
  /\ pc = "sending" => sending \in touched /\ tx[sending].status = "in_progress"
  /\ pc = "sending" /\ sendOk => sends[sending] > 0
  /\ batch \cap group = {}
  /\ touched \cap (batch \cup group) = {}

Holding ==
  \A m \in touched :
    /\ tx[m].status # "absent"
    /\ tx[m].status = "in_progress" => pc = "sending" /\ m = sending
    /\ tx[m].status \in {"sent", "completed"} => sends[m] > 0
    /\ tx[m].status = "sent" => KindOf(m) = "command"
    /\ tx[m].status = "completed" => KindOf(m) # "command"
    /\ sends[m] <= db[m].retries + 1 + aborts

\* Copies the life of a row accounts for, one for each attempt.
Allowance(r) ==
  CASE r.status = "pending" -> r.retries
    [] r.status \in {"in_progress", "sent"} -> r.retries + 1
    [] OTHER -> MaxRetries

Budget == \A m \in Msg : sends[m] <= Allowance(View(m)) + aborts

Evidence ==
  \A m \in Msg :
    /\ wire[m] > 0 => sends[m] > 0
    /\ acks[m] > 0 => recv[m] > 0 /\ KindOf(m) = "command"

\* The parts about the life cycle of the rows.
Cycle ==
  /\ Numbering
  /\ Retriable
  /\ DrainOrder
  /\ NoLostUpdate
  /\ NeverStuck
  /\ Holding
  /\ Budget
  /\ Evidence
  /\ CompletedWasReceived

IInv == TypeOK /\ Cycle

-----------------------------------------------------------------------------
(* Type correctness.                                                       *)

\* What the drain's session sees of a message is a row, with a retry left while it lives.
LEMMA ViewRow ==
  ASSUME TypeOK, Retriable, NEW m \in Msg
  PROVE  /\ View(m) \in Row
         /\ View(m).status \in Live => View(m).retries < MaxRetries
BY DEF TypeOK, Retriable, View

\* The initial states are of the right type.
LEMMA TypeInit == Init => TypeOK
<1> SUFFICES ASSUME Init PROVE TypeOK
  OBVIOUS
<1>1. hostState \in [Host -> {"approved", "pending", "rejected", "missing"}]
  BY DEF Init
<1>2. window \subseteq Host
  BY DEF Init
<1>3. next \in 1..NumMessages + 1 /\ aborts \in 0..MaxAborts
  BY OutboundAssumption DEF Init
<1> QED BY <1>1, <1>2, <1>3, FreshRows DEF Init, TypeOK

\* The frame of an action that ends the drain's transaction.
LEMMA TypeEnd ==
  ASSUME TypeOK, EndTransaction
  PROVE  /\ pc' = "idle" /\ tx' \in [Msg -> Row] /\ touched' \subseteq Msg
         /\ batch' \subseteq Msg /\ group' \subseteq Msg
         /\ sending' \in Msg \cup {0} /\ sendOk' \in BOOLEAN
BY FreshRows DEF EndTransaction

\* Every step keeps the types; the retry counter of a row stays within max_retries
\* because a live row has a retry left (Retriable).
LEMMA TypeNext == IInv /\ [Next]_vars => TypeOK'
<1> SUFFICES ASSUME IInv, [Next]_vars PROVE TypeOK'
  OBVIOUS
<1> USE DEF IInv, Cycle
<1>1. CASE Enqueue
  <2>1. next' \in 1..NumMessages + 1
    BY <1>1, OutboundAssumption DEF Enqueue, Msg
  <2>2. db' \in [Msg -> Row]
    BY <1>1, FreshRows DEF Enqueue, TypeOK
  <2> QED BY <1>1, <2>1, <2>2 DEF Enqueue, TypeOK, drainVars, envVars, netVars, history
<1>2. ASSUME NEW m \in Msg, DeleteExpired(m) PROVE TypeOK'
  BY <1>2, FreshRows DEF DeleteExpired, TypeOK, drainVars, envVars, netVars, history
<1>3. CASE BeginDrain
  <2>1. tx' \in [Msg -> Row]
    BY <1>3, ViewRow, MarkRow DEF BeginDrain, Update, TypeOK
  <2> QED BY <1>3, <2>1 DEF BeginDrain, Update, TypeOK, envVars, netVars, history
<1>4. CASE InboundCommit
  <2>1. db' \in [Msg -> Row] /\ tx' \in [Msg -> Row]
    BY <1>4, ViewRow, FreshRows DEF InboundCommit
  <2> QED BY <1>4, <2>1 DEF InboundCommit, TypeOK, envVars, netVars, history
<1>5. CASE SelectBatch
  BY <1>5 DEF SelectBatch, FirstOf, Eligible, TypeOK, envVars, netVars, history
<1>6. ASSUME NEW h \in Host, RejectGroup(h) PROVE TypeOK'
  <2> DEFINE rows == {m \in batch : HostOf(m) = h}
  <2>1. \A m \in rows : m \in Msg /\ View(m).status = "pending"
    BY DEF TypeOK, DrainOrder, NoLostUpdate, View
  <2>2. tx' \in [Msg -> Row]
    BY <1>6, <2>1, ViewRow, MarkFailedRow DEF RejectGroup, Update, TypeOK, Live
  <2> QED BY <1>6, <2>2 DEF RejectGroup, Update, TypeOK, envVars, netVars, history
<1>7. ASSUME NEW h \in Host, AdmitGroup(h) PROVE TypeOK'
  BY <1>7 DEF AdmitGroup, TypeOK, envVars, netVars, history
<1>8. ASSUME NEW m \in Msg, StartSend(m) PROVE TypeOK'
  <2>1. tx' \in [Msg -> Row]
    BY <1>8, ViewRow, MarkRow DEF StartSend, Update, TypeOK
  <2>2. wire' \in [Msg -> Nat] /\ sends' \in [Msg -> Nat] /\ quiet' \in [Msg -> Nat]
    BY <1>8 DEF StartSend, TypeOK
  <2>3. sendOk' \in BOOLEAN
    BY <1>8 DEF StartSend
  <2>4. /\ touched' \subseteq Msg /\ group' \subseteq Msg /\ batch' \subseteq Msg
        /\ pc' = "sending" /\ sending' \in Msg
    BY <1>8 DEF StartSend, Update, TypeOK
  <2> QED BY <1>8, <2>1, <2>2, <2>3, <2>4 DEF StartSend, TypeOK, envVars
<1>9. ASSUME NEW m \in Msg, AfterSend(m) PROVE TypeOK'
  <2>1. View(m).status = "in_progress"
    BY <1>9 DEF AfterSend, DrainOrder, View
  <2>2. Settled(View(m), KindOf(m), sendOk) \in Row
    BY <2>1, ViewRow, MarkRow, MarkFailedRow DEF Settled, Live
  <2>3. tx' \in [Msg -> Row]
    BY <1>9, <2>2 DEF AfterSend, Update, TypeOK
  <2> QED BY <1>9, <2>3 DEF AfterSend, Update, TypeOK, envVars, netVars, history
<1>10. ASSUME NEW m \in Msg, FailUnknown(m) PROVE TypeOK'
  <2>1. View(m).status = "pending"
    BY <1>10 DEF FailUnknown, IsFirst, DrainOrder, NoLostUpdate, View
  <2>2. tx' \in [Msg -> Row]
    BY <1>10, <2>1, ViewRow, MarkFailedRow DEF FailUnknown, Update, TypeOK, Live
  <2> QED BY <1>10, <2>2 DEF FailUnknown, Update, TypeOK, envVars, netVars, history
<1>11. CASE CommitDrain
  <2>1. PICK daily \in BOOLEAN :
          db' = [m \in Msg |-> LET r == RetryUnacknowledged(View(m)) IN
                               IF daily /\ Purgeable(r) THEN Absent ELSE r]
    BY <1>11 DEF CommitDrain
  <2>2. db' \in [Msg -> Row]
    BY <2>1, ViewRow, RetryUnacknowledgedRow, FreshRows
  <2> QED BY <1>11, <2>2, TypeEnd DEF CommitDrain, TypeOK, envVars, netVars, history
<1>20. CASE InboundRollback
  BY <1>20, FreshRows, OutboundAssumption
     DEF InboundRollback, TypeOK, envVars, netVars, history
<1>12. CASE RollbackDrain \/ Restart
  BY <1>12, TypeEnd, OutboundAssumption
     DEF RollbackDrain, Restart, TypeOK, envVars, netVars, history
<1>13. ASSUME NEW m \in Msg, AgentReceive(m) PROVE TypeOK'
  <2>1. wire' \in [Msg -> Nat]
    BY <1>13 DEF AgentReceive, TypeOK
  <2>2. acks' \in [Msg -> Nat] /\ recv' \in [Msg -> Nat]
    BY <1>13 DEF AgentReceive, TypeOK
  <2> QED BY <1>13, <2>1, <2>2 DEF AgentReceive, TypeOK, drainVars, envVars
<1>14. ASSUME NEW m \in Msg, LoseMessage(m) PROVE TypeOK'
  BY <1>14 DEF LoseMessage, TypeOK, drainVars, envVars, history
<1>15. ASSUME NEW m \in Msg, LoseAck(m) PROVE TypeOK'
  BY <1>15 DEF LoseAck, TypeOK, drainVars, envVars, history
<1>16. ASSUME NEW m \in Msg, Acknowledge(m) PROVE TypeOK'
  BY <1>16, MarkAcknowledgedRow DEF Acknowledge, TypeOK, drainVars, envVars
<1>17. ASSUME NEW h \in Host, Drop(h) \/ Register(h) \/ ChangeHost(h) \/ ToggleWindow(h)
       PROVE TypeOK'
  BY <1>17 DEF Drop, Register, ChangeHost, ToggleWindow, TypeOK, drainVars, netVars, history
<1>18. CASE Minute
  <2>1. db' \in [Msg -> Row] /\ tx' \in [Msg -> Row]
    BY <1>18, OlderRow DEF Minute, TypeOK
  <2>2. quiet' \in [Msg -> Nat]
    <3>1. QuietCap \in Nat
      BY BackoffNat, QueueAssumption DEF QuietCap
    <3> QED BY <1>18, <3>1 DEF Minute, TypeOK, UpTo
  <2> QED BY <1>18, <2>1, <2>2 DEF Minute, TypeOK, envVars, netVars
<1>19. CASE UNCHANGED vars
  BY <1>19 DEF vars, TypeOK, drainVars, envVars, netVars, history
<1> QED BY <1>1, <1>2, <1>3, <1>4, <1>5, <1>6, <1>7, <1>8, <1>9, <1>10, <1>11, <1>12,
           <1>13, <1>14, <1>15, <1>16, <1>17, <1>18, <1>19, <1>20
    DEF Next, Api, Drain, Agent, Disturb

-----------------------------------------------------------------------------
(* The life cycle: one lemma for each group of actions.                    *)

\* The life cycle starts right: nothing is enqueued, held or in flight.
LEMMA CycleInit == Init => Cycle
BY QueueAssumption
   DEF Init, Cycle, Numbering, Retriable, DrainOrder, NoLostUpdate, NeverStuck, Holding,
       Budget, Evidence, CompletedWasReceived, Absent, Live, Allowance, View, Msg

\* Actions that leave the rows, the drain and the network alone.
LEMMA CycleFrame ==
  ASSUME IInv, UNCHANGED <<msg, db, next, drainVars, netVars, history, aborts>>
  PROVE  Cycle'
BY DEF IInv, Cycle, Numbering, Retriable, DrainOrder, NoLostUpdate, NeverStuck, Holding,
       Budget, Evidence, CompletedWasReceived, drainVars, netVars, history, Allowance, View,
       KindOf

\* A change of committed rows outside the drain: the rows it holds or has selected
\* are PENDING and are left alone, a row that stays live keeps its retries, and no
\* row becomes live but the next to be enqueued.
LEMMA CycleEnqueue == IInv /\ Enqueue => Cycle'
<1> SUFFICES ASSUME IInv, Enqueue PROVE Cycle'
  OBVIOUS
<1>1. /\ next \in Msg /\ next' = next + 1 /\ db' = [db EXCEPT ![next] = NewRow]
      /\ UNCHANGED <<msg, pc, tx, touched, batch, group, sending, sendOk, wire, acks,
                     sends, recv, aborts>>
  BY DEF Enqueue, drainVars, netVars, history
<1>2. sends[next] = 0 /\ next \notin touched /\ next \notin batch \cup group
  BY <1>1 DEF IInv, Cycle, Numbering, NoLostUpdate, DrainOrder, Absent, Msg
<1>3. \A m \in Msg : db'[m] = IF m = next THEN NewRow ELSE db[m]
  BY <1>1 DEF IInv, TypeOK
<1>4. Numbering'
  BY <1>1, <1>3 DEF IInv, Cycle, Numbering, Msg
<1>5. Retriable' /\ NeverStuck' /\ Evidence' /\ CompletedWasReceived'
  BY <1>1, <1>3, QueueAssumption
     DEF IInv, Cycle, Retriable, NeverStuck, Evidence, CompletedWasReceived, NewRow, KindOf
<1>6. DrainOrder' /\ NoLostUpdate' /\ Holding'
  BY <1>1, <1>2, <1>3
     DEF IInv, Cycle, TypeOK, DrainOrder, NoLostUpdate, Holding, KindOf
<1>7. Budget'
  BY <1>1, <1>2, <1>3
     DEF IInv, Cycle, TypeOK, Budget, Allowance, View, NewRow
<1> QED BY <1>4, <1>5, <1>6, <1>7 DEF Cycle

\* Deleting an expired row: the drain holds and selects PENDING rows only.
LEMMA CycleDelete ==
  ASSUME IInv, NEW k \in Msg, DeleteExpired(k) PROVE Cycle'
<1>1. /\ db[k].status = "expired" /\ db' = [db EXCEPT ![k] = Absent]
      /\ UNCHANGED <<msg, next, pc, tx, touched, batch, group, sending, sendOk, wire, acks,
                     sends, recv, aborts>>
  BY DEF DeleteExpired, drainVars, netVars, history
<1>2. k \notin touched /\ k \notin batch \cup group
  BY <1>1 DEF IInv, Cycle, NoLostUpdate, DrainOrder
<1>3. \A m \in Msg : db'[m] = IF m = k THEN Absent ELSE db[m]
  BY <1>1 DEF IInv, TypeOK
<1>4. Numbering' /\ Retriable' /\ NeverStuck' /\ Evidence' /\ CompletedWasReceived'
  BY <1>1, <1>3
     DEF IInv, Cycle, Numbering, Retriable, NeverStuck, Evidence, CompletedWasReceived,
         Absent, KindOf, Live
<1>5. DrainOrder' /\ NoLostUpdate' /\ Holding'
  BY <1>1, <1>2, <1>3
     DEF IInv, Cycle, TypeOK, DrainOrder, NoLostUpdate, Holding, KindOf
<1>6. Budget'
  BY <1>1, <1>2, <1>3
     DEF IInv, Cycle, TypeOK, Budget, Allowance, View, Absent
<1> QED BY <1>4, <1>5, <1>6 DEF Cycle

\* An acknowledgment changes a SENT row only, which the drain never holds, and proves
\* that the agent has received the command.
LEMMA CycleAcknowledge ==
  ASSUME IInv, NEW k \in Msg, Acknowledge(k) PROVE Cycle'
<1>1. /\ acks[k] > 0 /\ acks' = [acks EXCEPT ![k] = @ - 1]
      /\ db' = [db EXCEPT ![k] = MarkAcknowledged(@)]
      /\ UNCHANGED <<msg, next, pc, tx, touched, batch, group, sending, sendOk, wire,
                     sends, recv, aborts>>
  BY DEF Acknowledge, drainVars
<1>2. CASE db[k].status # "sent"
  <2>1. db' = db
    BY <1>1, <1>2, MarkAcknowledgedRow DEF IInv, TypeOK
  <2>2. Evidence'
    BY <1>1 DEF IInv, Cycle, Evidence, TypeOK, KindOf
  <2> QED
    BY <1>1, <2>1, <2>2
       DEF IInv, Cycle, Numbering, Retriable, DrainOrder, NoLostUpdate, NeverStuck, Holding,
           Budget, CompletedWasReceived, Allowance, View, KindOf
<1>3. CASE db[k].status = "sent"
  <2>1. k \notin touched /\ k \notin batch \cup group
    BY <1>3 DEF IInv, Cycle, NoLostUpdate, DrainOrder
  <2>2. \A m \in Msg : m # k => db'[m] = db[m]
    BY <1>1 DEF IInv, TypeOK
  <2>3. db'[k].status = "completed"
    BY <1>1, <1>3, MarkAcknowledgedRow DEF IInv, TypeOK
  <2>4. Numbering'
    BY <1>1, <1>3, <2>2 DEF IInv, Cycle, Numbering, Absent
  <2>5. Retriable' /\ NeverStuck' /\ CompletedWasReceived'
    BY <1>1, <2>2, <2>3
       DEF IInv, Cycle, Retriable, NeverStuck, Evidence, CompletedWasReceived, Live, KindOf
  <2>6. Evidence'
    BY <1>1 DEF IInv, Cycle, Evidence, TypeOK, KindOf
  <2>7. DrainOrder' /\ NoLostUpdate' /\ Holding'
    BY <1>1, <2>1, <2>2
       DEF IInv, Cycle, TypeOK, DrainOrder, NoLostUpdate, Holding, KindOf
  <2>8. Budget'
    <3>1. sends[k] <= MaxRetries + aborts
      <4>1. sends[k] <= db[k].retries + 1 + aborts /\ db[k].retries < MaxRetries
        BY <1>3, <2>1 DEF IInv, Cycle, Budget, Retriable, Allowance, View, Live
      <4> QED BY <4>1, QueueAssumption DEF IInv, TypeOK, Row
    <3> QED
      BY <1>1, <2>1, <2>2, <2>3, <3>1 DEF IInv, Cycle, Budget, Allowance, View
  <2> QED BY <2>4, <2>5, <2>6, <2>7, <2>8 DEF Cycle
<1> QED BY <1>2, <1>3

\* Receipt and loss of copies and acknowledgments in flight.
LEMMA CycleNetwork ==
  ASSUME IInv, NEW k \in Msg, AgentReceive(k) \/ LoseMessage(k) \/ LoseAck(k)
  PROVE  Cycle'
<1>1. UNCHANGED <<msg, db, next, drainVars, sends, aborts>>
  BY DEF AgentReceive, LoseMessage, LoseAck, history
<1> DEFINE Sound ==
      \A m \in Msg :
        /\ wire'[m] > 0 => wire[m] > 0
        /\ recv[m] > 0 => recv'[m] > 0
        /\ acks'[m] > 0 => acks[m] > 0 \/ (recv'[m] > 0 /\ KindOf(m) = "command")
<1>2. ASSUME AgentReceive(k) PROVE Sound
  <2>1. \A m \in Msg : m # k => /\ wire'[m] = wire[m] /\ recv'[m] = recv[m]
                                /\ acks'[m] = acks[m]
    BY <1>2 DEF AgentReceive, IInv, TypeOK
  <2>2. wire[k] > 0 /\ recv'[k] > 0
    BY <1>2 DEF AgentReceive, IInv, TypeOK
  <2>3. acks'[k] > 0 => acks[k] > 0 \/ KindOf(k) = "command"
    BY <1>2 DEF AgentReceive, IInv, TypeOK
  <2> QED BY <2>1, <2>2, <2>3
<1>3. ASSUME LoseMessage(k) \/ LoseAck(k) PROVE Sound
  <2>1. UNCHANGED recv
    BY <1>3 DEF LoseMessage, LoseAck, history
  <2>2. CASE LoseMessage(k)
    BY <2>1, <2>2 DEF LoseMessage, IInv, TypeOK
  <2>3. CASE LoseAck(k)
    BY <2>1, <2>3 DEF LoseAck, IInv, TypeOK
  <2> QED BY <1>3, <2>2, <2>3
<1>4. Evidence' /\ CompletedWasReceived'
  BY <1>1, <1>2, <1>3 DEF IInv, Cycle, Evidence, CompletedWasReceived, KindOf
<1> QED
  BY <1>1, <1>4
     DEF IInv, Cycle, Numbering, Retriable, DrainOrder, NoLostUpdate, NeverStuck, Holding,
         Budget, Allowance, View, KindOf, drainVars

\* The expiry that opens a pass takes PENDING rows only.
LEMMA CycleBegin == IInv /\ BeginDrain => Cycle'
<1> SUFFICES ASSUME IInv, BeginDrain PROVE Cycle'
  OBVIOUS
<1> DEFINE old == {m \in Msg : Expirable(db[m])}
<1>1. /\ pc = "idle" /\ pc' = "inbound" /\ touched = {} /\ touched' = old
      /\ batch = {} /\ group = {}
      /\ UNCHANGED <<msg, db, next, batch, group, sending, sendOk, wire, acks, sends, recv,
                     aborts>>
  BY DEF BeginDrain, Update, netVars, history, IInv, Cycle, DrainOrder
<1>2. \A m \in Msg : /\ m \in old => db[m].status = "pending"
                                    /\ tx'[m].status = "expired"
                     /\ m \notin old => tx'[m] = tx[m]
  BY <1>1, MarkRow DEF BeginDrain, Update, View, Expirable, IInv, TypeOK, Cycle, NeverStuck
<1> HIDE DEF old
<1>3. old \subseteq Msg
  BY DEF old
<1>4. Retriable' /\ DrainOrder' /\ NoLostUpdate'
  BY <1>1, <1>2, <1>3 DEF IInv, Cycle, Retriable, DrainOrder, NoLostUpdate, Live
<1>5. \A m \in Msg : sends[m] <= Allowance(db[m]) + aborts
  BY <1>1 DEF IInv, Cycle, Budget, View
<1>6. \A m \in old : /\ sends[m] <= db[m].retries + 1 + aborts
                     /\ sends[m] <= MaxRetries + aborts
  <2> TAKE m \in old
  <2>1. sends[m] <= db[m].retries + aborts /\ db[m].retries < MaxRetries
    BY <1>2, <1>3, <1>5 DEF Allowance, IInv, Cycle, Retriable, Live
  <2> QED BY <2>1, <1>3, QueueAssumption DEF IInv, TypeOK, Row
<1>7. Holding'
  BY <1>1, <1>2, <1>3, <1>6 DEF Holding
<1>8. Budget'
  BY <1>1, <1>2, <1>3, <1>5, <1>6 DEF Budget, View, Allowance
<1> QED
  BY <1>1, <1>4, <1>7, <1>8
     DEF IInv, Cycle, Numbering, NeverStuck, Evidence, CompletedWasReceived, KindOf

\* A commit by an inbound handler publishes expired rows and nothing else.
LEMMA CycleInboundCommit == IInv /\ InboundCommit => Cycle'
<1> SUFFICES ASSUME IInv, InboundCommit PROVE Cycle'
  OBVIOUS
<1>1. /\ pc = "inbound" /\ pc' = pc /\ touched' = {} /\ batch = {} /\ group = {}
      /\ db' = [m \in Msg |-> View(m)] /\ tx' = [m \in Msg |-> Absent]
      /\ UNCHANGED <<msg, next, batch, group, sending, sendOk, wire, acks, sends, recv,
                     aborts>>
  BY DEF InboundCommit, netVars, history, IInv, Cycle, DrainOrder
<1>2. \A m \in Msg : \/ m \notin touched /\ db'[m] = db[m]
                     \/ m \in touched /\ db'[m] = tx[m] /\ tx[m].status = "expired"
  BY <1>1 DEF View, IInv, Cycle, DrainOrder
<1>3. Numbering'
  BY <1>1, <1>2 DEF IInv, Cycle, Numbering, NoLostUpdate, Absent
<1>4. Retriable' /\ DrainOrder' /\ NoLostUpdate' /\ NeverStuck' /\ Holding'
  BY <1>1, <1>2
     DEF IInv, Cycle, Retriable, DrainOrder, NoLostUpdate, NeverStuck, Holding, Live, Absent
<1>5. Budget'
  BY <1>1 DEF IInv, Cycle, Budget, View
<1>6. Evidence' /\ CompletedWasReceived'
  BY <1>1, <1>2 DEF IInv, Cycle, Evidence, CompletedWasReceived, KindOf
<1> QED BY <1>3, <1>4, <1>5, <1>6 DEF Cycle

\* The query selects PENDING rows the pass has not changed.
LEMMA CycleSelect == IInv /\ SelectBatch => Cycle'
<1> SUFFICES ASSUME IInv, SelectBatch PROVE Cycle'
  OBVIOUS
<1>1. /\ pc = "inbound" /\ pc' = "outbound" /\ batch = {} /\ group = {}
      /\ UNCHANGED <<msg, db, next, tx, touched, group, sending, sendOk, wire, acks, sends,
                     recv, aborts>>
  BY DEF SelectBatch, netVars, history, IInv, Cycle, DrainOrder
<1>2. \A m \in batch' : m \in Msg /\ m \notin touched /\ db[m].status = "pending"
  BY <1>1 DEF SelectBatch, FirstOf, Eligible, Due, View, IInv, Cycle, DrainOrder
<1>3. DrainOrder' /\ NoLostUpdate'
  BY <1>1, <1>2 DEF IInv, Cycle, DrainOrder, NoLostUpdate
<1> QED
  BY <1>1, <1>3
     DEF IInv, Cycle, Numbering, Retriable, NeverStuck, Holding, Budget, Evidence, CompletedWasReceived, Allowance, View, KindOf

\* Serving an approved host moves its rows from the batch to the group.
LEMMA CycleAdmit ==
  ASSUME IInv, NEW h \in Host, AdmitGroup(h) PROVE Cycle'
<1>1. /\ pc = "outbound" /\ pc' = pc /\ group = {}
      /\ group' \subseteq batch /\ batch' \subseteq batch /\ batch' \cap group' = {}
      /\ UNCHANGED <<msg, db, next, tx, touched, sending, sendOk, wire, acks, sends, recv,
                     aborts>>
  BY DEF AdmitGroup, NextGroup, netVars, history
<1>2. DrainOrder'
  BY <1>1 DEF IInv, Cycle, DrainOrder
<1> QED
  BY <1>1, <1>2
     DEF IInv, Cycle, Numbering, Retriable, NoLostUpdate, NeverStuck, Holding, Budget,
         Evidence, CompletedWasReceived, Allowance, View, KindOf

\* A selected row that no step of the pass has touched: what the parts say of it.
LEMMA SelectedRow ==
  ASSUME IInv, NEW m \in Msg, m \in batch \cup group
  PROVE  /\ m \notin touched /\ View(m) = db[m] /\ db[m] \in Row
         /\ db[m].status = "pending" /\ db[m].retries < MaxRetries
         /\ sends[m] <= db[m].retries + aborts
         /\ sends[m] \in Nat /\ aborts \in Nat /\ db[m].retries \in Nat
<1>1. m \notin touched /\ db[m].status = "pending"
  BY DEF IInv, Cycle, DrainOrder, NoLostUpdate
<1>2. db[m] \in Row /\ sends[m] \in Nat /\ aborts \in Nat
  BY OutboundAssumption DEF IInv, TypeOK
<1>3. db[m].retries \in Nat
  BY <1>2, RowFields
<1>4. db[m].retries < MaxRetries /\ sends[m] <= db[m].retries + aborts
  BY <1>1 DEF IInv, Cycle, Retriable, Budget, Live, View, Allowance
<1> QED BY <1>1, <1>2, <1>3, <1>4 DEF View

\* The drain fails a set of selected rows.
LEMMA CycleFail ==
  ASSUME IInv, NEW S, S \subseteq batch \cup group, Update(S, MarkFailed),
         pc = "outbound", pc' = pc,
         batch' \cup group' \subseteq (batch \cup group) \ S, batch' \cap group' = {},
         UNCHANGED <<msg, db, next, wire, acks, sends, recv, aborts>>
  PROVE  Cycle'
<1>1. S \subseteq Msg /\ batch \cup group \subseteq Msg
  BY DEF IInv, TypeOK
<1>2. /\ touched' = touched \cup S
      /\ \A m \in Msg : m \notin S => tx'[m] = tx[m]
      /\ \A m \in S : tx'[m] = MarkFailed(db[m])
  BY <1>1, SelectedRow DEF Update
<1>3. \A m \in S : /\ tx'[m].status \in {"pending", "failed"}
                   /\ tx'[m].status = "pending" => /\ tx'[m].retries = db[m].retries + 1
                                                   /\ tx'[m].retries < MaxRetries
  BY <1>1, <1>2, SelectedRow, MarkFailedRow
<1>4. Retriable'
  BY <1>2, <1>3 DEF IInv, Cycle, Retriable, Live
<1>5. DrainOrder' /\ NoLostUpdate'
  BY <1>1, <1>2, SelectedRow DEF IInv, Cycle, DrainOrder, NoLostUpdate
<1>6. \A m \in S : /\ sends[m] <= db[m].retries + 1 + aborts
                   /\ sends[m] <= MaxRetries + aborts
  BY <1>1, SelectedRow, QueueAssumption
<1>7. Holding'
  BY <1>1, <1>2, <1>3, <1>6 DEF IInv, Cycle, TypeOK, Holding, KindOf
<1>8. Budget'
  <2> SUFFICES ASSUME NEW m \in Msg PROVE (sends[m] <= Allowance(View(m)) + aborts)'
    BY DEF Budget
  <2>1. CASE m \in S
    BY <2>1, <1>2, <1>3, <1>6 DEF View, Allowance
  <2>2. CASE m \notin S
    BY <2>2, <1>2 DEF IInv, Cycle, Budget, View, Allowance
  <2> QED BY <2>1, <2>2
<1> QED
  BY <1>4, <1>5, <1>7, <1>8
     DEF IInv, Cycle, Numbering, NeverStuck, Evidence, CompletedWasReceived, KindOf

\* Failing the rows of a host that is gone or not approved uses up a retry of each.
LEMMA CycleReject ==
  ASSUME IInv, NEW h \in Host, RejectGroup(h) PROVE Cycle'
<1> DEFINE rows == {m \in batch : HostOf(m) = h}
<1>1. /\ rows \subseteq batch /\ pc = "outbound" /\ pc' = pc /\ group = {} /\ group' = {}
      /\ batch' = batch \ rows /\ Update(rows, MarkFailed)
      /\ UNCHANGED <<msg, db, next, wire, acks, sends, recv, aborts>>
  BY DEF RejectGroup, NextGroup, netVars, history
<1> HIDE DEF rows
<1> QED BY <1>1, CycleFail

\* A row of a type without a branch uses up a retry and is not sent.
LEMMA CycleFailUnknown ==
  ASSUME IInv, NEW k \in Msg, FailUnknown(k) PROVE Cycle'
<1>1. /\ {k} \subseteq group /\ pc = "outbound" /\ pc' = pc
      /\ batch' = batch /\ group' = group \ {k} /\ Update({k}, MarkFailed)
      /\ UNCHANGED <<msg, db, next, wire, acks, sends, recv, aborts>>
  BY DEF FailUnknown, IsFirst, netVars, history
<1>2. batch \cap group = {}
  BY DEF IInv, Cycle, DrainOrder
<1>3. batch' \cup group' \subseteq (batch \cup group) \ {k} /\ batch' \cap group' = {}
  BY <1>1, <1>2
<1> QED BY <1>1, <1>3, CycleFail

\* A rollback or a restart throws away what the drain held; a copy it had sent stays
\* counted, and is paid for by aborts.
LEMMA CycleEnd ==
  ASSUME IInv, pc' \in {"idle", "inbound"}, touched' = {}, batch' = {}, group' = {},
         tx' = [m \in Msg |-> Absent], aborts' = aborts + 1,
         UNCHANGED <<msg, db, next, wire, acks, sends, recv>>
  PROVE  Cycle'
<1>1. /\ pc' \in {"idle", "inbound"} /\ touched' = {} /\ batch' = {} /\ group' = {}
      /\ tx' = [m \in Msg |-> Absent]
  OBVIOUS
<1>2. Retriable' /\ DrainOrder' /\ NoLostUpdate' /\ Holding'
  BY <1>1 DEF IInv, Cycle, Retriable, DrainOrder, NoLostUpdate, Holding, Live, Absent
<1>3. Budget'
  <2> SUFFICES ASSUME NEW m \in Msg PROVE (sends[m] <= Allowance(View(m)) + aborts)'
    BY DEF Budget
  <2>1. db[m] \in Row /\ db[m].retries \in Nat /\ aborts \in Nat /\ sends[m] \in Nat
    BY RowFields, OutboundAssumption DEF IInv, TypeOK
  <2>2. CASE m \in touched
    <3>1. db[m].status = "pending" /\ sends[m] <= db[m].retries + 1 + aborts
      BY <2>2 DEF IInv, Cycle, NoLostUpdate, Holding
    <3> QED BY <3>1, <2>1, <1>1 DEF View, Allowance
  <2>3. CASE m \notin touched
    <3>1. sends[m] <= Allowance(db[m]) + aborts
      BY <2>3 DEF IInv, Cycle, Budget, View
    <3> QED BY <3>1, <2>1, <1>1, QueueAssumption DEF View, Allowance
  <2> QED BY <2>2, <2>3
<1> QED
  BY <1>2, <1>3
     DEF IInv, Cycle, Numbering, NeverStuck, Evidence, CompletedWasReceived, KindOf

\* A row handed to the socket is IN_PROGRESS in the drain's session, and only that row.
LEMMA CycleStart ==
  ASSUME IInv, NEW k \in Msg, StartSend(k) PROVE Cycle'
<1>1. /\ k \in group /\ pc = "outbound" /\ pc' = "sending" /\ sending' = k
      /\ group' = group \ {k} /\ batch' = batch /\ touched' = touched \cup {k}
      /\ UNCHANGED <<msg, db, next, acks, recv, aborts>>
  BY DEF StartSend, IsFirst, Update
<1>2. /\ k \notin touched /\ View(k) = db[k] /\ db[k] \in Row
      /\ db[k].status = "pending" /\ db[k].retries < MaxRetries
      /\ sends[k] <= db[k].retries + aborts
      /\ sends[k] \in Nat /\ aborts \in Nat /\ db[k].retries \in Nat
  BY <1>1, SelectedRow
<1>3. /\ tx'[k].status = "in_progress" /\ tx'[k].retries = db[k].retries
      /\ \A m \in Msg : m # k => tx'[m] = tx[m]
  BY <1>2, MarkRow DEF StartSend, Update
<1>4. /\ \A m \in Msg : m # k => sends'[m] = sends[m] /\ wire'[m] = wire[m]
      /\ sends'[k] \in {sends[k], sends[k] + 1}
      /\ sendOk' => sends'[k] = sends[k] + 1
      /\ wire'[k] > 0 => wire[k] > 0 \/ sends'[k] = sends[k] + 1
  <2>1. wire \in [Msg -> Nat] /\ sends \in [Msg -> Nat]
    BY DEF IInv, TypeOK
  <2>2. \/ /\ sendOk' = TRUE
           /\ wire' = [wire EXCEPT ![k] = @ + 1]
           /\ sends' = [sends EXCEPT ![k] = @ + 1]
        \/ sendOk' = FALSE /\ wire' = wire /\ sends' = sends
    BY DEF StartSend
  <2> QED BY <2>1, <2>2
<1>5. sends'[k] <= db[k].retries + 1 + aborts
  BY <1>2, <1>4
<1>6. Retriable'
  BY <1>1, <1>2, <1>3 DEF IInv, Cycle, Retriable
<1>7. DrainOrder' /\ NoLostUpdate'
  BY <1>1, <1>2, <1>3, <1>4 DEF IInv, Cycle, TypeOK, DrainOrder, NoLostUpdate
<1>8. Holding'
  <2>1. \A m \in touched : m # k /\ tx[m].status # "in_progress"
    BY <1>1, <1>2 DEF IInv, Cycle, Holding
  <2> QED
    BY <1>1, <1>3, <1>4, <1>5, <2>1 DEF IInv, Cycle, TypeOK, Holding, KindOf
<1>9. Budget'
  <2> SUFFICES ASSUME NEW m \in Msg PROVE (sends[m] <= Allowance(View(m)) + aborts)'
    BY DEF Budget
  <2>1. CASE m = k
    BY <2>1, <1>1, <1>3, <1>5 DEF View, Allowance
  <2>2. CASE m # k
    BY <2>2, <1>1, <1>3, <1>4 DEF IInv, Cycle, Budget, View, Allowance
  <2> QED BY <2>1, <2>2
<1>10. Evidence'
  BY <1>1, <1>2, <1>4 DEF IInv, Cycle, Evidence, KindOf
<1>11. Numbering'
  BY <1>1, <1>2, <1>4 DEF IInv, Cycle, Numbering, Absent
<1> QED
  BY <1>1, <1>6, <1>7, <1>8, <1>9, <1>10, <1>11
     DEF IInv, Cycle, NeverStuck, CompletedWasReceived, KindOf

\* The row whose send returned becomes SENT, COMPLETED, or PENDING with one more retry used.
LEMMA CycleAfter ==
  ASSUME IInv, NEW k \in Msg, AfterSend(k) PROVE Cycle'
<1>1. /\ pc = "sending" /\ sending = k /\ pc' = "outbound" /\ k \in touched
      /\ touched' = touched /\ tx[k].status = "in_progress" /\ View(k) = tx[k]
      /\ UNCHANGED <<msg, db, next, batch, group, wire, acks, sends, recv, aborts>>
  BY DEF AfterSend, Update, netVars, history, IInv, Cycle, DrainOrder, View
<1>2. /\ tx[k] \in Row /\ tx[k].retries < MaxRetries /\ tx[k].retries \in Nat
      /\ sends[k] <= tx[k].retries + 1 + aborts /\ sends[k] \in Nat /\ aborts \in Nat
      /\ sendOk => sends[k] > 0
  <2>1. tx[k] \in Row /\ sends[k] \in Nat /\ aborts \in Nat
    BY OutboundAssumption DEF IInv, TypeOK
  <2> QED
    BY <1>1, <2>1, RowFields
       DEF IInv, Cycle, Retriable, Budget, DrainOrder, Live, Allowance
<1>3. /\ \A m \in Msg : m # k => tx'[m] = tx[m]
      /\ tx'[k] = Settled(tx[k], KindOf(k), sendOk)
  BY <1>1 DEF AfterSend, Update
<1>4. \/ tx'[k].status = "failed"
      \/ /\ tx'[k].status = "pending" /\ tx'[k].retries = tx[k].retries + 1
         /\ tx'[k].retries < MaxRetries
      \/ /\ sendOk /\ KindOf(k) = "command"
         /\ tx'[k].status = "sent" /\ tx'[k].retries = tx[k].retries
      \/ sendOk /\ tx'[k].status = "completed" /\ KindOf(k) # "command"
  BY <1>2, <1>3, MarkRow, MarkFailedRow DEF Settled
<1>5. Retriable'
  BY <1>1, <1>2, <1>3, <1>4 DEF IInv, Cycle, Retriable, Live
<1>6. DrainOrder' /\ NoLostUpdate'
  BY <1>1 DEF IInv, Cycle, DrainOrder, NoLostUpdate
<1>7. Holding'
  <2>1. \A m \in touched : tx'[m].status # "in_progress"
    BY <1>1, <1>3, <1>4 DEF IInv, Cycle, TypeOK, Holding
  <2> QED
    BY <1>1, <1>2, <1>3, <1>4, <2>1 DEF IInv, Cycle, TypeOK, Holding, KindOf
<1>8. Budget'
  <2> SUFFICES ASSUME NEW m \in Msg PROVE (sends[m] <= Allowance(View(m)) + aborts)'
    BY DEF Budget
  <2>1. CASE m = k
    <3>1. sends[k] <= MaxRetries + aborts
      BY <1>2, QueueAssumption
    <3> QED BY <2>1, <1>1, <1>2, <1>3, <1>4, <3>1 DEF View, Allowance
  <2>2. CASE m # k
    BY <2>2, <1>1, <1>3 DEF IInv, Cycle, Budget, View, Allowance
  <2> QED BY <2>1, <2>2
<1> QED
  BY <1>1, <1>5, <1>6, <1>7, <1>8
     DEF IInv, Cycle, Numbering, NeverStuck, Evidence, CompletedWasReceived, KindOf

\* The committed rows after a drain.
LEMMA CommittedRow ==
  ASSUME IInv, CommitDrain, NEW m \in Msg
  PROVE  \/ db'[m] = Absent /\ View(m).status \in {"completed", "absent"}
         \/ db'[m] = View(m)
         \/ View(m).status = "sent" /\ db'[m].status = "failed"
         \/ /\ View(m).status = "sent" /\ db'[m].status = "pending"
            /\ db'[m].retries = View(m).retries + 1 /\ db'[m].retries < MaxRetries
<1>1. PICK daily \in BOOLEAN :
        db' = [k \in Msg |-> LET r == RetryUnacknowledged(View(k)) IN
                             IF daily /\ Purgeable(r) THEN Absent ELSE r]
  BY DEF CommitDrain
<1> DEFINE r == RetryUnacknowledged(View(m))
<1>2. \/ db'[m] = r
      \/ db'[m] = Absent /\ r.status = "completed"
  BY <1>1 DEF Purgeable
<1>3. \/ r = View(m)
      \/ View(m).status = "sent" /\ r.status = "failed"
      \/ /\ View(m).status = "sent" /\ r.status = "pending"
         /\ r.retries = View(m).retries + 1 /\ r.retries < MaxRetries
  BY ViewRow, RetryUnacknowledgedRow DEF IInv, Cycle
<1> HIDE DEF r
<1> QED BY <1>2, <1>3

\* The last commit of a pass publishes no IN_PROGRESS row and counts a retry for every
\* unacknowledged command.
LEMMA CycleCommit == IInv /\ CommitDrain => Cycle'
<1> SUFFICES ASSUME IInv, CommitDrain PROVE Cycle'
  OBVIOUS
<1>1. /\ pc = "outbound" /\ pc' = "idle" /\ touched' = {} /\ batch' = {} /\ group' = {}
      /\ tx' = [m \in Msg |-> Absent]
      /\ UNCHANGED <<msg, next, wire, acks, sends, recv, aborts>>
  BY DEF CommitDrain, EndTransaction, netVars, history
<1>2. \A m \in Msg : View(m) \in Row /\ (View(m).status \in Live => View(m).retries < MaxRetries)
  BY ViewRow DEF IInv, Cycle
<1>3. \A m \in Msg : View(m).status # "in_progress"
  BY <1>1 DEF View, IInv, Cycle, Holding, NeverStuck
<1>4. Retriable' /\ DrainOrder' /\ NoLostUpdate' /\ NeverStuck' /\ Holding'
  BY <1>1, <1>2, <1>3, CommittedRow
     DEF Retriable, DrainOrder, NoLostUpdate, NeverStuck, Holding, Live, Absent
<1>5. Numbering'
  <2>1. \A m \in Msg : m >= next => View(m) = Absent /\ sends[m] = 0
    BY DEF View, IInv, Cycle, Numbering, NoLostUpdate, Absent
  <2> QED BY <1>1, <2>1, CommittedRow DEF Numbering, Absent
<1>6. Budget'
  <2> SUFFICES ASSUME NEW m \in Msg PROVE (sends[m] <= Allowance(View(m)) + aborts)'
    BY DEF Budget
  <2>1. /\ sends[m] <= Allowance(View(m)) + aborts /\ View(m).retries \in Nat
        /\ aborts \in Nat /\ sends[m] \in Nat
    BY <1>2, RowFields, OutboundAssumption DEF IInv, TypeOK, Cycle, Budget
  <2>2. sends[m] <= Allowance(db'[m]) + aborts
    BY <2>1, <1>2, CommittedRow, QueueAssumption DEF Allowance, Absent, Live
  <2> QED BY <1>1, <2>2 DEF View
<1>7. Evidence' /\ CompletedWasReceived'
  <2>1. \A m \in Msg : View(m).status = "completed" /\ KindOf(m) = "command" => recv[m] > 0
    BY DEF View, IInv, Cycle, Holding, CompletedWasReceived
  <2> QED
    BY <1>1, <2>1, CommittedRow
       DEF IInv, Cycle, Evidence, CompletedWasReceived, KindOf, Absent
<1> QED BY <1>4, <1>5, <1>6, <1>7 DEF Cycle

\* The passing of a minute changes timers only.
LEMMA CycleMinute == IInv /\ Minute => Cycle'
<1> SUFFICES ASSUME IInv, Minute PROVE Cycle'
  OBVIOUS
<1>1. /\ db' = [m \in Msg |-> Older(db[m])]
      /\ tx' = [m \in Msg |-> IF m \in touched THEN Older(tx[m]) ELSE tx[m]]
      /\ UNCHANGED <<msg, next, pc, touched, batch, group, sending, sendOk, wire, acks,
                     sends, recv, aborts>>
  BY DEF Minute, netVars
<1>2. \A m \in Msg : /\ db'[m].status = db[m].status /\ db'[m].retries = db[m].retries
                     /\ tx'[m].status = tx[m].status /\ tx'[m].retries = tx[m].retries
                     /\ db[m] = Absent => db'[m] = Absent
  BY <1>1, OlderRow DEF IInv, TypeOK
<1>3. Numbering' /\ Retriable' /\ NeverStuck' /\ Evidence' /\ CompletedWasReceived'
  BY <1>1, <1>2
     DEF IInv, Cycle, Numbering, Retriable, NeverStuck, Evidence, CompletedWasReceived, KindOf
<1>4. touched \subseteq Msg /\ batch \subseteq Msg /\ group \subseteq Msg
  BY DEF IInv, TypeOK
<1>5. DrainOrder'
  BY <1>1, <1>2, <1>4 DEF IInv, Cycle, DrainOrder
<1>6. NoLostUpdate'
  BY <1>1, <1>2, <1>4 DEF IInv, Cycle, NoLostUpdate
<1>7. Holding'
  BY <1>1, <1>2, <1>4 DEF IInv, Cycle, Holding, KindOf
<1>8. Budget'
  BY <1>1, <1>2 DEF IInv, Cycle, Budget, View, Allowance
<1> QED BY <1>3, <1>5, <1>6, <1>7, <1>8 DEF Cycle

-----------------------------------------------------------------------------
(* The spacing of copies.                                                  *)

\* What the drain has selected is due.
Waits == \A m \in batch \cup group : db[m].timer = 0

\* What the silence since the last copy of a message owes to its row.
Waited(m, r) ==
  /\ r.status = "pending" => quiet[m] + r.timer >= AckTimeout + 1 + Backoff(r.retries)
  /\ r.status = "in_progress" => sendOk \/ quiet[m] > AckTimeout
  /\ r.status = "sent" => quiet[m] >= r.timer

Spaced == aborts = 0 => \A m \in Msg : sends[m] > 0 => Waited(m, View(m))

\* How a step may change what the drain's session sees of a message.
Advanced(m) ==
  \/ sends[m] = 0
  \/ View(m)' = View(m) /\ (View(m).status = "in_progress" => sendOk' = sendOk)
  \/ (View(m)').status \notin Live
  \/ (View(m)').status = "sent" /\ (View(m)').timer = 0
  \/ /\ (View(m)').status = "pending"
     /\ (View(m)').timer = Backoff((View(m)').retries)
     /\ (View(m)').retries \in Nat
     /\ aborts = 0 /\ sends[m] > 0 => quiet[m] > AckTimeout

\* Such a change keeps what is owed.
LEMMA AdvancedKeeps ==
  ASSUME IInv, Spaced, sends' = sends, quiet' = quiet, aborts' = aborts,
         \A m \in Msg : Advanced(m)
  PROVE  Spaced'
<1> SUFFICES ASSUME aborts = 0, NEW m \in Msg, sends[m] > 0 PROVE Waited(m, View(m))'
  BY DEF Spaced
<1>1. Waited(m, View(m)) /\ Advanced(m)
  BY DEF Spaced
<1>2. quiet[m] \in Nat /\ AckTimeout \in Nat /\ sends[m] # 0
  BY QueueAssumption DEF IInv, TypeOK
<1>3. CASE View(m)' = View(m) /\ (View(m).status = "in_progress" => sendOk' = sendOk)
  BY <1>1, <1>3 DEF Waited
<1>4. CASE (View(m)').status \notin Live
  BY <1>4 DEF Waited, Live
<1>5. CASE (View(m)').status = "sent" /\ (View(m)').timer = 0
  BY <1>2, <1>5 DEF Waited
<1>6. CASE /\ (View(m)').status = "pending"
           /\ (View(m)').timer = Backoff((View(m)').retries)
           /\ (View(m)').retries \in Nat
           /\ quiet[m] > AckTimeout
  <2>1. Backoff((View(m)').retries) \in Nat
    BY <1>6, BackoffNat
  <2>2. quiet[m] + (View(m)').timer >= AckTimeout + 1 + Backoff((View(m)').retries)
    BY <1>2, <1>6, <2>1
  <2> QED BY <1>6, <2>2 DEF Waited
<1> QED BY <1>1, <1>2, <1>3, <1>4, <1>5, <1>6 DEF Advanced

\* A row being sent is the drain's.
LEMMA SendingRow ==
  ASSUME IInv, NEW m \in Msg, View(m).status = "in_progress"
  PROVE  m \in touched /\ pc = "sending" /\ m = sending
BY DEF IInv, Cycle, NeverStuck, Holding, View

\* A selected row has waited for its acknowledgment, if a copy of it left before.
LEMMA SelectedHasWaited ==
  ASSUME IInv, Spaced, Waits, NEW m \in batch \cup group, aborts = 0, sends[m] > 0
  PROVE  quiet[m] >= AckTimeout + 1 + Backoff(db[m].retries) /\ quiet[m] > AckTimeout
<1>1. m \in Msg
  BY DEF IInv, TypeOK
<1>2. View(m) = db[m] /\ db[m].status = "pending" /\ db[m].retries \in Nat /\ db[m].timer = 0
  BY <1>1, SelectedRow DEF Waits
<1>3. quiet[m] + 0 >= AckTimeout + 1 + Backoff(db[m].retries)
  BY <1>1, <1>2 DEF Spaced, Waited
<1>4. quiet[m] \in Nat /\ AckTimeout \in Nat /\ Backoff(db[m].retries) \in Nat
  BY <1>1, <1>2, BackoffNat, QueueAssumption DEF IInv, TypeOK
<1> QED BY <1>3, <1>4

\* The steps that fail selected rows.
LEMMA SpacedFail ==
  ASSUME IInv, Spaced, Waits, NEW S, S \subseteq batch \cup group, Update(S, MarkFailed),
         pc = "outbound", UNCHANGED <<db, sends, quiet, sendOk, aborts>>
  PROVE  Spaced'
<1>1. S \subseteq Msg
  BY DEF IInv, TypeOK
<1>2. ASSUME NEW m \in Msg, m \notin S PROVE Advanced(m)
  BY <1>2 DEF Update, Advanced, View
<1>3. ASSUME NEW m \in S PROVE Advanced(m)
  <2>1. /\ m \in Msg /\ View(m) = db[m] /\ db[m] \in Row
        /\ db[m].retries < MaxRetries /\ db[m].retries \in Nat /\ sends[m] \in Nat
    BY <1>1, <1>3, SelectedRow
  <2>2. View(m)' = MarkFailed(db[m])
    BY <2>1, <1>3 DEF Update, View
  <2>3. MarkFailed(db[m]).status = "failed" => Advanced(m)
    BY <2>2 DEF Advanced, Live
  <2>4. MarkFailed(db[m]).status = "pending" => Advanced(m)
    BY <1>3, <2>1, <2>2, MarkFailedRow, MarkFailedTimer, SelectedHasWaited DEF Advanced
  <2> QED BY <2>1, <2>3, <2>4, MarkFailedRow
<1> QED BY <1>1, <1>2, <1>3, AdvancedKeeps

\* A send begins.
LEMMA SpacedStart ==
  ASSUME IInv, Spaced, Waits, NEW k \in Msg, StartSend(k) PROVE Spaced'
<1>1. /\ k \in group /\ pc = "outbound" /\ db' = db /\ aborts' = aborts
      /\ touched' = touched \cup {k}
      /\ tx' = [m \in Msg |-> IF m \in {k} THEN MarkProcessing(View(m)) ELSE tx[m]]
  BY DEF StartSend, IsFirst, Update
<1>2. sends \in [Msg -> Nat] /\ quiet \in [Msg -> Nat]
  BY DEF IInv, TypeOK
<1> SUFFICES ASSUME aborts = 0, NEW m \in Msg, sends'[m] > 0 PROVE Waited(m, View(m))'
  BY <1>1 DEF Spaced
<1>3. CASE m = k
  <2>1. View(k)' = MarkProcessing(View(k)) /\ (View(k)').status = "in_progress"
    BY <1>1, SelectedRow, MarkRow DEF View
  <2>2. sendOk' \/ (sends' = sends /\ quiet' = quiet)
    BY DEF StartSend
  <2>3. sendOk' \/ quiet'[k] > AckTimeout
    BY <1>1, <1>3, <2>2, SelectedHasWaited
  <2> QED BY <1>3, <2>1, <2>3 DEF Waited
<1>4. CASE m # k
  <2>1. View(m)' = View(m) /\ sends'[m] = sends[m] /\ quiet'[m] = quiet[m]
    BY <1>1, <1>2, <1>4 DEF View, StartSend
  <2>2. View(m).status # "in_progress" /\ Waited(m, View(m))
    BY <1>1, <2>1, SendingRow DEF Spaced
  <2> QED BY <2>1, <2>2 DEF Waited
<1> QED BY <1>3, <1>4

\* A send returns.
LEMMA SpacedAfter ==
  ASSUME IInv, Spaced, NEW k \in Msg, AfterSend(k) PROVE Spaced'
<1>1. /\ pc = "sending" /\ k = sending /\ UNCHANGED <<db, sends, quiet, aborts>>
      /\ touched' = touched \cup {k}
      /\ tx' = [m \in Msg |-> IF m \in {k} THEN Settled(View(m), KindOf(m), sendOk) ELSE tx[m]]
  BY DEF AfterSend, Update, history
<1>2. k \in touched /\ View(k) = tx[k] /\ tx[k].status = "in_progress" /\ tx[k] \in Row
  BY <1>1 DEF IInv, Cycle, DrainOrder, View, TypeOK
<1>3. View(k).retries < MaxRetries /\ View(k).retries \in Nat
  BY <1>2, RowFields DEF IInv, Cycle, Retriable, Live
<1>4. View(k)' = Settled(View(k), KindOf(k), sendOk)
  BY <1>1 DEF View
<1>5. ASSUME NEW m \in Msg, m # k PROVE Advanced(m)
  BY <1>1, <1>5, SendingRow DEF Advanced, View
<1>6. CASE sendOk
  <2>1. \/ (View(k)').status = "completed"
        \/ (View(k)').status = "sent" /\ (View(k)').timer = 0
    <3>1. MarkCompleted(View(k)).status = "completed" /\ MarkSent(View(k)).status = "sent"
      BY <1>2, MarkRow
    <3>2. MarkSent(View(k)).timer = 0
      BY <1>2 DEF MarkSent, Row
    <3>3. View(k)' = MarkSent(View(k)) \/ View(k)' = MarkCompleted(View(k))
      BY <1>4, <1>6 DEF Settled
    <3> QED BY <3>1, <3>2, <3>3
  <2>2. Advanced(k)
    BY <2>1 DEF Advanced, Live
  <2> QED BY <1>1, <1>5, <2>2, AdvancedKeeps
<1>7. CASE ~ sendOk
  <2>1. View(k)' = MarkFailed(View(k))
    BY <1>4, <1>7 DEF Settled
  <2>2. aborts = 0 /\ sends[k] > 0 => quiet[k] > AckTimeout
    BY <1>2, <1>7 DEF Spaced, Waited
  <2>3. MarkFailed(View(k)).status = "failed" => Advanced(k)
    BY <2>1 DEF Advanced, Live
  <2>4. MarkFailed(View(k)).status = "pending" => Advanced(k)
    BY <1>2, <1>3, <2>1, <2>2, MarkFailedRow, MarkFailedTimer DEF Advanced
  <2>5. Advanced(k)
    BY <1>2, <1>3, <2>3, <2>4, MarkFailedRow
  <2> QED BY <1>1, <1>5, <2>5, AdvancedKeeps
<1> QED BY <1>6, <1>7

\* The last commit of a pass.
LEMMA SpacedCommit ==
  ASSUME IInv, Spaced, CommitDrain PROVE Spaced'
<1>1. /\ pc = "outbound" /\ touched' = {} /\ UNCHANGED <<sends, quiet, aborts>>
  BY DEF CommitDrain, EndTransaction, history
<1> SUFFICES ASSUME NEW m \in Msg PROVE Advanced(m)
  BY <1>1, AdvancedKeeps
<1>2. PICK daily \in BOOLEAN :
        db' = [k \in Msg |-> LET r == RetryUnacknowledged(View(k)) IN
                             IF daily /\ Purgeable(r) THEN Absent ELSE r]
  BY DEF CommitDrain
<1>3. View(m)' = Absent \/ View(m)' = RetryUnacknowledged(View(m))
  BY <1>1, <1>2 DEF View
<1>4. View(m) \in Row /\ (View(m).status \in Live => View(m).retries < MaxRetries)
  BY ViewRow DEF IInv, Cycle
<1>5. View(m).timer \in Nat /\ View(m).retries \in Nat /\ quiet[m] \in Nat /\ AckTimeout \in Nat
  BY <1>4, RowFields, QueueAssumption DEF IInv, TypeOK
<1>6. CASE View(m)' = Absent
  BY <1>6 DEF Advanced, Absent, Live
<1>7. CASE View(m)' = View(m)
  BY <1>1, <1>7, SendingRow DEF Advanced
<1>8. CASE View(m).status = "sent" /\ View(m).timer > AckTimeout /\ View(m)' = MarkFailed(View(m))
  <2>1. aborts = 0 /\ sends[m] > 0 => quiet[m] > AckTimeout
    BY <1>5, <1>8 DEF Spaced, Waited
  <2>2. View(m).retries < MaxRetries
    BY <1>4, <1>8 DEF Live
  <2>3. MarkFailed(View(m)).status = "failed" => Advanced(m)
    BY <1>8 DEF Advanced, Live
  <2>4. MarkFailed(View(m)).status = "pending" => Advanced(m)
    BY <1>4, <1>5, <1>8, <2>1, <2>2, MarkFailedRow, MarkFailedTimer DEF Advanced
  <2> QED BY <1>4, <2>2, <2>3, <2>4, MarkFailedRow
<1> QED BY <1>3, <1>6, <1>7, <1>8 DEF RetryUnacknowledged

\* A minute of silence pays for a minute of backoff.
LEMMA SpacedMinute ==
  ASSUME IInv, Spaced, Minute PROVE Spaced'
<1>1. /\ db' = [m \in Msg |-> Older(db[m])]
      /\ tx' = [m \in Msg |-> IF m \in touched THEN Older(tx[m]) ELSE tx[m]]
      /\ quiet' = [m \in Msg |-> IF sends[m] > 0 THEN UpTo(quiet[m], QuietCap) ELSE 0]
      /\ UNCHANGED <<touched, sendOk, sends, aborts>>
  BY DEF Minute
<1> SUFFICES ASSUME aborts = 0, NEW m \in Msg, sends[m] > 0 PROVE Waited(m, View(m))'
  BY <1>1 DEF Spaced
<1> DEFINE r == View(m)
           q == quiet[m]
<1>2. View(m)' = Older(r) /\ quiet'[m] = UpTo(q, QuietCap)
  BY <1>1 DEF View
<1>3. /\ r \in Row /\ r.timer \in Nat /\ r.retries \in 0..MaxRetries /\ r.retries \in Nat
      /\ q \in Nat /\ AckTimeout \in Nat /\ MaxRetries \in Nat /\ sends[m] \in Nat
  BY ViewRow, RowFields, QueueAssumption DEF IInv, TypeOK, Cycle
<1>4. Waited(m, r)
  BY DEF Spaced
<1>5. sends[m] <= Allowance(r)
  BY <1>3 DEF IInv, Cycle, Budget, Allowance, TypeOK
<1>6. Backoff(MaxRetries) \in Nat /\ Backoff(r.retries) \in Nat
  BY <1>3, BackoffNat
<1>7. QuietCap = AckTimeout + 1 + Backoff(MaxRetries)
  BY DEF QuietCap
<1>8. Older(r).status = r.status /\ Older(r).retries = r.retries
  BY <1>3, OlderRow
<1>9. CASE r.status = "pending"
  <2>1. Backoff(r.retries) <= Backoff(MaxRetries)
    BY <1>3, <1>5, <1>9, BackoffGrows DEF Allowance
  <2>2. Older(r).timer = IF r.timer = 0 THEN 0 ELSE r.timer - 1
    BY <1>3, <1>9 DEF Older, Row
  <2>3. q + r.timer >= AckTimeout + 1 + Backoff(r.retries)
    BY <1>4, <1>9 DEF Waited
  <2> HIDE DEF r, q
  <2>4. UpTo(q, QuietCap) + Older(r).timer >= AckTimeout + 1 + Backoff(r.retries)
    BY <1>3, <1>6, <1>7, <2>1, <2>2, <2>3 DEF UpTo
  <2> QED BY <1>2, <1>8, <1>9, <2>4 DEF Waited
<1>10. CASE r.status = "in_progress"
  <2>1. sendOk \/ q > AckTimeout
    BY <1>4, <1>10 DEF Waited
  <2> HIDE DEF r, q
  <2>2. sendOk \/ UpTo(q, QuietCap) > AckTimeout
    BY <1>3, <1>6, <1>7, <2>1 DEF UpTo
  <2> QED BY <1>1, <1>2, <1>8, <1>10, <2>2 DEF Waited
<1>11. CASE r.status = "sent"
  <2>1. q >= r.timer
    BY <1>4, <1>11 DEF Waited
  <2>2. Older(r).timer = UpTo(r.timer, AckTimeout + 1)
    BY <1>3, <1>11 DEF Older, Row
  <2> HIDE DEF r, q
  <2>3. UpTo(q, QuietCap) >= UpTo(r.timer, AckTimeout + 1)
    BY <1>3, <1>6, <1>7, <2>1 DEF UpTo
  <2> QED BY <1>2, <1>8, <1>11, <2>2, <2>3 DEF Waited
<1> QED BY <1>2, <1>8, <1>9, <1>10, <1>11 DEF Waited

\* The selected rows stay due.
LEMMA WaitsKept ==
  ASSUME IInv, Waits, [Next]_vars PROVE Waits'
<1>1. batch \cup group \subseteq Msg /\ \A m \in batch \cup group : db[m].status = "pending"
  BY DEF IInv, TypeOK, Cycle, NoLostUpdate
<1>2. ASSUME batch' \cup group' \subseteq batch \cup group,
             \A m \in batch \cup group : db'[m].timer \in {db[m].timer, 0}
      PROVE  Waits'
  BY <1>2 DEF Waits
<1>3. CASE Enqueue
  <2>1. \A m \in batch \cup group : db'[m].timer \in {db[m].timer, 0}
    BY <1>1, <1>3 DEF Enqueue, NewRow, IInv, TypeOK
  <2> QED BY <1>2, <1>3, <2>1 DEF Enqueue, drainVars
<1>4. ASSUME NEW k \in Msg, DeleteExpired(k) PROVE Waits'
  <2>1. \A m \in batch \cup group : db'[m].timer \in {db[m].timer, 0}
    BY <1>1, <1>4 DEF DeleteExpired, Absent, IInv, TypeOK
  <2> QED BY <1>2, <1>4, <2>1 DEF DeleteExpired, drainVars
<1>5. ASSUME NEW k \in Msg, Acknowledge(k) PROVE Waits'
  <2>1. \A m \in batch \cup group : db'[m] = db[m]
    BY <1>1, <1>5, MarkAcknowledgedRow DEF Acknowledge, IInv, TypeOK
  <2> QED BY <1>2, <1>5, <2>1 DEF Acknowledge, drainVars
<1>6. CASE Minute
  <2>1. ASSUME NEW m \in batch \cup group PROVE db'[m].timer = 0
    <3>1. m \in Msg /\ db[m] \in Row /\ db[m].status = "pending" /\ db[m].timer = 0
      BY <1>1 DEF Waits, IInv, TypeOK
    <3>2. db'[m] = Older(db[m])
      BY <1>6, <3>1 DEF Minute
    <3>3. Older(db[m]).timer = 0
      BY <3>1 DEF Older, Row
    <3> QED BY <3>2, <3>3
  <2> QED BY <1>2, <1>6, <2>1 DEF Minute
<1>7. CASE SelectBatch
  <2>1. \A m \in touched : tx[m].status = "expired"
    BY <1>7 DEF SelectBatch, IInv, Cycle, DrainOrder
  <2>2. \A m \in Eligible : db[m].timer = 0
    BY <2>1 DEF Eligible, Due, View
  <2>3. batch' \subseteq Eligible /\ group' = {} /\ db' = db
    BY <1>7 DEF SelectBatch, FirstOf, IInv, Cycle, DrainOrder
  <2> QED BY <2>2, <2>3 DEF Waits
<1>8. CASE BeginDrain \/ InboundCommit \/ CommitDrain
  BY <1>8 DEF BeginDrain, InboundCommit, CommitDrain, EndTransaction, Waits, IInv, Cycle, DrainOrder
<1>9. ASSUME NEW h \in Host, RejectGroup(h) \/ AdmitGroup(h) PROVE Waits'
  BY <1>9 DEF RejectGroup, AdmitGroup, NextGroup, Waits
<1>10. ASSUME NEW k \in Msg, StartSend(k) \/ AfterSend(k) \/ FailUnknown(k) PROVE Waits'
  BY <1>10 DEF StartSend, AfterSend, FailUnknown, Waits
<1>11. ASSUME NEW k \in Msg, AgentReceive(k) \/ LoseMessage(k) \/ LoseAck(k) PROVE Waits'
  BY <1>11 DEF AgentReceive, LoseMessage, LoseAck, Waits, drainVars
<1>12. CASE InboundRollback \/ RollbackDrain \/ Restart
  BY <1>12 DEF InboundRollback, RollbackDrain, Restart, EndTransaction, Waits
<1>13. ASSUME UNCHANGED vars \/ \E h \in Host : Drop(h) \/ Register(h) \/ ChangeHost(h)
                                                \/ ToggleWindow(h)
       PROVE  Waits'
  BY <1>13 DEF vars, Drop, Register, ChangeHost, ToggleWindow, Waits, drainVars
<1> QED BY <1>3, <1>4, <1>5, <1>6, <1>7, <1>8, <1>9, <1>10, <1>11, <1>12, <1>13
        DEF Next, Api, Drain, Agent, Disturb

\* The silence is kept by every step.
LEMMA SpacedKept ==
  ASSUME IInv, Spaced, Waits, [Next]_vars PROVE Spaced'
<1>1. aborts \in Nat
  BY OutboundAssumption DEF IInv, TypeOK
<1>2. CASE Enqueue
  <2>1. /\ db' = [db EXCEPT ![next] = NewRow] /\ next \in Msg
        /\ UNCHANGED <<tx, touched, sendOk, sends, quiet, aborts>>
    BY <1>2 DEF Enqueue, drainVars, history
  <2>2. sends[next] = 0
    BY <2>1 DEF IInv, Cycle, Numbering, Msg
  <2>3. \A m \in Msg : m # next => View(m)' = View(m)
    BY <2>1 DEF View, IInv, TypeOK
  <2>4. \A m \in Msg : Advanced(m)
    BY <2>1, <2>2, <2>3 DEF Advanced
  <2> QED BY <2>1, <2>4, AdvancedKeeps
<1>3. ASSUME NEW k \in Msg, DeleteExpired(k) \/ Acknowledge(k) PROVE Spaced'
  <2>1. UNCHANGED <<tx, touched, sendOk, sends, quiet, aborts>>
    BY <1>3 DEF DeleteExpired, Acknowledge, drainVars, history
  <2>2. /\ \A m \in Msg : m # k => db'[m] = db[m]
        /\ db'[k] = db[k] \/ db'[k].status \notin Live
    BY <1>3, MarkAcknowledgedRow DEF DeleteExpired, Acknowledge, IInv, TypeOK, Absent, Live
  <2>3. \A m \in Msg : Advanced(m)
    BY <2>1, <2>2 DEF Advanced, View
  <2> QED BY <2>1, <2>3, AdvancedKeeps
<1>4. CASE BeginDrain
  <2>1. /\ pc = "idle" /\ Update({m \in Msg : Expirable(db[m])}, ExpireOld)
        /\ UNCHANGED <<db, sendOk, sends, quiet, aborts>>
    BY <1>4 DEF BeginDrain, history
  <2>2. touched = {}
    BY <2>1 DEF IInv, Cycle, DrainOrder
  <2>3. \A m \in Msg : View(m)' = View(m) \/ View(m)' = ExpireOld(View(m))
    BY <2>1, <2>2 DEF Update, View
  <2>4. \A m \in Msg : ExpireOld(View(m)).status = "expired"
    BY ViewRow, MarkRow DEF IInv, Cycle
  <2>5. \A m \in Msg : Advanced(m)
    BY <2>1, <2>3, <2>4 DEF Advanced, Live
  <2> QED BY <2>1, <2>5, AdvancedKeeps
<1>5. CASE InboundCommit
  <2>1. /\ db' = [m \in Msg |-> View(m)] /\ touched' = {}
        /\ UNCHANGED <<sendOk, sends, quiet, aborts>>
    BY <1>5 DEF InboundCommit, history
  <2>2. \A m \in Msg : View(m)' = View(m)
    BY <2>1 DEF View
  <2>3. \A m \in Msg : Advanced(m)
    BY <2>1, <2>2 DEF Advanced
  <2> QED BY <2>1, <2>3, AdvancedKeeps
<1>6. ASSUME UNCHANGED <<db, tx, touched, sendOk, sends, quiet, aborts>> PROVE Spaced'
  <2>1. \A m \in Msg : Advanced(m)
    BY <1>6 DEF Advanced, View
  <2> QED BY <1>6, <2>1, AdvancedKeeps
<1>7. ASSUME SelectBatch \/ \E h \in Host : AdmitGroup(h) PROVE Spaced'
  BY <1>6, <1>7 DEF SelectBatch, AdmitGroup, history
<1>8. ASSUME NEW h \in Host, RejectGroup(h) PROVE Spaced'
  BY <1>8, SpacedFail DEF RejectGroup, NextGroup, history
<1>9. ASSUME NEW k \in Msg, StartSend(k) \/ AfterSend(k) \/ FailUnknown(k) PROVE Spaced'
  <2>1. CASE FailUnknown(k)
    BY <2>1, SpacedFail DEF FailUnknown, IsFirst, history
  <2> QED BY <1>9, <2>1, SpacedStart, SpacedAfter
<1>10. ASSUME InboundRollback \/ RollbackDrain \/ Restart PROVE Spaced'
  <2>1. aborts' = aborts + 1
    BY <1>10 DEF InboundRollback, RollbackDrain, Restart
  <2> QED BY <1>1, <2>1 DEF Spaced
<1>11. ASSUME NEW k \in Msg, AgentReceive(k) \/ LoseMessage(k) \/ LoseAck(k) PROVE Spaced'
  BY <1>6, <1>11 DEF AgentReceive, LoseMessage, LoseAck, drainVars, history
<1>12. ASSUME UNCHANGED vars \/ \E h \in Host : Drop(h) \/ Register(h) \/ ChangeHost(h)
                                                \/ ToggleWindow(h)
       PROVE  Spaced'
  BY <1>6, <1>12 DEF vars, Drop, Register, ChangeHost, ToggleWindow, drainVars, history
<1>13. CASE Minute
  BY <1>13, SpacedMinute
<1>14. CASE CommitDrain
  BY <1>14, SpacedCommit
<1> QED BY <1>2, <1>3, <1>4, <1>5, <1>7, <1>8, <1>9, <1>10, <1>11, <1>12, <1>13, <1>14
        DEF Next, Api, Drain, Agent, Disturb

\* Only StartSend hands a message over.
LEMMA HandedByStart ==
  ASSUME IInv, [Next]_vars, NEW m \in Msg, sends'[m] > sends[m]
  PROVE  StartSend(m)
<1>1. PICK k \in Msg : StartSend(k)
  <2>1. sends' # sends
    BY DEF IInv, TypeOK
  <2> QED
    BY <2>1 DEF Next, Api, Drain, Agent, Disturb, Enqueue, DeleteExpired, BeginDrain, InboundCommit,
         SelectBatch, RejectGroup, AdmitGroup, AfterSend, FailUnknown, CommitDrain, AgentReceive,
         Acknowledge, InboundRollback, RollbackDrain, Restart, Drop, Register, ChangeHost, ToggleWindow,
         LoseMessage, LoseAck, Minute, history, vars
<1>2. m = k
  BY <1>1 DEF StartSend, IInv, TypeOK
<1> QED BY <1>1, <1>2

\* A message is handed over again when its row has waited.
LEMMA StepIsSpaced ==
  ASSUME IInv, Spaced, Waits, [Next]_vars, NEW m \in Msg,
         sends'[m] > sends[m], sends[m] > 0, aborts = 0
  PROVE  quiet[m] >= AckTimeout + 1 + Backoff(View(m).retries)
<1>1. m \in group
  BY HandedByStart DEF StartSend, IsFirst
<1> QED BY <1>1, SelectedHasWaited, SelectedRow

-----------------------------------------------------------------------------
(* The inductive invariant and what follows from it.                       *)

\* Every step keeps the life cycle in order: one lemma for each group of actions.
LEMMA Inductive == IInv /\ [Next]_vars => IInv'
<1> SUFFICES ASSUME IInv, [Next]_vars PROVE IInv'
  OBVIOUS
<1>1. TypeOK'
  BY TypeNext
<1>2. ASSUME UNCHANGED vars \/ \E h \in Host : Drop(h) \/ Register(h) \/ ChangeHost(h)
                                               \/ ToggleWindow(h)
      PROVE  Cycle'
  <2>1. UNCHANGED <<msg, db, next, drainVars, netVars, history, aborts>>
    BY <1>2 DEF vars, Drop, Register, ChangeHost, ToggleWindow
  <2> QED BY <2>1, CycleFrame
<1>3. ASSUME InboundRollback \/ RollbackDrain \/ Restart PROVE Cycle'
  <2>1. /\ pc' \in {"idle", "inbound"} /\ touched' = {} /\ batch' = {} /\ group' = {}
        /\ tx' = [m \in Msg |-> Absent]
        /\ aborts' = aborts + 1
        /\ UNCHANGED <<msg, db, next, wire, acks, sends, recv>>
    BY <1>3 DEF InboundRollback, RollbackDrain, Restart, EndTransaction, IInv, Cycle,
       DrainOrder, netVars, history
  <2> QED BY <2>1, CycleEnd
<1>4. ASSUME Api PROVE Cycle'
  BY <1>4, CycleEnqueue, CycleDelete DEF Api
<1>5. ASSUME Drain PROVE Cycle'
  BY <1>5, CycleBegin, CycleInboundCommit, CycleSelect, CycleReject, CycleAdmit, CycleStart,
     CycleAfter, CycleFailUnknown, CycleCommit DEF Drain
<1>6. ASSUME Agent PROVE Cycle'
  BY <1>6, CycleNetwork, CycleAcknowledge DEF Agent
<1>7. ASSUME Disturb PROVE Cycle'
  BY <1>7, <1>2, <1>3, CycleNetwork DEF Disturb
<1>8. ASSUME Minute PROVE Cycle'
  BY <1>8, CycleMinute
<1>9. Cycle'
  BY <1>2, <1>4, <1>5, <1>6, <1>7, <1>8 DEF Next
<1> QED BY <1>1, <1>9 DEF IInv

\* IInv holds in every reachable state.
THEOREM Invariant == Spec => []IInv
<1>1. Init => IInv
  BY TypeInit, CycleInit DEF IInv
<1> QED BY <1>1, Inductive, PTL DEF Spec

\* Every reachable state is well typed: no retry count exceeds max_retries.
THEOREM TypeCorrect == Spec => []TypeOK
<1>1. IInv => TypeOK
  BY DEF IInv
<1> QED BY <1>1, Invariant, PTL

\* Whatever acknowledgments and API calls run between the awaits of a drain, its
\* commit overwrites none of their changes.
THEOREM NoUpdateIsLost == Spec => []NoLostUpdate
<1>1. IInv => NoLostUpdate
  BY DEF IInv, Cycle
<1> QED BY <1>1, Invariant, PTL

\* No row is ever committed IN_PROGRESS, so none needs the reset the code lacks.
THEOREM NoRowIsStuck == Spec => []NeverStuck
<1>1. IInv => NeverStuck
  BY DEF IInv, Cycle
<1> QED BY <1>1, Invariant, PTL

\* At most max_retries copies of a message leave the server, and one more for each
\* drain that was rolled back.
THEOREM CopiesAreBounded == Spec => []SendsBounded
<1>1. ASSUME IInv PROVE SendsBounded
  <2> SUFFICES ASSUME NEW m \in Msg PROVE sends[m] <= MaxRetries + aborts
    BY DEF SendsBounded
  <2>1. /\ View(m) \in Row /\ (View(m).status \in Live => View(m).retries < MaxRetries)
        /\ sends[m] <= Allowance(View(m)) + aborts
        /\ sends[m] \in Nat /\ aborts \in Nat /\ View(m).retries \in Nat
    BY <1>1, ViewRow, RowFields, OutboundAssumption DEF IInv, Cycle, Budget, TypeOK
  <2> QED BY <2>1, QueueAssumption DEF Allowance, Live
<1> QED BY <1>1, Invariant, PTL

\* A command is COMPLETED only when the agent has received it.
THEOREM CompletionIsEarned == Spec => []CompletedWasReceived
<1>1. IInv => CompletedWasReceived
  BY DEF IInv, Cycle
<1> QED BY <1>1, Invariant, PTL

\* Unless a drain was rolled back, no copy follows another before the acknowledgment
\* timeout and the backoff of the last failure have passed.
THEOREM CopiesAreSpaced == Spec => RedeliverySpacing
<1> DEFINE Spacing == Spaced /\ Waits
<1>1. Init => Spacing
  BY DEF Init, Spaced, Waits
<1>2. IInv /\ Spacing /\ [Next]_vars => Spacing'
  BY SpacedKept, WaitsKept
<1>3. IInv /\ Spacing /\ [Next]_vars =>
        [\A m \in Msg :
           sends'[m] > sends[m] /\ sends[m] > 0 /\ aborts = 0
             => quiet[m] >= AckTimeout + 1 + Backoff(View(m).retries)]_vars
  BY StepIsSpaced
<1> HIDE DEF Spacing
<1> QED BY <1>1, <1>2, <1>3, Invariant, PTL DEF Spec, RedeliverySpacing

-----------------------------------------------------------------------------
(* The order of the drain's query.                                         *)

Rank(m) == StringRank[msg[m].prio]

LEMMA RankNat ==
  ASSUME TypeOK, NEW m \in Msg PROVE Rank(m) \in 1..4 /\ m \in Nat
<1>1. msg[m].prio \in Prio
  BY OutboundAssumption DEF TypeOK
<1>2. \A p \in Prio : StringRank[p] \in 1..4
  BY DEF StringRank, Prio
<1>3. m \in Nat
  BY OutboundAssumption DEF Msg
<1> QED BY <1>1, <1>2, <1>3 DEF Rank

\* ORDER BY priority DESC, created_at is a strict total order of the rows.
LEMMA QueryOrder ==
  ASSUME TypeOK, NEW m \in Msg, NEW k \in Msg
  PROVE  /\ Before(m, k) <=> Rank(m) > Rank(k) \/ (Rank(m) = Rank(k) /\ m < k)
         /\ m # k => Before(m, k) \/ Before(k, m)
         /\ Before(m, k) => ~Before(k, m) /\ m # k
         /\ \A j \in Msg : Before(m, k) /\ Before(k, j) => Before(m, j)
<1>1. \A i, j \in Msg : Before(i, j) <=> Rank(i) > Rank(j) \/ (Rank(i) = Rank(j) /\ i < j)
  BY DEF Before, Rank
<1>2. \A i \in Msg : Rank(i) \in Nat /\ i \in Nat
  BY RankNat
<1> QED BY <1>1, <1>2

\* A set of rows that is not empty has a first and a last row in that order.
LEMMA FirstExists ==
  ASSUME TypeOK, NEW S \in SUBSET Msg, S # {} PROVE \E m \in S : IsFirst(m, S)
<1> DEFINE places == {4 - Rank(m) : m \in S}
<1>1. PICK r \in places : \A q \in places : r <= q
  <2>1. places \in SUBSET Nat /\ places # {}
    BY RankNat
  <2> QED BY <2>1, Least
<1> DEFINE best == {m \in S : 4 - Rank(m) = r}
<1>2. PICK m \in best : \A k \in best : m <= k
  <2>1. best \in SUBSET Nat /\ best # {}
    BY <1>1, RankNat
  <2> QED BY <2>1, Least
<1>3. ASSUME NEW k \in S \ {m} PROVE Before(m, k)
  <2>1. 4 - Rank(m) <= 4 - Rank(k)
    BY <1>1, <1>2
  <2>2. Rank(m) = Rank(k) => m <= k
    BY <1>2
  <2>3. Rank(m) \in 1..4 /\ Rank(k) \in 1..4 /\ m \in Nat /\ k \in Nat
    BY RankNat
  <2> QED BY <2>1, <2>2, <2>3, QueryOrder
<1> QED BY <1>3 DEF IsFirst

LEMMA LastExists ==
  ASSUME TypeOK, NEW S \in SUBSET Msg, S # {}
  PROVE  \E m \in S : \A k \in S \ {m} : Before(k, m)
<1> DEFINE places == {Rank(m) : m \in S}
<1>1. PICK r \in places : \A q \in places : r <= q
  <2>1. places \in SUBSET Nat /\ places # {}
    BY RankNat
  <2> QED BY <2>1, Least
<1> DEFINE late == {m \in S : Rank(m) = r}
           ends == {NumMessages - m : m \in late}
<1>2. PICK d \in ends : \A e \in ends : d <= e
  <2>1. late # {}
    BY <1>1
  <2>2. ends \in SUBSET Nat /\ ends # {}
    BY <2>1, OutboundAssumption DEF Msg
  <2> QED BY <2>2, Least
<1>3. PICK m \in late : d = NumMessages - m
  BY <1>2
<1>4. ASSUME NEW k \in S \ {m} PROVE Before(k, m)
  <2>1. Rank(m) <= Rank(k)
    BY <1>1
  <2>2. Rank(m) = Rank(k) => NumMessages - m <= NumMessages - k
    BY <1>2, <1>3
  <2>3. Rank(m) \in 1..4 /\ Rank(k) \in 1..4 /\ m \in Nat /\ k \in Nat /\ NumMessages \in Nat
    BY RankNat, OutboundAssumption
  <2> QED BY <2>1, <2>2, <2>3, QueryOrder
<1> QED BY <1>4

\* Any set of rows is finite.
LEMMA RowsFinite ==
  ASSUME NEW S \in SUBSET Msg
  PROVE  /\ IsFiniteSet(S) /\ Cardinality(S) \in Nat
         /\ Cardinality(S) = 0 <=> S = {}
         /\ \A T \in SUBSET S : Cardinality(T) <= Cardinality(S)
         /\ \A m \in S : Cardinality(S \ {m}) = Cardinality(S) - 1
<1>1. IsFiniteSet(Msg)
  BY OutboundAssumption, FS_Interval DEF Msg
<1>2. IsFiniteSet(S)
  BY <1>1, FS_Subset
<1> QED BY <1>2, FS_CardinalityType, FS_EmptySet, FS_Subset, FS_RemoveElement

\* LIMIT n: the first n rows in the order of the query, or all when there are fewer.
LEMMA FirstOfLimit ==
  ASSUME TypeOK, NEW S \in SUBSET Msg, NEW n \in Nat
  PROVE  /\ FirstOf(S, n) \subseteq S
         /\ Cardinality(FirstOf(S, n)) <= n
         /\ \A m \in FirstOf(S, n), k \in S \ FirstOf(S, n) : Before(m, k)
         /\ FirstOf(S, n) # S => Cardinality(FirstOf(S, n)) = n
<1> DEFINE T == FirstOf(S, n)
           Ahead(m) == {k \in S : Before(k, m)}
<1>1. /\ T \in SUBSET S /\ T \in SUBSET Msg
      /\ \A m \in S : m \in T <=> Cardinality(Ahead(m)) < n
      /\ \A m \in S : Ahead(m) \in SUBSET Msg /\ Cardinality(Ahead(m)) \in Nat
  BY RowsFinite DEF FirstOf
<1> HIDE DEF T
<1>2. Cardinality(T) <= n
  <2>1. CASE T = {}
    BY <2>1, FS_EmptySet
  <2>2. CASE T # {}
    <3>1. PICK m \in T : \A k \in T \ {m} : Before(k, m)
      BY <1>1, <2>2, LastExists
    <3>2. T \ {m} \in SUBSET Ahead(m)
      BY <1>1, <3>1
    <3>3. Cardinality(T \ {m}) <= Cardinality(Ahead(m)) /\ Cardinality(Ahead(m)) < n
      BY <1>1, <3>2, RowsFinite
    <3>4. Cardinality(T \ {m}) = Cardinality(T) - 1 /\ Cardinality(T) \in Nat
      BY <1>1, RowsFinite
    <3>5. Cardinality(Ahead(m)) \in Nat
      BY <1>1
    <3> QED BY <3>3, <3>4, <3>5
  <2> QED BY <2>1, <2>2
<1>3. ASSUME NEW m \in T, NEW k \in S \ T PROVE Before(m, k)
  <2>1. SUFFICES ASSUME Before(k, m) PROVE FALSE
    BY <1>1, QueryOrder
  <2>2. Ahead(k) \in SUBSET Ahead(m)
    BY <1>1, <2>1, QueryOrder
  <2>3. Cardinality(Ahead(k)) <= Cardinality(Ahead(m))
    BY <1>1, <2>2, RowsFinite
  <2>4. /\ Cardinality(Ahead(m)) < n /\ ~(Cardinality(Ahead(k)) < n)
        /\ Cardinality(Ahead(m)) \in Nat /\ Cardinality(Ahead(k)) \in Nat
    BY <1>1
  <2> QED BY <2>3, <2>4
<1>4. ASSUME T # S PROVE Cardinality(T) = n
  <2>1. PICK k \in S \ T : IsFirst(k, S \ T)
    BY <1>1, <1>4, FirstExists
  <2>2. Ahead(k) \in SUBSET T
    <3> SUFFICES ASSUME NEW j \in S, Before(j, k), j \notin T PROVE FALSE
      OBVIOUS
    <3>1. j # k /\ ~Before(k, j)
      BY QueryOrder
    <3> QED BY <2>1, <3>1 DEF IsFirst
  <2>3. Cardinality(Ahead(k)) <= Cardinality(T) /\ Cardinality(T) \in Nat
    BY <1>1, <2>2, RowsFinite
  <2>4. ~(Cardinality(Ahead(k)) < n) /\ Cardinality(Ahead(k)) \in Nat
    BY <1>1
  <2> QED BY <1>2, <2>3, <2>4
<1> QED BY <1>1, <1>2, <1>3, <1>4 DEF T

-----------------------------------------------------------------------------
(* One pass of the drain.                                                  *)

\* Every step is one of the drain's own, ends its pass, or leaves the pass where it is.
LEMMA StepKinds ==
  ASSUME [Next]_vars
  PROVE  /\ msg' = msg
         /\ \/ Drain
            \/ InboundRollback
            \/ EndTransaction
            \/ UNCHANGED <<pc, touched, batch, group, sending, sendOk>>
BY DEF Next, Api, Drain, Agent, Disturb, Enqueue, DeleteExpired, BeginDrain, InboundCommit,
       SelectBatch, RejectGroup, AdmitGroup, StartSend, AfterSend, FailUnknown, CommitDrain,
       AgentReceive, Acknowledge, InboundRollback, RollbackDrain, Restart, Drop, Register,
       ChangeHost, ToggleWindow, LoseMessage, LoseAck, Minute, drainVars, vars

\* The steps the open pass can still take: a selected row costs its host's look-up, its
\* send and the return of the send.
StepsLeft ==
  IF pc = "inbound" THEN 3 * BatchLimit + 2 + (IF touched = {} THEN 0 ELSE 1)
  ELSE 3 * Cardinality(batch) + 2 * Cardinality(group) + (IF pc = "sending" THEN 1 ELSE 0)

\* A pass gets nearer to its end by every step of its own, and no other step sets it back.
PassShrinks ==
  pc # "idle" => \/ pc' = "idle"
                 \/ StepsLeft' <= StepsLeft /\ (Drain => StepsLeft' < StepsLeft)

LEMMA DrainShrinks ==
  ASSUME IInv, Drain, pc # "idle", pc' # "idle"
  PROVE  StepsLeft' < StepsLeft /\ StepsLeft' \in Nat
<1> DEFINE b == Cardinality(batch)
           g == Cardinality(group)
<1>1. /\ TypeOK /\ batch \in SUBSET Msg /\ group \in SUBSET Msg /\ BatchLimit \in Nat
      /\ b \in Nat /\ g \in Nat
  BY RowsFinite, OutboundAssumption DEF IInv, TypeOK
<1>2. pc = "inbound" => batch = {} /\ group = {}
  BY DEF IInv, Cycle, DrainOrder
<1>3. CASE InboundCommit
  BY <1>1, <1>3 DEF InboundCommit, StepsLeft
<1>4. CASE SelectBatch
  <2>1. Eligible \in SUBSET Msg
    BY DEF Eligible
  <2>2. Cardinality(batch') <= BatchLimit /\ batch' \in SUBSET Msg
    BY <1>1, <1>4, <2>1, FirstOfLimit DEF SelectBatch
  <2>3. Cardinality(batch') \in Nat
    BY <2>2, RowsFinite
  <2>4. group' = {} /\ pc = "inbound" /\ pc' = "outbound"
    BY <1>2, <1>4 DEF SelectBatch
  <2> QED BY <1>1, <2>2, <2>3, <2>4, FS_EmptySet DEF StepsLeft
<1>5. ASSUME NEW h \in Host, RejectGroup(h) \/ AdmitGroup(h)
      PROVE  StepsLeft' < StepsLeft /\ StepsLeft' \in Nat
  <2> DEFINE rows == {m \in batch : HostOf(m) = h}
             c == Cardinality(batch \ rows)
             e == Cardinality(group')
  <2>1. /\ pc = "outbound" /\ pc' = "outbound" /\ group = {} /\ batch' = batch \ rows
        /\ group' \in SUBSET rows
        /\ \E m \in batch : HostOf(m) = h
    BY <1>5 DEF RejectGroup, AdmitGroup, NextGroup
  <2>2. Cardinality(rows) + c = b /\ Cardinality(rows) \in Nat \ {0} /\ c \in Nat
    <3>1. rows \in SUBSET batch /\ batch \cap rows = rows /\ rows # {}
      BY <2>1
    <3>2. IsFiniteSet(batch) /\ rows \in SUBSET Msg /\ batch \ rows \in SUBSET Msg
      BY <1>1, RowsFinite
    <3>3. c = b - Cardinality(rows)
      BY <3>1, <3>2, FS_Difference
    <3>4. Cardinality(rows) \in Nat \ {0} /\ c \in Nat
      BY <3>1, <3>2, RowsFinite
    <3> QED BY <1>1, <3>3, <3>4
  <2>3. e <= Cardinality(rows) /\ e \in Nat
    BY <1>1, <2>1, RowsFinite
  <2>4. StepsLeft = 3 * b + 2 * g /\ g = 0 /\ StepsLeft' = 3 * c + 2 * e
    <3>1. g = 0
      BY <2>1, FS_EmptySet
    <3>2. pc # "inbound" /\ pc # "sending" /\ pc' # "inbound" /\ pc' # "sending"
      BY <2>1
    <3>3. Cardinality(batch') = c
      BY <2>1
    <3> HIDE DEF b, g, c, e, rows
    <3>4. StepsLeft = 3 * b + 2 * g
      BY <1>1, <3>2 DEF StepsLeft, b, g
    <3>5. StepsLeft' = 3 * c + 2 * e
      BY <2>2, <2>3, <3>2, <3>3 DEF StepsLeft, e
    <3> QED BY <3>1, <3>4, <3>5
  <2> HIDE DEF b, g, c, e, rows
  <2>5. g = 0 /\ b \in Nat
    BY <1>1, <2>4
  <2> QED BY <2>2, <2>3, <2>4, <2>5
<1>6. ASSUME NEW m \in Msg, StartSend(m) \/ FailUnknown(m)
      PROVE  StepsLeft' < StepsLeft /\ StepsLeft' \in Nat
  <2>1. /\ pc = "outbound" /\ pc' \in {"outbound", "sending"} /\ m \in group
        /\ group' = group \ {m} /\ batch' = batch
    BY <1>6 DEF StartSend, FailUnknown, IsFirst
  <2>2. Cardinality(group') = g - 1 /\ Cardinality(group') \in Nat
    BY <1>1, <2>1, RowsFinite
  <2>3. Cardinality(batch') = b
    BY <2>1
  <2> HIDE DEF b, g
  <2> QED BY <1>1, <2>1, <2>2, <2>3 DEF StepsLeft, b, g
<1>7. ASSUME NEW m \in Msg, AfterSend(m)
      PROVE  StepsLeft' < StepsLeft /\ StepsLeft' \in Nat
  BY <1>1, <1>7 DEF AfterSend, StepsLeft
<1>8. ~BeginDrain /\ ~CommitDrain
  BY DEF BeginDrain, CommitDrain, EndTransaction
<1> QED BY <1>3, <1>4, <1>5, <1>6, <1>7, <1>8 DEF Drain

LEMMA StepShrinks ==
  ASSUME IInv, [Next]_vars PROVE PassShrinks
<1> SUFFICES ASSUME pc # "idle", pc' # "idle"
             PROVE  StepsLeft' <= StepsLeft /\ (Drain => StepsLeft' < StepsLeft)
  BY DEF PassShrinks
<1>1. StepsLeft \in Nat
  BY RowsFinite, OutboundAssumption DEF IInv, TypeOK, StepsLeft
<1>2. CASE Drain
  BY <1>1, <1>2, DrainShrinks
<1>3. ASSUME ~Drain, UNCHANGED <<pc, touched, batch, group, sending, sendOk>>
      PROVE  StepsLeft' <= StepsLeft
  BY <1>1, <1>3 DEF StepsLeft
<1>4. ASSUME InboundRollback PROVE StepsLeft' <= StepsLeft
  BY <1>4, OutboundAssumption DEF InboundRollback, StepsLeft
<1>5. ~EndTransaction
  BY DEF EndTransaction
<1> QED BY <1>2, <1>3, <1>4, <1>5, StepKinds

\* A pass never takes more steps than the batch accounts for, however long the queue is.
PassBounded == StepsLeft <= 3 * BatchLimit + 3

LEMMA BoundKept ==
  ASSUME IInv, PassBounded, [Next]_vars PROVE PassBounded'
<1>1. StepsLeft \in Nat /\ StepsLeft' \in Nat /\ BatchLimit \in Nat
  <2>1. /\ batch \in SUBSET Msg /\ group \in SUBSET Msg
        /\ batch' \in SUBSET Msg /\ group' \in SUBSET Msg
    BY TypeNext DEF IInv, TypeOK
  <2>2. /\ Cardinality(batch) \in Nat /\ Cardinality(group) \in Nat
        /\ Cardinality(batch') \in Nat /\ Cardinality(group') \in Nat
    BY <2>1, RowsFinite
  <2> QED BY <2>2, OutboundAssumption DEF StepsLeft
<1>2. CASE pc' = "idle"
  <2>1. batch' = {} /\ group' = {}
    BY <1>2, Inductive DEF IInv, Cycle, DrainOrder
  <2> QED BY <1>1, <1>2, <2>1, FS_EmptySet DEF StepsLeft, PassBounded
<1>3. CASE pc # "idle" /\ pc' # "idle"
  BY <1>1, <1>3, StepShrinks DEF PassShrinks, PassBounded
<1>4. CASE pc = "idle" /\ pc' # "idle"
  <2>1. pc' = "inbound"
    BY <1>4, StepKinds DEF Drain, BeginDrain, InboundCommit, SelectBatch, RejectGroup, AdmitGroup,
       NextGroup, StartSend, AfterSend, FailUnknown, CommitDrain, InboundRollback, EndTransaction
  <2> QED BY <1>1, <2>1 DEF StepsLeft, PassBounded
<1> QED BY <1>2, <1>3, <1>4

\* The guards of the drain's actions: in an open pass one of them is met, so the loop is
\* never left waiting for something that only another part of the system could do.
CanGoOn ==
  \/ pc = "inbound"
  \/ pc = "sending" /\ sending \in Msg
  \/ /\ pc = "outbound"
     /\ \/ batch = {} /\ group = {}
        \/ group = {} /\ \E m \in batch : IsFirst(m, batch) /\ HostOf(m) \in Host
        \/ \E m \in group : IsFirst(m, group) /\ View(m).status = "pending"

PassesGoOn == pc # "idle" => CanGoOn

LEMMA DrainCanGoOn == IInv => PassesGoOn
<1> SUFFICES ASSUME IInv, pc # "idle" PROVE CanGoOn
  BY DEF PassesGoOn
<1>1. TypeOK
  BY DEF IInv
<1>2. CASE pc = "sending"
  <2>1. sending \in Msg
    BY <1>2 DEF IInv, Cycle, TypeOK, DrainOrder
  <2> QED BY <1>2, <2>1 DEF CanGoOn
<1>3. CASE pc = "outbound" /\ group # {}
  <2>1. PICK m \in group : IsFirst(m, group)
    BY <1>1, <1>3, FirstExists DEF TypeOK
  <2>2. View(m).status = "pending"
    BY <2>1 DEF IInv, Cycle, DrainOrder, NoLostUpdate, View
  <2> QED BY <1>3, <2>1, <2>2 DEF CanGoOn
<1>4. CASE pc = "outbound" /\ group = {} /\ batch # {}
  <2>1. PICK m \in batch : IsFirst(m, batch)
    BY <1>1, <1>4, FirstExists DEF TypeOK
  <2>2. HostOf(m) \in Host
    BY <1>1 DEF TypeOK, HostOf
  <2> QED BY <1>4, <2>1, <2>2 DEF CanGoOn
<1> QED BY <1>1, <1>2, <1>3, <1>4 DEF TypeOK, CanGoOn

-----------------------------------------------------------------------------
(* The order in which the rows are served.                                 *)

\* The query returns the first BatchLimit due rows of the string order.
QueryIsServed ==
  SelectBatch => /\ Cardinality(batch') <= BatchLimit
                 /\ batch' # Eligible => Cardinality(batch') = BatchLimit
                 /\ \A m \in batch', k \in Eligible \ batch' : Before(m, k)

\* The admitted rows are of one host, and none of the batch that is left is.
OneHost ==
  /\ \A m, k \in group : HostOf(m) = HostOf(k)
  /\ \A m \in group, k \in batch : HostOf(m) # HostOf(k)

\* A row is handed over before all rows the same host still has in the pass and that
\* come after it in the query's order.
HostOrderKept ==
  \A m \in Msg : sends'[m] > sends[m] =>
    \A k \in (batch \cup group) \ {m} : HostOf(k) = HostOf(m) => Before(m, k)

LEMMA OneHostKept ==
  ASSUME IInv, OneHost, [Next]_vars PROVE OneHost'
<1>1. msg' = msg
  BY StepKinds
<1>2. ASSUME batch' \subseteq batch, group' \subseteq group PROVE OneHost'
  BY <1>1, <1>2 DEF OneHost, HostOf
<1>3. CASE Drain
  <2>1. ASSUME group' = {} PROVE OneHost'
    BY <2>1 DEF OneHost
  <2>2. CASE SelectBatch
    BY <2>1, <2>2 DEF SelectBatch, IInv, Cycle, DrainOrder
  <2>3. ASSUME NEW h \in Host, AdmitGroup(h) PROVE OneHost'
    BY <1>1, <2>3 DEF AdmitGroup, OneHost, HostOf
  <2>4. CASE CommitDrain
    BY <2>1, <2>4 DEF CommitDrain, EndTransaction
  <2> QED BY <1>2, <1>3, <2>2, <2>3, <2>4
          DEF Drain, BeginDrain, InboundCommit, RejectGroup, StartSend, AfterSend, FailUnknown
<1>4. CASE InboundRollback \/ EndTransaction
  BY <1>2, <1>4 DEF InboundRollback, EndTransaction
<1> QED BY <1>2, <1>3, <1>4, StepKinds

LEMMA StepKeepsOrder ==
  ASSUME IInv, OneHost, [Next]_vars PROVE HostOrderKept
<1> SUFFICES ASSUME NEW m \in Msg, sends'[m] > sends[m],
                    NEW k \in (batch \cup group) \ {m}, HostOf(k) = HostOf(m)
             PROVE  Before(m, k)
  BY DEF HostOrderKept
<1>1. IsFirst(m, group)
  BY HandedByStart DEF StartSend
<1> QED BY <1>1 DEF OneHost, IsFirst

LEMMA StepServesQuery ==
  ASSUME IInv, [Next]_vars PROVE QueryIsServed
<1>1. TypeOK /\ Eligible \in SUBSET Msg /\ BatchLimit \in Nat
  BY OutboundAssumption DEF IInv, Eligible
<1> QED BY <1>1, FirstOfLimit DEF SelectBatch, QueryIsServed

-----------------------------------------------------------------------------
(* What is final.                                                          *)

\* Only a row that is committed PENDING and due is handed over: a COMPLETED, FAILED or
\* EXPIRED one, and a command whose acknowledgment found it SENT, never again.
OnlyDueRowsAreSent ==
  \A m \in Msg : sends'[m] > sends[m] => Due(db[m])

LEMMA StepSendsDue ==
  ASSUME IInv, Waits, [Next]_vars PROVE OnlyDueRowsAreSent
BY HandedByStart DEF OnlyDueRowsAreSent, StartSend, IsFirst, Waits, Due, IInv, Cycle, NoLostUpdate

\* A row fails only when its attempts are used up, also when its host is refused.
Exhausted(r) == r.status = "failed" => r.retries = MaxRetries

LEMMA ExhaustedRows ==
  ASSUME NEW r \in Row
  PROVE  /\ Exhausted(Absent) /\ Exhausted(NewRow)
         /\ Exhausted(MarkProcessing(r)) /\ Exhausted(MarkSent(r))
         /\ Exhausted(MarkCompleted(r)) /\ Exhausted(ExpireOld(r))
         /\ r.retries < MaxRetries => Exhausted(MarkFailed(r))
         /\ Exhausted(r) => Exhausted(Older(r)) /\ Exhausted(MarkAcknowledged(r))
         /\ Exhausted(r) /\ (r.status \in Live => r.retries < MaxRetries)
              => Exhausted(RetryUnacknowledged(r))
<1>1. /\ Exhausted(Absent) /\ Exhausted(NewRow)
      /\ Exhausted(MarkProcessing(r)) /\ Exhausted(MarkSent(r))
      /\ Exhausted(MarkCompleted(r)) /\ Exhausted(ExpireOld(r))
  BY MarkRow DEF Exhausted, Absent, NewRow
<1>2. ASSUME r.retries < MaxRetries PROVE Exhausted(MarkFailed(r))
  <2>1. r.retries \in Nat /\ MaxRetries \in Nat
    BY RowFields, QueueAssumption
  <2> QED BY <1>2, <2>1 DEF Exhausted, MarkFailed, Row
<1>3. Exhausted(r) => Exhausted(Older(r)) /\ Exhausted(MarkAcknowledged(r))
  BY <1>1, OlderRow DEF Exhausted, MarkAcknowledged
<1>4. Exhausted(r) /\ (r.status \in Live => r.retries < MaxRetries)
        => Exhausted(RetryUnacknowledged(r))
  BY <1>2 DEF RetryUnacknowledged, Live
<1> QED BY <1>1, <1>2, <1>3, <1>4

FailedIsExhausted == \A m \in Msg : Exhausted(db[m])

ExhaustedRowsOnly == \A m \in Msg : Exhausted(db[m]) /\ Exhausted(tx[m])

LEMMA ExhaustedKept ==
  ASSUME IInv, ExhaustedRowsOnly, [Next]_vars PROVE ExhaustedRowsOnly'
<1>1. \A m \in Msg : /\ db[m] \in Row /\ tx[m] \in Row /\ View(m) \in Row
                     /\ Exhausted(db[m]) /\ Exhausted(tx[m]) /\ Exhausted(View(m))
                     /\ View(m).status \in Live => View(m).retries < MaxRetries
  BY ViewRow DEF IInv, Cycle, TypeOK, ExhaustedRowsOnly, View
<1> DEFINE Fresh == tx' = [m \in Msg |-> Absent]
<1>2. Fresh => \A m \in Msg : Exhausted(tx'[m])
  BY DEF Exhausted, Absent
<1>3. ASSUME tx' = tx, \E k \in Msg : \A m \in Msg : db'[m] = db[m] \/ (m = k /\ Exhausted(db'[m]))
      PROVE  ExhaustedRowsOnly'
  BY <1>1, <1>3 DEF ExhaustedRowsOnly
<1>4. ASSUME db' = db, \A m \in Msg : tx'[m] = tx[m] \/ Exhausted(tx'[m]) PROVE ExhaustedRowsOnly'
  BY <1>1, <1>4 DEF ExhaustedRowsOnly
<1>5. CASE Enqueue
  <2>1. tx' = tx /\ next \in Msg /\ db' = [db EXCEPT ![next] = NewRow]
    BY <1>5 DEF Enqueue, drainVars
  <2>2. Exhausted(NewRow)
    BY DEF Exhausted, NewRow
  <2> QED BY <1>3, <2>1, <2>2 DEF IInv, TypeOK
<1>6. ASSUME NEW k \in Msg, DeleteExpired(k) \/ Acknowledge(k) PROVE ExhaustedRowsOnly'
  <2>1. tx' = tx /\ \E r \in {Absent, MarkAcknowledged(db[k])} : db' = [db EXCEPT ![k] = r]
    BY <1>6 DEF DeleteExpired, Acknowledge, drainVars
  <2>2. Exhausted(Absent) /\ Exhausted(MarkAcknowledged(db[k]))
    BY <1>1, ExhaustedRows
  <2> QED BY <1>3, <2>1, <2>2 DEF IInv, TypeOK
<1>7. CASE BeginDrain
  <2>1. db' = db /\ \A m \in Msg : tx'[m] \in {tx[m], ExpireOld(View(m))}
    BY <1>7 DEF BeginDrain, Update
  <2> QED BY <1>1, <1>4, <2>1, ExhaustedRows
<1>8. CASE InboundCommit
  BY <1>1, <1>2, <1>8 DEF InboundCommit, ExhaustedRowsOnly
<1>9. CASE CommitDrain
  <2>1. Fresh
    BY <1>9 DEF CommitDrain, EndTransaction
  <2>2. \A m \in Msg : db'[m] \in {Absent, RetryUnacknowledged(View(m))}
    BY <1>9 DEF CommitDrain
  <2> QED BY <1>1, <1>2, <2>1, <2>2, ExhaustedRows DEF ExhaustedRowsOnly
<1>10. CASE InboundRollback \/ RollbackDrain \/ Restart
  <2>1. db' = db /\ Fresh
    BY <1>10 DEF InboundRollback, RollbackDrain, Restart, EndTransaction
  <2> QED BY <1>1, <1>2, <2>1 DEF ExhaustedRowsOnly
<1>11. ASSUME NEW h \in Host, RejectGroup(h) PROVE ExhaustedRowsOnly'
  <2>1. db' = db /\ \A m \in Msg : tx'[m] = tx[m] \/ (m \in batch /\ tx'[m] = MarkFailed(View(m)))
    BY <1>11 DEF RejectGroup, Update
  <2>2. \A m \in batch : m \in Msg /\ View(m).status = "pending"
    BY DEF IInv, TypeOK, Cycle, DrainOrder, NoLostUpdate, View
  <2> QED BY <1>1, <1>4, <2>1, <2>2, ExhaustedRows DEF Live
<1>12. ASSUME NEW k \in Msg, StartSend(k) \/ AfterSend(k) \/ FailUnknown(k)
       PROVE  ExhaustedRowsOnly'
  <2>1. db' = db /\ \A m \in Msg : m # k => tx'[m] = tx[m]
    BY <1>12 DEF StartSend, AfterSend, FailUnknown, Update
  <2>2. View(k).status \in Live
    BY <1>12 DEF StartSend, AfterSend, FailUnknown, IsFirst, IInv, Cycle, DrainOrder, NoLostUpdate,
       View, Live
  <2>3. tx'[k] \in {MarkProcessing(View(k)), MarkFailed(View(k)), MarkSent(View(k)),
                    MarkCompleted(View(k))}
    BY <1>12 DEF StartSend, AfterSend, FailUnknown, Update, Settled
  <2> QED BY <1>1, <1>4, <2>1, <2>2, <2>3, ExhaustedRows
<1>13. CASE Minute
  <2>1. \A m \in Msg : db'[m] = Older(db[m]) /\ tx'[m] \in {tx[m], Older(tx[m])}
    BY <1>13 DEF Minute
  <2> QED BY <1>1, <2>1, ExhaustedRows DEF ExhaustedRowsOnly
<1>14. ASSUME UNCHANGED <<db, tx>> PROVE ExhaustedRowsOnly'
  BY <1>14 DEF ExhaustedRowsOnly
<1> QED BY <1>5, <1>6, <1>7, <1>8, <1>9, <1>10, <1>11, <1>12, <1>13, <1>14
        DEF Next, Api, Drain, Agent, Disturb, SelectBatch, AdmitGroup, AgentReceive,
            Drop, Register, ChangeHost, ToggleWindow, LoseMessage, LoseAck, drainVars, vars

-----------------------------------------------------------------------------
(* What the agent sees.                                                    *)

\* Copies and acknowledgments are lost, never made up.
Ledger ==
  \A m \in Msg : wire[m] + recv[m] <= sends[m] /\ acks[m] <= recv[m]

LEMMA LedgerKept ==
  ASSUME TypeOK, Ledger, [Next]_vars PROVE Ledger'
<1>1. ASSUME NEW k \in Msg, AgentReceive(k) PROVE Ledger'
  <2>1. \A m \in Msg : m # k => wire'[m] = wire[m] /\ recv'[m] = recv[m] /\ acks'[m] = acks[m]
    BY <1>1 DEF AgentReceive, TypeOK
  <2>2. wire'[k] = wire[k] - 1 /\ recv'[k] = recv[k] + 1 /\ acks'[k] \in {acks[k], acks[k] + 1}
    BY <1>1 DEF AgentReceive, TypeOK
  <2>3. sends' = sends
    BY <1>1 DEF AgentReceive
  <2> QED BY <2>1, <2>2, <2>3 DEF Ledger, TypeOK
<1>2. ASSUME NEW k \in Msg, Acknowledge(k) \/ LoseMessage(k) \/ LoseAck(k) PROVE Ledger'
  <2>1. \A m \in Msg : wire'[m] <= wire[m] /\ acks'[m] <= acks[m]
    <3>1. \/ wire' = wire /\ acks' = [acks EXCEPT ![k] = @ - 1]
          \/ acks' = acks /\ wire' = [wire EXCEPT ![k] = @ - 1]
      BY <1>2 DEF Acknowledge, LoseMessage, LoseAck
    <3>2. \A n \in Int : n <= n /\ n - 1 <= n
      OBVIOUS
    <3>3. \A m \in Msg : \/ wire'[m] = wire[m] /\ acks'[m] \in {acks[m], acks[m] - 1}
                         \/ acks'[m] = acks[m] /\ wire'[m] \in {wire[m], wire[m] - 1}
      BY <3>1 DEF TypeOK
    <3> QED BY <3>2, <3>3 DEF TypeOK
  <2>2. UNCHANGED <<sends, recv>>
    BY <1>2 DEF Acknowledge, LoseMessage, LoseAck, history
  <2>3. \A m \in Msg : wire'[m] \in Int /\ acks'[m] \in Int
    BY <1>2 DEF Acknowledge, LoseMessage, LoseAck, TypeOK
  <2> QED BY <2>1, <2>2, <2>3 DEF Ledger, TypeOK
<1>3. ASSUME NEW k \in Msg, StartSend(k) PROVE Ledger'
  <2>1. UNCHANGED <<recv, acks>>
    BY <1>3 DEF StartSend
  <2>2. \/ UNCHANGED <<wire, sends>>
        \/ wire' = [wire EXCEPT ![k] = @ + 1] /\ sends' = [sends EXCEPT ![k] = @ + 1]
    BY <1>3 DEF StartSend
  <2> QED BY <2>1, <2>2 DEF Ledger, TypeOK
<1>4. ASSUME UNCHANGED <<wire, acks, sends, recv>> PROVE Ledger'
  BY <1>4 DEF Ledger
<1> QED BY <1>1, <1>2, <1>3, <1>4
        DEF Next, Api, Drain, Agent, Disturb, Enqueue, DeleteExpired, BeginDrain, InboundCommit,
            SelectBatch, RejectGroup, AdmitGroup, AfterSend, FailUnknown, CommitDrain,
            InboundRollback, RollbackDrain, Restart, Drop, Register, ChangeHost, ToggleWindow,
            Minute, netVars, history, vars

\* However often copies and acknowledgments are lost, the agent executes a command at most
\* max_retries times, and once more for each drain that was rolled back.
ExecutionsBounded == \A m \in Msg : recv[m] <= MaxRetries + aborts

LEMMA LedgerBounds ==
  ASSUME TypeOK, Ledger, SendsBounded PROVE ExecutionsBounded
BY OutboundAssumption, QueueAssumption DEF TypeOK, Ledger, SendsBounded, ExecutionsBounded

-----------------------------------------------------------------------------
(* The theorems.                                                           *)

\* Every open pass ends: each step of the drain brings it nearer to its commit, no other
\* step sets it back, and it has never more steps left than its batch accounts for.
THEOREM PassesEnd == Spec => [][PassShrinks]_vars /\ []PassBounded
<1>1. Init => PassBounded
  BY OutboundAssumption, FS_EmptySet DEF Init, PassBounded, StepsLeft
<1>2. IInv /\ PassBounded /\ [Next]_vars => PassBounded'
  BY BoundKept
<1>3. IInv /\ [Next]_vars => PassShrinks
  BY StepShrinks
<1>4. IInv /\ [Next]_vars => [PassShrinks]_vars
  BY <1>3
<1> QED BY <1>1, <1>2, <1>4, Invariant, PTL DEF Spec

\* While a pass is open a step of the drain is possible, whatever acknowledgments, host
\* changes and window changes have happened since its query.
THEOREM PassesCanGoOn == Spec => []PassesGoOn
BY DrainCanGoOn, Invariant, PTL

\* Each pass takes the first BatchLimit due rows of the query's order, whatever the queue
\* holds.
THEOREM BatchIsFirst == Spec => [][QueryIsServed]_vars
<1>1. IInv /\ [Next]_vars => [QueryIsServed]_vars
  BY StepServesQuery
<1> QED BY <1>1, Invariant, PTL DEF Spec

\* In a pass the messages of one host leave in the query's order.
THEOREM HostsAreServedInOrder == Spec => [][HostOrderKept]_vars
<1>1. Init => OneHost
  BY DEF Init, OneHost
<1>2. IInv /\ OneHost /\ [Next]_vars => OneHost'
  BY OneHostKept
<1>3. IInv /\ OneHost /\ [Next]_vars => [HostOrderKept]_vars
  BY StepKeepsOrder
<1> QED BY <1>1, <1>2, <1>3, Invariant, PTL DEF Spec

\* Only a row committed PENDING and due is handed over.
THEOREM SettledIsNotSent == Spec => [][OnlyDueRowsAreSent]_vars
<1>1. Init => Waits
  BY DEF Init, Waits
<1>2. IInv /\ Waits /\ [Next]_vars => Waits'
  BY WaitsKept
<1>3. IInv /\ Waits /\ [Next]_vars => [OnlyDueRowsAreSent]_vars
  BY StepSendsDue
<1> QED BY <1>1, <1>2, <1>3, Invariant, PTL DEF Spec

\* A FAILED row has used up max_retries attempts.
THEOREM FailuresAreExhausted == Spec => []FailedIsExhausted
<1>1. Init => ExhaustedRowsOnly
  BY DEF Init, ExhaustedRowsOnly, Exhausted, Absent
<1>2. IInv /\ ExhaustedRowsOnly /\ [Next]_vars => ExhaustedRowsOnly'
  BY ExhaustedKept
<1>3. ExhaustedRowsOnly => FailedIsExhausted
  BY DEF ExhaustedRowsOnly, FailedIsExhausted
<1> QED BY <1>1, <1>2, <1>3, Invariant, PTL DEF Spec

\* However often copies and acknowledgments are lost, the agent gets a message at most
\* max_retries times, and once more for each drain that was rolled back.
THEOREM ExecutionsAreBounded == Spec => []ExecutionsBounded
<1>1. Init => Ledger
  BY DEF Init, Ledger
<1>2. TypeOK /\ Ledger /\ [Next]_vars => Ledger'
  BY LedgerKept
<1>3. TypeOK /\ Ledger /\ SendsBounded => ExecutionsBounded
  BY LedgerBounds
<1> QED BY <1>1, <1>2, <1>3, TypeCorrect, CopiesAreBounded, PTL DEF Spec
=============================================================================
