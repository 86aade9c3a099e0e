-------------------------- MODULE OutboundDelivery --------------------------
(***************************************************************************)
(* Delivery of OUTBOUND messages: an API request enqueues a row, the       *)
(* message processor drains the queue once a second inside ONE database    *)
(* transaction that spans the awaits of the websocket sends, the agent     *)
(* receives the command and acknowledges it, and the acknowledgment is     *)
(* handled at once on the connection's own session, between two awaits of  *)
(* the drain.                                                              *)
(*                                                                         *)
(* Modelled code: backend/websocket/message_processor.py,                  *)
(* outbound_processor.py, the outbound part of queue_operations.py,        *)
(* handle_command_acknowledgment of backend/api/message_handlers.py.       *)
(* The agent and the network are external.                                 *)
(***************************************************************************)
EXTENDS MessageQueue, FiniteSets

CONSTANTS
  NumMessages,   \* messages the API may enqueue, in the order of their ids
  Host,          \* the hosts
  Kinds,         \* the message types enqueued in this instance
  Prios,         \* the priorities used in this instance
  BatchLimit,    \* LIMIT of the drain's query: 20
  MaxAborts,     \* bound on rollbacks and restarts of the server
  Env,           \* the disturbances of this instance, see Disturbance
  PromptDrain    \* TRUE: no minute passes without a complete drain pass

Msg == 1..NumMessages

\* message_type: acknowledged commands, fire-and-forget pushes, and the types
\* the outbound processor has no branch for (broadcast, host_approved, config_update).
Kind == {"command", "logging_config_update", "broadcast"}
Gated == {"command"}
Prio == {"low", "normal", "high", "urgent"}
Disturbance == {"drop", "lose", "rollback", "restart", "host", "window"}

ASSUME OutboundAssumption ==
  /\ NumMessages \in Nat
  /\ Kinds \subseteq Kind
  /\ Prios \subseteq Prio
  /\ BatchLimit \in Nat \ {0}
  /\ MaxAborts \in Nat
  /\ Env \subseteq Disturbance
  /\ PromptDrain \in BOOLEAN

VARIABLES
  msg,        \* immutable columns of the rows: host, message_type, priority
  db,         \* the committed rows
  next,       \* the next message to enqueue (ids follow created_at)
  pc,         \* the drain: idle, inbound (expiry done), outbound, sending
  tx,         \* the drain session's version of the rows it changed ...
  touched,    \* ... which are these
  batch,      \* selected rows whose host has not been looked at
  group,      \* admitted rows of the host being served
  sending,    \* the row whose send is awaited (meaningful when pc = sending)
  sendOk,     \* what that send will return
  connected,  \* hosts with a registered websocket connection
  hostState,  \* approval_status of each host, or "missing"
  window,     \* hosts for which is_dispatch_allowed holds
  wire,       \* copies of each message on their way to the agent
  acks,       \* acknowledgments on their way to the server
  drained,    \* a drain pass completed since the last minute
  sends,      \* history: times each message was handed to the socket
  recv,       \* history: times the agent received each message
  acked,      \* history: messages whose acknowledgment reached the server
  quiet,      \* history: minutes since the last hand-over of each message
  aborts      \* rollbacks of the drain's session so far

drainVars == <<pc, tx, touched, batch, group, sending, sendOk>>
envVars == <<connected, hostState, window>>
netVars == <<wire, acks>>
history == <<sends, recv, acked, quiet>>
vars == <<msg, db, next, drainVars, envVars, netVars, history, drained, aborts>>

\* The longest silence a property asks about.
QuietCap == AckTimeout + 1 + Backoff(MaxRetries)

Init ==
  /\ msg \in [Msg -> [host : Host, kind : Kinds, prio : Prios]]
  /\ db = [m \in Msg |-> Absent]
  /\ next = 1
  /\ pc = "idle"
  /\ tx = [m \in Msg |-> Absent]
  /\ touched = {}
  /\ batch = {}
  /\ group = {}
  /\ sending = 0
  /\ sendOk = FALSE
  /\ connected = Host
  /\ hostState \in IF "host" \in Env THEN [Host -> {"approved", "pending"}]
                                     ELSE [Host -> {"approved"}]
  /\ window \in IF "window" \in Env THEN SUBSET Host ELSE {Host}
  /\ wire = [m \in Msg |-> 0]
  /\ acks = [m \in Msg |-> 0]
  /\ drained = FALSE
  /\ sends = [m \in Msg |-> 0]
  /\ recv = [m \in Msg |-> 0]
  /\ acked = {}
  /\ quiet = [m \in Msg |-> 0]
  /\ aborts = 0

-----------------------------------------------------------------------------
(* The drain's session.                                                    *)

\* What a query of the drain's session returns for a row.
View(m) == IF m \in touched THEN tx[m] ELSE db[m]

HostOf(m) == msg[m].host
KindOf(m) == msg[m].kind

\* ORDER BY priority DESC on a String column compares the strings.
StringRank == [low |-> 2, normal |-> 3, high |-> 1, urgent |-> 4]

Before(m, k) ==
  LET p == StringRank[msg[m].prio]
      q == StringRank[msg[k].prio]
  IN  p > q \/ (p = q /\ m < k)

IsFirst(m, S) == m \in S /\ \A k \in S \ {m} : Before(m, k)

Eligible == {m \in Msg : Due(View(m))}

FirstOf(S, n) == {m \in S : Cardinality({k \in S : Before(k, m)}) < n}

\* The drain's session changes the rows of S by the operation op.
Update(S, op(_)) ==
  /\ tx' = [m \in Msg |-> IF m \in S THEN op(View(m)) ELSE tx[m]]
  /\ touched' = touched \cup S

EndTransaction ==
  /\ pc' = "idle"
  /\ tx' = [m \in Msg |-> Absent]
  /\ touched' = {}
  /\ batch' = {}
  /\ group' = {}
  /\ sending' = 0
  /\ sendOk' = FALSE

-----------------------------------------------------------------------------
(* The API.                                                                *)

\* enqueue_message: the host row must exist, the row is inserted PENDING.
Enqueue ==
  /\ next \in Msg
  /\ hostState[HostOf(next)] # "missing"
  /\ db' = [db EXCEPT ![next] = NewRow]
  /\ next' = next + 1
  /\ UNCHANGED <<msg, drainVars, envVars, netVars, history, drained, aborts>>

\* The administrator deletes a message the queue page shows (expired_at set).
DeleteExpired(m) ==
  /\ db[m].status = "expired"
  /\ db' = [db EXCEPT ![m] = Absent]
  /\ UNCHANGED <<msg, next, drainVars, envVars, netVars, history, drained, aborts>>

-----------------------------------------------------------------------------
(* One pass of the message processor.                                      *)

\* process_pending_messages begins by expiring old rows, uncommitted.
BeginDrain ==
  /\ pc = "idle"
  /\ pc' = "inbound"
  /\ Update({m \in Msg : Expirable(db[m])}, ExpireOld)
  /\ UNCHANGED <<msg, db, next, batch, group, sending, sendOk,
                 envVars, netVars, history, drained, aborts>>

\* An inbound handler commits the session it was given, the drain's.
InboundCommit ==
  /\ pc = "inbound"
  /\ touched # {}
  /\ db' = [m \in Msg |-> View(m)]
  /\ tx' = [m \in Msg |-> Absent]
  /\ touched' = {}
  /\ UNCHANGED <<msg, next, pc, batch, group, sending, sendOk,
                 envVars, netVars, history, drained, aborts>>

\* An inbound handler fails, rolls that session back and returns its error; the
\* drain goes on.
InboundRollback ==
  /\ "rollback" \in Env /\ aborts < MaxAborts
  /\ pc = "inbound"
  /\ touched # {}
  /\ tx' = [m \in Msg |-> Absent]
  /\ touched' = {}
  /\ aborts' = aborts + 1
  /\ UNCHANGED <<msg, db, next, pc, batch, group, sending, sendOk,
                 envVars, netVars, history, drained>>

\* The query of process_outbound_messages.
SelectBatch ==
  /\ pc = "inbound"
  /\ pc' = "outbound"
  /\ batch' = FirstOf(Eligible, BatchLimit)
  /\ UNCHANGED <<msg, db, next, tx, touched, group, sending, sendOk,
                 envVars, netVars, history, drained, aborts>>

\* The rows of the next host of the batch, in the order of messages_by_host.
NextGroup(h, rows) ==
  /\ pc = "outbound"
  /\ group = {}
  /\ \E m \in batch : IsFirst(m, batch) /\ HostOf(m) = h
  /\ rows = {m \in batch : HostOf(m) = h}

\* The host is gone or not approved: every row of the group fails.
RejectGroup(h) ==
  LET rows == {m \in batch : HostOf(m) = h} IN
  /\ NextGroup(h, rows)
  /\ hostState[h] # "approved"
  /\ Update(rows, MarkFailed)
  /\ batch' = batch \ rows
  /\ UNCHANGED <<msg, db, next, pc, group, sending, sendOk,
                 envVars, netVars, history, drained, aborts>>

\* Mutation: the answer of the window check is inverted.
DispatchableInverted(m) == HostOf(m) \notin window \/ KindOf(m) \notin Gated

\* is_dispatch_allowed: a gated row needs an open maintenance window.
Dispatchable(m) == HostOf(m) \in window \/ KindOf(m) \notin Gated

\* Deferred rows are left alone: they stay PENDING.
AdmitGroup(h) ==
  LET rows == {m \in batch : HostOf(m) = h} IN
  /\ NextGroup(h, rows)
  /\ hostState[h] = "approved"
  /\ group' = {m \in rows : Dispatchable(m)}
  /\ batch' = batch \ rows
  /\ UNCHANGED <<msg, db, next, pc, tx, touched, sending, sendOk,
                 envVars, netVars, history, drained, aborts>>

\* mark_processing is flushed, then the send is awaited.  It succeeds only on a
\* registered connection, and may fail on one that is breaking.
StartSend(m) ==
  /\ pc = "outbound"
  /\ IsFirst(m, group)
  /\ KindOf(m) # "broadcast"
  /\ View(m).status = "pending"
  /\ Update({m}, MarkProcessing)
  /\ group' = group \ {m}
  /\ pc' = "sending"
  /\ sending' = m
  /\ \/ /\ HostOf(m) \in connected
        /\ sendOk' = TRUE
        /\ wire' = [wire EXCEPT ![m] = @ + 1]
        /\ sends' = [sends EXCEPT ![m] = @ + 1]
        /\ quiet' = [quiet EXCEPT ![m] = 0]
     \/ /\ HostOf(m) \notin connected \/ "lose" \in Env
        /\ sendOk' = FALSE
        /\ UNCHANGED <<wire, sends, quiet>>
  /\ UNCHANGED <<msg, db, next, batch, envVars, acks, recv, acked, drained, aborts>>

\* Mutations: a failed send is forgotten, is taken for a success; a command is
\* COMPLETED as soon as it is sent.
SettledForgotten(r, kind, ok) ==
  IF ~ok THEN r ELSE IF kind = "command" THEN MarkSent(r) ELSE MarkCompleted(r)
SettledUnchecked(r, kind, ok) ==
  IF kind = "command" THEN MarkSent(r) ELSE MarkCompleted(r)
SettledAtOnce(r, kind, ok) ==
  IF ~ok THEN MarkFailed(r) ELSE MarkCompleted(r)

\* What process_outbound_message makes of a row when its send returns: a failed
\* send is retried, a command is SENT and awaits its acknowledgment, a
\* fire-and-forget push is COMPLETED.
Settled(r, kind, ok) ==
  IF ~ok THEN MarkFailed(r) ELSE IF kind = "command" THEN MarkSent(r) ELSE MarkCompleted(r)

\* The awaited send returns.
AfterSend(m) ==
  /\ pc = "sending"
  /\ m = sending
  /\ Update({m}, LAMBDA r : Settled(r, KindOf(m), sendOk))
  /\ pc' = "outbound"
  /\ sending' = 0
  /\ sendOk' = FALSE
  /\ UNCHANGED <<msg, db, next, batch, group, envVars, netVars, history, drained, aborts>>

\* "Unknown outbound message type": processing, then failed, without an await.
FailUnknown(m) ==
  /\ pc = "outbound"
  /\ IsFirst(m, group)
  /\ KindOf(m) = "broadcast"
  /\ Update({m}, MarkFailed)
  /\ group' = group \ {m}
  /\ UNCHANGED <<msg, db, next, pc, batch, sending, sendOk,
                 envVars, netVars, history, drained, aborts>>

\* After the batch: unacknowledged rows are retried, once a day old COMPLETED
\* rows are purged, and everything is committed; there is no await in between.
CommitDrain ==
  /\ pc = "outbound"
  /\ batch = {}
  /\ group = {}
  /\ \E daily \in BOOLEAN :
       db' = [m \in Msg |->
                LET r == RetryUnacknowledged(View(m)) IN
                IF daily /\ Purgeable(r) THEN Absent ELSE r]
  /\ EndTransaction
  /\ drained' = TRUE
  /\ UNCHANGED <<msg, next, envVars, netVars, history, aborts>>

\* An exception reaches the drain's handler, which rolls back.
RollbackDrain ==
  /\ "rollback" \in Env /\ aborts < MaxAborts
  /\ pc # "idle"
  /\ EndTransaction
  /\ aborts' = aborts + 1
  /\ UNCHANGED <<msg, db, next, envVars, netVars, history, drained>>

\* The server stops during a drain and is started again: the open transaction
\* and the table of connections are lost.
Restart ==
  /\ "restart" \in Env /\ aborts < MaxAborts
  /\ pc # "idle"
  /\ EndTransaction
  /\ aborts' = aborts + 1
  /\ connected' = {}
  /\ UNCHANGED <<msg, db, next, hostState, window, netVars, history, drained>>

-----------------------------------------------------------------------------
(* The agent's side and the acknowledgment.                                *)

\* External: the agent receives a copy, acts on it and acknowledges a command.
AgentReceive(m) ==
  /\ wire[m] > 0
  /\ wire' = [wire EXCEPT ![m] = @ - 1]
  /\ recv' = [recv EXCEPT ![m] = @ + 1]
  /\ acks' = [acks EXCEPT ![m] = IF KindOf(m) = "command" THEN @ + 1 ELSE @]
  /\ UNCHANGED <<msg, db, next, drainVars, envVars, sends, acked, quiet, drained, aborts>>

\* handle_command_acknowledgment on the connection's session, committed at once.
\* It reads the committed row: what the drain has not committed is invisible.
Acknowledge(m) ==
  /\ acks[m] > 0
  /\ HostOf(m) \in connected
  /\ acks' = [acks EXCEPT ![m] = @ - 1]
  /\ acked' = acked \cup {m}
  /\ db' = [db EXCEPT ![m] = MarkAcknowledged(@)]
  /\ UNCHANGED <<msg, next, drainVars, envVars, wire, sends, recv, quiet, drained, aborts>>

-----------------------------------------------------------------------------
(* Disturbances and time.                                                  *)

\* A connection breaks, or an agent registers again.
Drop(h) ==
  /\ "drop" \in Env
  /\ h \in connected
  /\ connected' = connected \ {h}
  /\ UNCHANGED <<msg, db, next, drainVars, hostState, window, netVars, history, drained, aborts>>

Register(h) ==
  /\ h \notin connected
  /\ connected' = connected \cup {h}
  /\ UNCHANGED <<msg, db, next, drainVars, hostState, window, netVars, history, drained, aborts>>

\* A message or an acknowledgment in flight is lost.
LoseMessage(m) ==
  /\ "lose" \in Env
  /\ wire[m] > 0
  /\ wire' = [wire EXCEPT ![m] = @ - 1]
  /\ UNCHANGED <<msg, db, next, drainVars, envVars, acks, history, drained, aborts>>

LoseAck(m) ==
  /\ "lose" \in Env
  /\ acks[m] > 0
  /\ acks' = [acks EXCEPT ![m] = @ - 1]
  /\ UNCHANGED <<msg, db, next, drainVars, envVars, wire, history, drained, aborts>>

\* A pending host is approved or rejected, an approved one revoked, any deleted.
ChangeHost(h) ==
  /\ "host" \in Env
  /\ \E s \in {"approved", "rejected", "missing"} :
       /\ \/ hostState[h] = "pending" /\ s \in {"approved", "rejected"}
          \/ hostState[h] = "approved" /\ s = "rejected"
          \/ hostState[h] # "missing" /\ s = "missing"
       /\ hostState' = [hostState EXCEPT ![h] = s]
  /\ UNCHANGED <<msg, db, next, drainVars, connected, window, netVars, history, drained, aborts>>

\* A maintenance window opens or closes.
ToggleWindow(h) ==
  /\ "window" \in Env
  /\ window' = IF h \in window THEN window \ {h} ELSE window \cup {h}
  /\ UNCHANGED <<msg, db, next, drainVars, connected, hostState, netVars, history, drained, aborts>>

Minute ==
  /\ PromptDrain => pc = "idle" /\ drained
  /\ db' = [m \in Msg |-> Older(db[m])]
  /\ tx' = [m \in Msg |-> IF m \in touched THEN Older(tx[m]) ELSE tx[m]]
  /\ quiet' = [m \in Msg |-> IF sends[m] > 0 THEN UpTo(quiet[m], QuietCap) ELSE 0]
  /\ drained' = FALSE
  /\ UNCHANGED <<msg, next, pc, touched, batch, group, sending, sendOk,
                 envVars, netVars, sends, recv, acked, aborts>>

-----------------------------------------------------------------------------
Drain ==
  \/ BeginDrain
  \/ InboundCommit
  \/ SelectBatch
  \/ \E h \in Host : RejectGroup(h) \/ AdmitGroup(h)
  \/ \E m \in Msg : StartSend(m) \/ AfterSend(m) \/ FailUnknown(m)
  \/ CommitDrain

Agent == \E m \in Msg : AgentReceive(m) \/ Acknowledge(m)

Disturb ==
  \/ InboundRollback
  \/ RollbackDrain
  \/ Restart
  \/ \E h \in Host : Drop(h) \/ Register(h) \/ ChangeHost(h) \/ ToggleWindow(h)
  \/ \E m \in Msg : LoseMessage(m) \/ LoseAck(m)

Api == Enqueue \/ \E m \in Msg : DeleteExpired(m)

Next == Api \/ Drain \/ Agent \/ Disturb \/ Minute

Spec == Init /\ [][Next]_vars

\* The processor's loop never stops and awaits only sends that return; time passes.
FairSpec == Spec /\ WF_vars(Drain) /\ SF_vars(Minute)

-----------------------------------------------------------------------------
(* Properties.                                                             *)

TypeOK ==
  /\ msg \in [Msg -> [host : Host, kind : Kinds, prio : Prios]]
  /\ db \in [Msg -> Row]
  /\ next \in 1..NumMessages + 1
  /\ pc \in {"idle", "inbound", "outbound", "sending"}
  /\ tx \in [Msg -> Row]
  /\ touched \subseteq Msg
  /\ batch \subseteq Msg
  /\ group \subseteq Msg
  /\ sending \in Msg \cup {0}
  /\ sendOk \in BOOLEAN
  /\ connected \subseteq Host
  /\ hostState \in [Host -> {"approved", "pending", "rejected", "missing"}]
  /\ window \subseteq Host
  /\ wire \in [Msg -> Nat]
  /\ acks \in [Msg -> Nat]
  /\ drained \in BOOLEAN
  /\ sends \in [Msg -> Nat]
  /\ recv \in [Msg -> Nat]
  /\ acked \subseteq Msg
  /\ quiet \in [Msg -> Nat]
  /\ aborts \in 0..MaxAborts

\* The drain works on the copies it read: every row it has selected or changed is
\* still committed as PENDING, whatever acknowledgments and API calls ran between its
\* awaits, so its commit overwrites no change of theirs (the code takes no lock and
\* compares no version, it relies on the others leaving PENDING rows alone).
NoLostUpdate == \A m \in touched \cup batch \cup group : db[m].status = "pending"

\* No outbound row is ever committed IN_PROGRESS.  Only INBOUND rows are reset by
\* process_pending_messages, so such a row would never be sent again.
NeverStuck == \A m \in Msg : db[m].status # "in_progress"

\* max_retries bounds the copies of a command that leave the server: every copy
\* beyond it is owed to a drain that was rolled back after it had sent.
SendsBounded == \A m \in Msg : sends[m] <= MaxRetries + aborts

\* A command is COMPLETED only when the agent has received it.
CompletedWasReceived ==
  \A m \in Msg : db[m].status = "completed" /\ KindOf(m) = "command" => recv[m] > 0

\* A COMPLETED, FAILED or EXPIRED row never changes again, except to be deleted:
\* neither a late acknowledgment nor a later drain brings it back.
TerminalStable ==
  [][\A m \in Msg : db[m].status \in Terminal => db'[m].status \in {db[m].status, "absent"}]_vars

\* Unless a drain was rolled back, a message is sent again only after the
\* acknowledgment timeout and the backoff of its last failure have both passed.
RedeliverySpacing ==
  [][\A m \in Msg :
       sends'[m] > sends[m] /\ sends[m] > 0 /\ aborts = 0
         => quiet[m] >= AckTimeout + 1 + Backoff(View(m).retries)]_vars

\* The queue implements DeliveryContract: batches, retries, rollbacks and late
\* acknowledgments show only as steps the contract allows.
PhaseOf(m) ==
  CASE db[m].status = "absent"                    -> IF m < next THEN "gone" ELSE "none"
    [] db[m].status \in {"pending", "in_progress"} -> "queued"
    [] db[m].status = "sent"                      -> "awaiting"
    [] db[m].status = "completed"                 -> "done"
    [] OTHER                                      -> "dead"

Contract == INSTANCE DeliveryContract WITH
  Message <- Msg,
  push <- {m \in Msg : KindOf(m) # "command"},
  phase <- [m \in Msg |-> PhaseOf(m)],
  handed <- {m \in Msg : sends[m] > 0},
  got <- {m \in Msg : recv[m] > 0}

ImplementsContract == Contract!Spec

\* Every row is eventually settled: completed, failed, expired (or deleted since),
\* whatever the agent, the network and the maintenance windows do.
Settles == \A m \in Msg : db[m].status \in Live ~> db[m].status \notin Live

\* With a connected and answering agent, an open window and no disturbance, every
\* message of a type the outbound processor knows reaches the agent.
AgentFair == \A m \in Msg : WF_vars(AgentReceive(m)) /\ WF_vars(Acknowledge(m))
HealthySpec == FairSpec /\ AgentFair
Delivered ==
  \A m \in Msg : db[m].status = "pending" /\ KindOf(m) # "broadcast" ~> recv[m] > 0

-----------------------------------------------------------------------------
(* What the code's comments say of the program, and the program does not do. *)

\* handle_command_acknowledgment: an acknowledged command is not retried.
AcknowledgedNotResent ==
  [][\A m \in Msg : sends'[m] > sends[m] => m \notin acked]_vars

\* messages.py: an offline agent picks a logging_config_update up when it reconnects,
\* so with an approved host the row waits for the agent and does not fail.
OfflinePushWaits ==
  \A m \in Msg : KindOf(m) = "logging_config_update" => db[m].status # "failed"

\* api/broadcast.py: the outbound processor delivers each row, so a broadcast to a
\* connected agent does not fail.
BroadcastDelivered ==
  \A m \in Msg : KindOf(m) = "broadcast" => db[m].status # "failed"
=============================================================================
