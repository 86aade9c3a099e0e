------------------------- MODULE InboundProcessing -------------------------
(***************************************************************************)
(* Reports of one agent on their way into the database.  A report that     *)
(* arrives before the connection has registered is buffered on it; else it *)
(* becomes an INBOUND row with host_id NULL, committed at once.  The       *)
(* message processor drains these rows on a session of its own that every  *)
(* handler shares: a handler commits or rolls back whatever the drain has  *)
(* done so far in the pass.                                                *)
(*                                                                         *)
(* Modelled code: _enqueue_inbound_message, flush_pending_inbound_messages *)
(* and agent_connect of backend/api/agent.py, the registration and         *)
(* heartbeat of message_handlers_core.py, inbound_processor.py,            *)
(* route_inbound_message of message_router.py, the pass of                 *)
(* message_processor.py.  The agent and what a handler does with a report  *)
(* are external: only how it leaves the session is modelled.               *)
(***************************************************************************)
EXTENDS MessageQueue, FiniteSets

CONSTANTS
  Report,      \* the reports the agent may send
  BatchLimit,  \* LIMIT of the NULL host_id query: 10
  MaxAborts,   \* bound on restarts and on rollbacks the outbound phase causes
  Faults       \* TRUE: the flush of a buffer may stop half-way

ASSUME InboundAssumption ==
  /\ IsFiniteSet(Report)
  /\ BatchLimit \in Nat \ {0}
  /\ MaxAborts \in Nat
  /\ Faults \in BOOLEAN

VARIABLES
  tenant,     \* the host's data lives in a tenant database (fixed)
  link,       \* the connection: down, fresh (hostname None), known
  buffer,     \* connection._pending_inbound_messages
  hostState,  \* missing, unapproved (approval_status is anything else) or approved
  db,         \* the committed rows
  pc,         \* the drain: idle, loop, handling
  tx,         \* the drain session's version of the rows it changed ...
  touched,    \* ... which are these
  batch,      \* selected rows not looked at yet
  current,    \* the report whose handler runs, {} or a singleton
  aborts,     \* restarts and rollbacks from the outbound phase so far
  applied,    \* history: reports a handler has stored, or a part of them, since their row
              \* was inserted
  lost        \* history: those of them that are not COMPLETED for it: a rollback took it
              \* back, or the handler committed a part and has not stored the rest

linkVars == <<link, buffer>>
history == <<applied, lost>>
sessionVars == <<tx, touched>>
drainVars == <<pc, sessionVars, batch, current>>
vars == <<tenant, linkVars, hostState, db, drainVars, aborts, history>>

Init ==
  /\ tenant \in BOOLEAN
  /\ link = "down"
  /\ buffer = {}
  /\ hostState = "missing"
  /\ db = [m \in Report |-> Absent]
  /\ pc = "idle"
  /\ tx = [m \in Report |-> Absent]
  /\ touched = {}
  /\ batch = {}
  /\ current = {}
  /\ aborts = 0
  /\ applied = {}
  /\ lost = {}

-----------------------------------------------------------------------------
(* The drain's session.                                                    *)

View(m) == IF m \in touched THEN tx[m] ELSE db[m]

Viewed == [m \in Report |-> View(m)]

\* The session holds row r for report m and no other uncommitted change ...
Holds(m, r) ==
  /\ tx' = [[k \in Report |-> Absent] EXCEPT ![m] = r]
  /\ touched' = {m}

\* ... or adds it to the ones it has.
Adds(m, r) ==
  /\ tx' = [tx EXCEPT ![m] = r]
  /\ touched' = touched \cup {m}

Clean ==
  /\ tx' = [m \in Report |-> Absent]
  /\ touched' = {}

EndPass == Clean /\ pc' = "idle" /\ batch' = {} /\ current' = {}

\* Rolling the session back takes back the COMPLETED of the rows it had changed.
Undone == lost' = lost \cup (applied \cap touched) /\ UNCHANGED applied

\* The history of a row ends with it.
Forgotten(S) == applied' = applied \ S /\ lost' = lost \ S

-----------------------------------------------------------------------------
(* The connection.                                                         *)

Connect ==
  /\ link = "down"
  /\ link' = "fresh"
  /\ buffer' = {}
  /\ UNCHANGED <<tenant, hostState, db, drainVars, aborts, history>>

\* The connection closes: what it has buffered is gone.
Disconnect ==
  /\ link # "down"
  /\ link' = "down"
  /\ buffer' = {}
  /\ UNCHANGED <<tenant, hostState, db, drainVars, aborts, history>>

\* enqueue_message inserts a row unless its message_id has one, then commits.
Stored(S) ==
  db' = [m \in Report |-> IF m \in S /\ db[m] = Absent THEN NewRow ELSE db[m]]

\* The agent sends a report, maybe not for the first time.
Send(m) ==
  \/ /\ link = "fresh"
     /\ buffer' = buffer \cup {m}
     /\ UNCHANGED <<tenant, link, hostState, db, drainVars, aborts, history>>
  \/ /\ link = "known"
     /\ Stored({m})
     /\ UNCHANGED <<tenant, linkVars, hostState, drainVars, aborts, history>>

\* Mutation: the handler registers the connection and leaves the buffer.
FlushedForgotten(S) == {}

\* The reports a flush takes out of the buffer.
Flushed(S) == S

\* SYSTEM_INFO: the host is created when there is none, the connection gets its
\* hostname, and the buffer is emptied before its reports are enqueued one by one, so
\* that an exception half-way loses the rest.
SystemInfo ==
  /\ link # "down"
  /\ link' = "known"
  /\ hostState' = IF hostState = "missing" THEN "unapproved" ELSE hostState
  /\ buffer' = buffer \ Flushed(buffer)
  /\ \E S \in IF Faults THEN SUBSET Flushed(buffer) ELSE {Flushed(buffer)} : Stored(S)
  /\ UNCHANGED <<tenant, drainVars, aborts, history>>

\* A heartbeat of a host that was deleted: a connection that knows its addresses
\* creates the host anew, any other forgets its hostname.
Heartbeat ==
  /\ link = "known"
  /\ hostState = "missing"
  /\ \/ hostState' = "unapproved" /\ link' = link
     \/ hostState' = hostState /\ link' = "fresh"
  /\ UNCHANGED <<tenant, buffer, db, drainVars, aborts, history>>

\* The administrator approves, rejects or deletes the host.
ChangeHost ==
  /\ hostState # "missing"
  /\ hostState' \in {"unapproved", "approved", "missing"} \ {hostState}
  /\ UNCHANGED <<tenant, linkVars, db, drainVars, aborts, history>>

-----------------------------------------------------------------------------
(* One pass of the drain.                                                  *)

\* IN_PROGRESS for more than 30 seconds: certainly after a minute, possibly before.
Stuck == {m \in Report : db[m].status = "in_progress" /\ ~Expirable(db[m])}
Overdue == {m \in Stuck : db[m].timer > 0}

ResetStuck(r) == [r EXCEPT !.status = "pending", !.timer = 0]

\* Old rows expire, stuck rows are reset and committed with them, and the query takes
\* any BatchLimit rows that are PENDING: it has no order and ignores scheduled_at.
BeginPass ==
  /\ pc = "idle"
  /\ \E reset \in {S \in SUBSET Stuck : Overdue \subseteq S} :
       LET old == {m \in Report : Expirable(db[m])}
           row == [m \in Report |-> IF m \in old THEN ExpireOld(db[m])
                                    ELSE IF m \in reset THEN ResetStuck(db[m]) ELSE db[m]]
           pending == {m \in Report : row[m].status = "pending"}
       IN  /\ IF reset = {}
              THEN /\ db' = db
                   /\ tx' = [m \in Report |-> IF m \in old THEN row[m] ELSE Absent]
                   /\ touched' = old
              ELSE db' = row /\ Clean
           /\ \E B \in SUBSET pending :
                /\ B = pending \/ Cardinality(B) = BatchLimit
                /\ Cardinality(B) <= BatchLimit
                /\ batch' = B
  /\ pc' = "loop"
  /\ UNCHANGED <<tenant, linkVars, hostState, current, aborts, history>>

\* mark_failed; nothing reads the scheduled_at it sets.
Failed(r) == [MarkFailed(r) EXCEPT !.timer = 0]

\* The host is not found or not approved.
RejectReport(m) ==
  /\ pc = "loop"
  /\ m \in batch
  /\ hostState # "approved"
  /\ Adds(m, Failed(View(m)))
  /\ batch' = batch \ {m}
  /\ UNCHANGED <<tenant, linkVars, hostState, db, pc, current, aborts, history>>

\* mark_processing is flushed and the handler is awaited.
StartHandler(m) ==
  /\ pc = "loop"
  /\ m \in batch
  /\ hostState = "approved"
  /\ View(m).status = "pending"
  /\ Adds(m, MarkProcessing(View(m)))
  /\ batch' = batch \ {m}
  /\ pc' = "handling"
  /\ current' = {m}
  /\ UNCHANGED <<tenant, linkVars, hostState, db, aborts, history>>

Handled(m) ==
  /\ pc = "handling"
  /\ m \in current
  /\ pc' = "loop"
  /\ current' = {}
  /\ UNCHANGED <<tenant, linkVars, hostState, batch, aborts>>

\* Mutation: the row stays as the handler's commit left it.
SucceededForgotten(r) == r

\* mark_completed, whatever the status of the row.
Succeeded(r) == MarkCompleted(r)

\* The handler stores the report and commits: on the drain's session that commits all
\* the drain has done so far, the report's row IN_PROGRESS; on a tenant's it does not.
Applies(m) ==
  /\ Handled(m)
  /\ applied' = applied \cup {m}
  /\ lost' = lost \ {m}
  /\ IF tenant
     THEN db' = db /\ Adds(m, Succeeded(View(m)))
     ELSE db' = Viewed /\ Holds(m, Succeeded(View(m)))

\* The handler commits a part of what it does, and with it, on the drain's session, all the
\* drain has done so far; it may yet store the rest, catch an error, or raise.
StoresPart(m) ==
  /\ pc = "handling"
  /\ m \in current
  /\ applied' = applied \cup {m}
  /\ lost' = lost \cup {m}
  /\ IF tenant
     THEN UNCHANGED <<db, sessionVars>>
     ELSE db' = Viewed /\ Holds(m, View(m))
  /\ UNCHANGED <<tenant, linkVars, hostState, pc, batch, current, aborts>>

\* The handler refuses the report without touching the session.  Its answer is not
\* looked at: the row is COMPLETED.
Refuses(m) ==
  /\ Handled(m)
  /\ Adds(m, Succeeded(View(m)))
  /\ UNCHANGED <<db, history>>

\* The handler catches an error, rolls its session back and returns an error answer,
\* which is not looked at either.  On the drain's session that undoes what the drain
\* has done since the last commit, for other reports too.
CatchesError(m) ==
  /\ Handled(m)
  /\ IF tenant
     THEN Adds(m, Succeeded(View(m))) /\ UNCHANGED history
     ELSE Holds(m, Succeeded(db[m])) /\ Undone
  /\ UNCHANGED db

\* An exception leaves the handler, or there is none for the message type.
Raises(m) ==
  /\ Handled(m)
  /\ Adds(m, Failed(View(m)))
  /\ UNCHANGED <<db, history>>

\* A database error leaves the handler: the drain's session refuses every statement
\* until it is rolled back, the pass fails as a whole.
BreaksSession(m) ==
  /\ pc = "handling"
  /\ m \in current
  /\ ~tenant
  /\ EndPass
  /\ Undone
  /\ UNCHANGED <<tenant, linkVars, hostState, db, aborts>>

\* The rest of the pass, the outbound phase and the daily purge, and its commit.
CommitPass ==
  /\ pc = "loop"
  /\ batch = {}
  /\ \E daily \in BOOLEAN :
       LET purged == {m \in Report : daily /\ Purgeable(View(m))} IN
       /\ db' = [m \in Report |-> IF m \in purged THEN Absent ELSE View(m)]
       /\ Forgotten(purged)
  /\ EndPass
  /\ UNCHANGED <<tenant, linkVars, hostState, aborts>>

-----------------------------------------------------------------------------
(* Disturbances and time.                                                  *)

\* The outbound phase raises.
RollbackPass ==
  /\ aborts < MaxAborts
  /\ aborts' = aborts + 1
  /\ pc = "loop"
  /\ EndPass
  /\ Undone
  /\ UNCHANGED <<tenant, linkVars, hostState, db>>

Restart ==
  /\ aborts < MaxAborts
  /\ aborts' = aborts + 1
  /\ EndPass
  /\ Undone
  /\ link' = "down"
  /\ buffer' = {}
  /\ UNCHANGED <<tenant, hostState, db>>

\* Mutation: expired_at is not part of the filter.
DeletableAny(r) == r.status # "absent"

\* The queue page shows and deletes rows with expired_at set.
Deletable(r) == r.status = "expired"

DeleteExpired(m) ==
  /\ Deletable(db[m])
  /\ db' = [db EXCEPT ![m] = Absent]
  /\ Forgotten({m})
  /\ UNCHANGED <<tenant, linkVars, hostState, drainVars, aborts>>

\* A pass takes less than a minute.
Minute ==
  /\ pc = "idle"
  /\ db' = [m \in Report |-> Older(db[m])]
  /\ UNCHANGED <<tenant, linkVars, hostState, drainVars, aborts, history>>

-----------------------------------------------------------------------------
Drain ==
  \/ BeginPass
  \/ \E m \in Report : \/ RejectReport(m) \/ StartHandler(m)
                       \/ Applies(m) \/ Refuses(m) \/ CatchesError(m) \/ Raises(m)
                       \/ BreaksSession(m)
  \/ CommitPass

Link ==
  \/ Connect
  \/ Disconnect
  \/ \E m \in Report : Send(m)
  \/ SystemInfo
  \/ Heartbeat

Disturb ==
  \/ RollbackPass
  \/ Restart
  \/ ChangeHost
  \/ \E m \in Report : DeleteExpired(m)

Next ==
  \/ Link
  \/ Drain
  \/ \E m \in Report : StoresPart(m)
  \/ Disturb
  \/ Minute

Spec == Init /\ [][Next]_vars

\* The loop goes on whatever a pass raises, and a handler comes to its end; time passes.
FairSpec == Spec /\ WF_vars(Drain) /\ SF_vars(Minute)

-----------------------------------------------------------------------------
(* Properties.                                                             *)

TypeOK ==
  /\ tenant \in BOOLEAN
  /\ link \in {"down", "fresh", "known"}
  /\ buffer \subseteq Report
  /\ hostState \in {"missing", "unapproved", "approved"}
  /\ db \in [Report -> Row]
  /\ pc \in {"idle", "loop", "handling"}
  /\ tx \in [Report -> Row]
  /\ touched \subseteq Report
  /\ batch \subseteq Report
  /\ current \subseteq Report
  /\ aborts \in 0..MaxAborts
  /\ applied \subseteq Report
  /\ lost \subseteq applied

\* Nothing waits in the buffer of a registered connection: nobody would flush it until
\* the agent registers once more.
RegisteredHasNoBuffer == link = "known" => buffer = {}

\* A handler runs again on a report it has stored only when a rollback took back the
\* COMPLETED of its row, or it had committed no more than a part: neither the reset of
\* stuck rows nor an agent that sends the report again makes that happen on its own.
AppliedOnce == current \cap applied \subseteq lost

\* What a pass has selected is committed PENDING, and what it has changed PENDING or, by
\* a handler's own commit, IN_PROGRESS, until the pass ends: its last commit overwrites
\* nobody's change.
NoLostUpdate ==
  /\ \A m \in batch : db[m].status = "pending"
  /\ \A m \in touched : db[m].status \in {"pending", "in_progress"}

\* Every row is eventually completed, failed or expired, even when handlers break the
\* session over and over: a row left IN_PROGRESS is found and handled again.
Settles == \A m \in Report : db[m].status \in Live ~> db[m].status \notin Live

-----------------------------------------------------------------------------
(* What the code's comments say of the program, and the program does not do. *)

\* route_inbound_message returns "True if message was successfully processed", and only
\* then is the row COMPLETED: a COMPLETED report has been stored.
CompletedWasApplied ==
  \A m \in Report : db[m].status = "completed" => m \in applied
=============================================================================
