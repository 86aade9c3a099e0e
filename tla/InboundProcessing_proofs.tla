---------------------- MODULE InboundProcessing_proofs ----------------------
(***************************************************************************)
(* Proofs about InboundProcessing for every set of reports, every batch    *)
(* limit, retry limit and timeout, and any number of restarts.  The        *)
(* inductive invariant adds to the properties                              *)
(*   Retriable  a live row has a retry left                                *)
(*   PassOrder  where the rows of the open pass are                        *)
(*   StoredOnce a report a handler has stored is COMPLETED as the drain    *)
(*              sees it, unless a rollback took its COMPLETED back or only *)
(*              a part of it was stored                                    *)
(* The passes end by the variant StepsLeft and always have a next step,    *)
(* since a handler that runs has its report (HandlerRuns).  That a row is  *)
(* committed IN_PROGRESS only after its report was stored (InProgress)     *)
(* needs that one handler runs at a time (Serial).                         *)
(***************************************************************************)
EXTENDS InboundProcessing, MessageQueue_proofs

Retriable ==
  \A m \in Report : /\ db[m].status \in Live => db[m].retries < MaxRetries
                    /\ m \in touched /\ tx[m].status \in Live => tx[m].retries < MaxRetries

PassOrder ==
  /\ pc = "idle" => touched = {} /\ batch = {}
  /\ pc # "handling" => current = {}
  /\ batch \cap touched = {}
  /\ \A m \in current : current = {m} /\ m \in touched /\ tx[m].status = "in_progress"

StoredOnce == \A m \in applied \ lost : View(m).status = "completed"

IInv ==
  /\ TypeOK
  /\ Retriable
  /\ PassOrder
  /\ NoLostUpdate
  /\ StoredOnce
  /\ AppliedOnce
  /\ RegisteredHasNoBuffer

-----------------------------------------------------------------------------
(* The drain's session.                                                    *)

LEMMA ResetRow ==
  ASSUME NEW r \in Row
  PROVE  /\ ResetStuck(r) \in Row
         /\ ResetStuck(r).status = "pending" /\ ResetStuck(r).retries = r.retries
BY DEF ResetStuck, Row, Status

\* What the session sees of a report is a row, with a retry left while it lives.
LEMMA ViewRow ==
  ASSUME TypeOK, Retriable, NEW m \in Report
  PROVE  /\ View(m) \in Row
         /\ View(m).status \in Live => View(m).retries < MaxRetries
BY DEF TypeOK, Retriable, View

\* A failed attempt gives a row of a status that lives only with a retry left.
LEMMA FailedRow ==
  ASSUME NEW r \in Row, r.retries < MaxRetries
  PROVE  /\ Failed(r) \in Row
         /\ Failed(r).status \in Live => Failed(r).retries < MaxRetries
<1>1. MarkFailed(r) \in Row /\
      (MarkFailed(r).status \in Live => MarkFailed(r).retries < MaxRetries)
  BY MarkFailedRow, RowFields, QueueAssumption DEF Live
<1> QED BY <1>1 DEF Failed, Row

\* A session that holds a row sees this row and the committed ones ...
LEMMA HeldView ==
  ASSUME TypeOK, NEW m \in Report, NEW r, Holds(m, r)
  PROVE  /\ touched' = {m} /\ tx'[m] = r
         /\ View(m)' = r
         /\ \A k \in Report : k # m => View(k)' = db'[k]
         /\ r \in Row => tx' \in [Report -> Row]
BY FreshRows DEF Holds, View

\* ... and one that adds a row sees the others as before.
LEMMA AddedView ==
  ASSUME TypeOK, NEW m \in Report, NEW r, Adds(m, r), db' = db
  PROVE  /\ touched' = touched \cup {m} /\ tx'[m] = r
         /\ View(m)' = r
         /\ \A k \in Report : k # m => View(k)' = View(k) /\ tx'[k] = tx[k]
         /\ r \in Row => tx' \in [Report -> Row]
BY DEF Adds, View, TypeOK

-----------------------------------------------------------------------------
(* The inductive invariant.                                                *)

LEMMA Initially == Init => IInv
<1> SUFFICES ASSUME Init PROVE IInv
  OBVIOUS
<1>1. Absent.status = "absent"
  BY DEF Absent
<1>2. TypeOK
  BY InboundAssumption, FreshRows DEF Init, TypeOK
<1> QED BY <1>1, <1>2 DEF Init, IInv, Retriable, PassOrder, NoLostUpdate, StoredOnce,
             AppliedOnce, RegisteredHasNoBuffer, Live

\* A new row touches no row that is there.
LEMMA Inserted ==
  ASSUME IInv, NEW S \in SUBSET Report, Stored(S)
  PROVE  /\ db' \in [Report -> Row]
         /\ \A m \in Report : db[m] # Absent => db'[m] = db[m]
         /\ \A m \in Report : db'[m].status \in Live => db'[m].retries < MaxRetries
<1>1. NewRow.retries = 0 /\ Absent.status = "absent"
  BY DEF NewRow, Absent
<1>2. MaxRetries > 0
  BY QueueAssumption
<1> QED BY <1>1, <1>2, FreshRows DEF Stored, IInv, TypeOK, Retriable

\* The drain's part of the invariant survives an insert.
LEMMA AfterInsert ==
  ASSUME IInv, NEW S \in SUBSET Report, Stored(S), UNCHANGED <<drainVars, history>>
  PROVE  Retriable' /\ PassOrder' /\ NoLostUpdate' /\ StoredOnce' /\ AppliedOnce'
<1> USE DEF drainVars, sessionVars, history, IInv
<1>1. Retriable' /\ PassOrder' /\ AppliedOnce'
  BY Inserted DEF Retriable, PassOrder, AppliedOnce
<1>2. \A m \in Report : db[m].status # "absent" => db'[m] = db[m]
  BY Inserted DEF Absent
<1>3. NoLostUpdate' /\ StoredOnce'
  BY <1>2 DEF NoLostUpdate, StoredOnce, View, TypeOK
<1> QED BY <1>1, <1>3

LEMMA LinkKeeps == IInv /\ Link => IInv'
<1> SUFFICES ASSUME IInv, Link PROVE IInv'
  OBVIOUS
<1> USE DEF drainVars, sessionVars, history, linkVars
<1>1. CASE Connect \/ Disconnect \/ Heartbeat
  BY <1>1 DEF Connect, Disconnect, Heartbeat, IInv, TypeOK, Retriable, PassOrder, NoLostUpdate,
              StoredOnce, AppliedOnce, RegisteredHasNoBuffer, View
<1>2. ASSUME NEW m \in Report, Send(m) PROVE IInv'
  <2>1. CASE link = "fresh"
    BY <1>2, <2>1 DEF Send, IInv, TypeOK, Retriable, PassOrder, NoLostUpdate,
                      StoredOnce, AppliedOnce, RegisteredHasNoBuffer, View
  <2>2. CASE link = "known"
    <3>1. Stored({m}) /\ UNCHANGED <<tenant, linkVars, hostState, drainVars, aborts, history>>
      BY <1>2, <2>2 DEF Send
    <3>2. TypeOK'
      BY <3>1, Inserted DEF IInv, TypeOK
    <3>3. RegisteredHasNoBuffer'
      BY <3>1 DEF IInv, RegisteredHasNoBuffer
    <3> QED BY <3>1, <3>2, <3>3, AfterInsert DEF IInv
  <2> QED BY <1>2, <2>1, <2>2 DEF Send
<1>3. CASE SystemInfo
  <2>1. PICK S \in SUBSET buffer : Stored(S)
    BY <1>3 DEF SystemInfo, Flushed
  <2>2. S \in SUBSET Report
    BY <2>1 DEF IInv, TypeOK
  <2>3. TypeOK'
    BY <1>3, <2>1, <2>2, Inserted DEF SystemInfo, Flushed, IInv, TypeOK
  <2>4. RegisteredHasNoBuffer'
    BY <1>3 DEF SystemInfo, Flushed, RegisteredHasNoBuffer
  <2> QED BY <1>3, <2>1, <2>2, <2>3, <2>4, AfterInsert DEF SystemInfo, IInv
<1> QED BY <1>1, <1>2, <1>3 DEF Link

LEMMA BeginKeeps == IInv /\ BeginPass => IInv'
<1> SUFFICES ASSUME IInv, BeginPass PROVE IInv'
  OBVIOUS
<1> DEFINE old == {m \in Report : Expirable(db[m])}
           row(reset) == [m \in Report |-> IF m \in old THEN ExpireOld(db[m])
                                           ELSE IF m \in reset THEN ResetStuck(db[m]) ELSE db[m]]
<1>1. PICK reset \in SUBSET Stuck :
        /\ IF reset = {}
           THEN /\ db' = db
                /\ tx' = [m \in Report |-> IF m \in old THEN row(reset)[m] ELSE Absent]
                /\ touched' = old
           ELSE db' = row(reset) /\ Clean
        /\ \E B \in SUBSET {m \in Report : row(reset)[m].status = "pending"} : batch' = B
  BY DEF BeginPass
<1>2. /\ pc = "idle" /\ pc' = "loop" /\ touched = {} /\ batch = {} /\ current = {}
      /\ UNCHANGED <<tenant, linkVars, hostState, current, aborts, history>>
  BY DEF BeginPass, IInv, PassOrder
<1>3. \A m \in Report :
        /\ db[m] \in Row /\ row(reset)[m] \in Row
        /\ row(reset)[m].status \in Live => row(reset)[m].retries < MaxRetries
        /\ m \in old => row(reset)[m].status = "expired" /\ db[m].status \in {"pending", "in_progress"}
        /\ m \notin old /\ m \in reset => db[m].status = "in_progress" /\ row(reset)[m].status = "pending"
        /\ m \notin old /\ m \notin reset => row(reset)[m] = db[m]
  <2> TAKE m \in Report
  <2>1. db[m] \in Row /\ (db[m].status \in Live => db[m].retries < MaxRetries)
    BY DEF IInv, TypeOK, Retriable
  <2>2. CASE m \in old
    BY <2>1, <2>2, MarkRow DEF Expirable, Live
  <2>3. CASE m \notin old /\ m \in reset
    <3>1. db[m].status = "in_progress"
      BY <2>3 DEF Stuck
    <3> QED BY <2>1, <2>3, <3>1, ResetRow DEF Live
  <2>4. CASE m \notin old /\ m \notin reset
    BY <2>1, <2>4
  <2> QED BY <2>2, <2>3, <2>4
<1> HIDE DEF old, row
<1>4. old \subseteq Report /\ batch' \subseteq Report /\ \A m \in batch' : row(reset)[m].status = "pending"
  BY <1>1 DEF old
<1>5. \A m \in applied : m \notin lost => db[m].status = "completed" /\ m \in Report
  BY <1>2 DEF IInv, StoredOnce, View, TypeOK
<1>6. CASE reset = {}
  <2>1. db' = db /\ touched' = old /\ \A m \in old : tx'[m] = row(reset)[m]
    BY <1>1, <1>4, <1>6
  <2>2. TypeOK'
    BY <1>1, <1>2, <1>3, <1>4, <1>6, FreshRows DEF IInv, TypeOK, linkVars, history
  <2>3. Retriable'
    BY <2>1, <1>3, <1>4 DEF IInv, Retriable
  <2>4. PassOrder' /\ NoLostUpdate'
    BY <2>1, <1>2, <1>3, <1>4, <1>6 DEF PassOrder, NoLostUpdate
  <2>5. StoredOnce' /\ AppliedOnce' /\ RegisteredHasNoBuffer'
    BY <2>1, <1>2, <1>3, <1>5 DEF IInv, StoredOnce, View, AppliedOnce, RegisteredHasNoBuffer,
                                  linkVars, history
  <2> QED BY <2>2, <2>3, <2>4, <2>5 DEF IInv
<1>7. CASE reset # {}
  <2>1. db' = row(reset) /\ Clean
    BY <1>1, <1>7
  <2>2. TypeOK'
    <3>1. db' \in [Report -> Row] /\ tx' \in [Report -> Row] /\ touched' = {}
      BY <2>1, <1>3, FreshRows DEF row, Clean
    <3> QED BY <3>1, <1>2, <1>4 DEF IInv, TypeOK, linkVars, history
  <2>3. Retriable' /\ PassOrder' /\ NoLostUpdate'
    BY <2>1, <1>2, <1>3, <1>4 DEF Retriable, PassOrder, NoLostUpdate, Clean
  <2>4. StoredOnce' /\ AppliedOnce' /\ RegisteredHasNoBuffer'
    BY <2>1, <1>2, <1>3, <1>5, <1>1 DEF IInv, StoredOnce, View, AppliedOnce, RegisteredHasNoBuffer,
                                  linkVars, history, Clean
  <2> QED BY <2>2, <2>3, <2>4 DEF IInv
<1> QED BY <1>6, <1>7

\* A row that waits in the batch is committed PENDING and the session has not touched it.
LEMMA Waiting ==
  ASSUME IInv, NEW m \in batch
  PROVE  /\ m \in Report /\ m \notin touched /\ View(m) = db[m]
         /\ db[m] \in Row /\ db[m].status = "pending" /\ db[m].retries < MaxRetries
         /\ m \in applied => m \in lost
BY DEF IInv, TypeOK, PassOrder, NoLostUpdate, View, Retriable, Live, StoredOnce

LEMMA RejectKeeps == ASSUME IInv, NEW m \in Report, RejectReport(m) PROVE IInv'
<1> USE DEF drainVars, sessionVars, history, linkVars
<1>1. m \in batch /\ Adds(m, Failed(View(m))) /\ db' = db
  BY DEF RejectReport
<1>2. View(m) \in Row /\ View(m).retries < MaxRetries
  BY <1>1, Waiting
<1>3. /\ Failed(View(m)) \in Row
      /\ Failed(View(m)).status \in Live => Failed(View(m)).retries < MaxRetries
  BY <1>2, FailedRow
<1>4. TypeOK'
  BY <1>1, <1>3, AddedView DEF RejectReport, IInv, TypeOK
<1>5. Retriable'
  BY <1>1, <1>3, AddedView DEF IInv, Retriable
<1>6. PassOrder' /\ NoLostUpdate'
  BY <1>1, AddedView, Waiting DEF RejectReport, IInv, PassOrder, NoLostUpdate, TypeOK
<1>7. StoredOnce' /\ AppliedOnce' /\ RegisteredHasNoBuffer'
  BY <1>1, AddedView, Waiting DEF RejectReport, IInv, StoredOnce, AppliedOnce, RegisteredHasNoBuffer, TypeOK
<1> QED BY <1>4, <1>5, <1>6, <1>7 DEF IInv

LEMMA StartKeeps == ASSUME IInv, NEW m \in Report, StartHandler(m) PROVE IInv'
<1> USE DEF drainVars, sessionVars, history, linkVars
<1>1. m \in batch /\ Adds(m, MarkProcessing(View(m))) /\ db' = db
  BY DEF StartHandler
<1>2. View(m) \in Row /\ View(m).retries < MaxRetries
  BY <1>1, Waiting
<1>3. /\ MarkProcessing(View(m)) \in Row
      /\ MarkProcessing(View(m)).status = "in_progress"
      /\ MarkProcessing(View(m)).retries < MaxRetries
  BY <1>2, MarkRow
<1>4. TypeOK'
  BY <1>1, <1>3, AddedView DEF StartHandler, IInv, TypeOK
<1>5. Retriable'
  BY <1>1, <1>3, AddedView DEF IInv, Retriable
<1>6. PassOrder' /\ NoLostUpdate'
  BY <1>1, <1>3, AddedView, Waiting DEF StartHandler, IInv, PassOrder, NoLostUpdate, TypeOK
<1>7. StoredOnce' /\ AppliedOnce' /\ RegisteredHasNoBuffer'
  BY <1>1, AddedView, Waiting DEF StartHandler, IInv, StoredOnce, AppliedOnce, RegisteredHasNoBuffer, TypeOK
<1> QED BY <1>4, <1>5, <1>6, <1>7 DEF IInv

\* A handler is running: its report is IN_PROGRESS in the session and no other is.
LEMMA Running ==
  ASSUME IInv, NEW m \in Report, Handled(m)
  PROVE  /\ m \in touched /\ m \notin batch /\ tx[m].status = "in_progress" /\ View(m) = tx[m]
         /\ View(m) \in Row /\ View(m).retries < MaxRetries /\ db[m] \in Row
         /\ m \in applied => m \in lost
         /\ pc' = "loop" /\ current' = {}
         /\ UNCHANGED <<tenant, linkVars, hostState, batch, aborts>>
<1>1. m \in current /\ pc' = "loop" /\ current' = {} /\
      UNCHANGED <<tenant, linkVars, hostState, batch, aborts>>
  BY DEF Handled
<1>2. m \in touched /\ m \notin batch /\ tx[m].status = "in_progress" /\ View(m) = tx[m]
  BY <1>1 DEF IInv, PassOrder, View
<1> QED BY <1>1, <1>2, ViewRow DEF IInv, TypeOK, AppliedOnce, Live

\* A report whose handler has returned: the session adds a row for it that lives only
\* with a retry left, and is COMPLETED if the handler has stored the report.
LEMMA ReturnKeeps ==
  ASSUME IInv, NEW m \in Report, Handled(m), NEW r \in Row, Adds(m, r), db' = db,
         r.status \in Live => r.retries < MaxRetries,
         \/ UNCHANGED history
         \/ /\ applied' = applied \cup {m} /\ lost' = lost \ {m} /\ r.status = "completed"
  PROVE  IInv'
<1> USE DEF history, linkVars
<1>1. TypeOK'
  BY Running, AddedView DEF IInv, TypeOK
<1>2. Retriable'
  BY AddedView DEF IInv, Retriable
<1>3. PassOrder' /\ NoLostUpdate'
  BY Running, AddedView DEF IInv, PassOrder, NoLostUpdate
<1>4. StoredOnce'
  BY Running, AddedView DEF IInv, StoredOnce, TypeOK
<1>5. AppliedOnce' /\ RegisteredHasNoBuffer'
  BY Running DEF IInv, AppliedOnce, RegisteredHasNoBuffer
<1> QED BY <1>1, <1>2, <1>3, <1>4, <1>5 DEF IInv

LEMMA AppliesKeeps == ASSUME IInv, NEW m \in Report, Applies(m) PROVE IInv'
<1> USE DEF history, linkVars
<1>1. Handled(m) /\ applied' = applied \cup {m} /\ lost' = lost \ {m}
  BY DEF Applies
<1>2. Succeeded(View(m)) \in Row /\ Succeeded(View(m)).status = "completed"
  BY <1>1, Running, MarkRow DEF Succeeded
<1>3. CASE tenant
  <2>1. db' = db /\ Adds(m, Succeeded(View(m)))
    BY <1>3 DEF Applies
  <2> QED BY <1>1, <1>2, <2>1, ReturnKeeps DEF Live
<1>4. CASE ~ tenant
  <2>1. db' = Viewed /\ Holds(m, Succeeded(View(m)))
    BY <1>4 DEF Applies
  <2>2. \A k \in Report : db'[k] = View(k) /\ View(k) \in Row
    BY <2>1, ViewRow DEF Viewed, IInv
  <2>3. TypeOK'
    <3>1. db' \in [Report -> Row]
      BY <2>1, <2>2 DEF Viewed
    <3> QED BY <3>1, <1>1, <1>2, <2>1, Running, HeldView DEF IInv, TypeOK
  <2>4. Retriable'
    BY <2>1, <2>2, <1>2, ViewRow, HeldView DEF IInv, Retriable, Live
  <2>5. PassOrder' /\ NoLostUpdate'
    <3>1. \A k \in batch : View(k).status = "pending"
      BY Waiting
    <3> QED BY <3>1, <1>1, <2>1, <2>2, Running, HeldView DEF IInv, PassOrder, NoLostUpdate, TypeOK
  <2>6. StoredOnce'
    BY <1>1, <1>2, <2>1, <2>2, HeldView DEF IInv, StoredOnce, TypeOK
  <2>7. AppliedOnce' /\ RegisteredHasNoBuffer'
    BY <1>1, Running DEF IInv, AppliedOnce, RegisteredHasNoBuffer
  <2> QED BY <2>3, <2>4, <2>5, <2>6, <2>7 DEF IInv
<1> QED BY <1>3, <1>4

LEMMA CatchesKeeps == ASSUME IInv, NEW m \in Report, CatchesError(m) PROVE IInv'
<1> USE DEF history, linkVars
<1>1. Handled(m) /\ db' = db
  BY DEF CatchesError
<1>2. CASE tenant
  <2>1. Adds(m, Succeeded(View(m))) /\ UNCHANGED history
    BY <1>2 DEF CatchesError
  <2>2. Succeeded(View(m)) \in Row /\ Succeeded(View(m)).status = "completed"
    BY <1>1, Running, MarkRow DEF Succeeded
  <2> QED BY <1>1, <2>1, <2>2, ReturnKeeps DEF Live
<1>3. CASE ~ tenant
  <2>1. Holds(m, Succeeded(db[m])) /\ Undone
    BY <1>3 DEF CatchesError
  <2>2. Succeeded(db[m]) \in Row /\ Succeeded(db[m]).status = "completed"
    BY <1>1, Running, MarkRow DEF Succeeded
  <2>3. lost' = lost \cup (applied \cap touched) /\ applied' = applied
    BY <2>1 DEF Undone
  <2>4. TypeOK'
    BY <1>1, <2>1, <2>2, <2>3, Running, HeldView DEF IInv, TypeOK
  <2>5. Retriable'
    BY <1>1, <2>1, <2>2, HeldView DEF IInv, Retriable, Live
  <2>6. PassOrder' /\ NoLostUpdate'
    BY <1>1, <2>1, Running, HeldView DEF IInv, PassOrder, NoLostUpdate
  <2>7. StoredOnce'
    <3>1. \A k \in applied' \ lost' : k \in Report /\ k \notin touched /\ View(k) = db[k] /\ k \notin lost
      BY <2>3 DEF IInv, TypeOK, View
    <3> QED BY <3>1, <1>1, <2>1, <2>2, <2>3, HeldView DEF IInv, StoredOnce
  <2>8. AppliedOnce' /\ RegisteredHasNoBuffer'
    BY <1>1, Running DEF IInv, AppliedOnce, RegisteredHasNoBuffer
  <2> QED BY <2>4, <2>5, <2>6, <2>7, <2>8 DEF IInv
<1> QED BY <1>2, <1>3

\* A handler that refuses the report or raises.
LEMMA RefusesKeeps == ASSUME IInv, NEW m \in Report, Refuses(m) \/ Raises(m) PROVE IInv'
<1>1. Handled(m) /\ db' = db /\ UNCHANGED history
  BY DEF Refuses, Raises
<1>2. CASE Refuses(m)
  <2>1. Adds(m, Succeeded(View(m)))
    BY <1>2 DEF Refuses
  <2>2. Succeeded(View(m)) \in Row /\ Succeeded(View(m)).status = "completed"
    BY <1>1, Running, MarkRow DEF Succeeded
  <2> QED BY <1>1, <2>1, <2>2, ReturnKeeps DEF Live
<1>3. CASE Raises(m)
  <2>1. Adds(m, Failed(View(m)))
    BY <1>3 DEF Raises
  <2> QED BY <1>1, <2>1, Running, FailedRow, ReturnKeeps
<1> QED BY <1>2, <1>3

\* A handler that commits a part of what it does and goes on.
LEMMA StoresPartKeeps == ASSUME IInv, NEW m \in Report, StoresPart(m) PROVE IInv'
<1> USE DEF linkVars, sessionVars
<1>1. /\ m \in current /\ applied' = applied \cup {m} /\ lost' = lost \cup {m}
      /\ UNCHANGED <<tenant, link, buffer, hostState, pc, batch, current, aborts>>
  BY DEF StoresPart
<1>2. m \in touched /\ m \notin batch /\ tx[m].status = "in_progress" /\ View(m) = tx[m]
  BY <1>1 DEF IInv, PassOrder, View
<1>3. pc = "handling"
  BY DEF StoresPart
<1>4. AppliedOnce' /\ RegisteredHasNoBuffer'
  BY <1>1 DEF IInv, AppliedOnce, RegisteredHasNoBuffer
<1>5. CASE tenant
  <2>1. db' = db /\ tx' = tx /\ touched' = touched
    BY <1>5 DEF StoresPart
  <2> QED BY <1>1, <1>4, <2>1 DEF IInv, TypeOK, Retriable, PassOrder, NoLostUpdate, StoredOnce, View
<1>6. CASE ~ tenant
  <2>1. db' = Viewed /\ Holds(m, View(m))
    BY <1>6 DEF StoresPart
  <2>2. /\ \A k \in Report : db'[k] = View(k) /\ View(k) \in Row
        /\ View(m) \in Row
    BY <2>1, ViewRow DEF Viewed, IInv
  <2>3. TypeOK'
    <3>1. db' \in [Report -> Row]
      BY <2>1, <2>2 DEF Viewed
    <3> QED BY <3>1, <1>1, <2>1, <2>2, HeldView DEF IInv, TypeOK
  <2>4. Retriable'
    BY <2>1, <2>2, ViewRow, HeldView DEF IInv, Retriable
  <2>5. PassOrder' /\ NoLostUpdate'
    <3>1. \A k \in batch : View(k).status = "pending"
      BY Waiting
    <3>2. touched' = {m} /\ tx'[m] = View(m)
      BY <2>1, HeldView DEF IInv
    <3>3. current = {m}
      BY <1>1 DEF IInv, PassOrder
    <3> QED BY <3>1, <3>2, <3>3, <1>1, <1>2, <1>3, <2>2 DEF IInv, PassOrder, NoLostUpdate, TypeOK
  <2>6. StoredOnce'
    BY <1>1, <2>1, <2>2, HeldView DEF IInv, StoredOnce, TypeOK
  <2> QED BY <1>4, <2>3, <2>4, <2>5, <2>6 DEF IInv
<1> QED BY <1>5, <1>6

\* The session is rolled back and the pass is over.
LEMMA AbortKeeps ==
  ASSUME IInv, EndPass, Undone, UNCHANGED <<tenant, hostState, db>>,
         aborts' \in 0..MaxAborts,
         \/ link' = link /\ buffer' = buffer
         \/ link' = "down" /\ buffer' = {}
  PROVE  IInv'
<1> USE DEF EndPass, Clean
<1>1. lost' = lost \cup (applied \cap touched) /\ applied' = applied
  BY DEF Undone
<1>2. TypeOK'
  BY <1>1, FreshRows DEF IInv, TypeOK
<1>3. Retriable' /\ PassOrder' /\ NoLostUpdate'
  BY DEF IInv, Retriable, PassOrder, NoLostUpdate
<1>4. StoredOnce'
  BY <1>1 DEF IInv, StoredOnce, View
<1>5. AppliedOnce' /\ RegisteredHasNoBuffer'
  BY DEF IInv, AppliedOnce, RegisteredHasNoBuffer
<1> QED BY <1>2, <1>3, <1>4, <1>5 DEF IInv

LEMMA CommitKeeps == IInv /\ CommitPass => IInv'
<1> SUFFICES ASSUME IInv, CommitPass PROVE IInv'
  OBVIOUS
<1> USE DEF EndPass, Clean, linkVars
<1>1. PICK purged \in SUBSET {m \in Report : Purgeable(View(m))} :
        /\ db' = [m \in Report |-> IF m \in purged THEN Absent ELSE View(m)]
        /\ Forgotten(purged)
  BY DEF CommitPass
<1>2. applied' = applied \ purged /\ lost' = lost \ purged
  BY <1>1 DEF Forgotten
<1>3. EndPass /\ UNCHANGED <<tenant, linkVars, hostState, aborts>>
  BY DEF CommitPass
<1>4. TypeOK'
  BY <1>1, <1>2, <1>3, ViewRow, FreshRows DEF IInv, TypeOK
<1>5. Retriable'
  BY <1>1, <1>3, ViewRow DEF IInv, Retriable, Absent, Live
<1>6. PassOrder' /\ NoLostUpdate' /\ AppliedOnce'
  BY <1>3 DEF PassOrder, NoLostUpdate, AppliedOnce
<1>7. StoredOnce'
  BY <1>1, <1>2, <1>3 DEF IInv, StoredOnce, View, TypeOK
<1>8. RegisteredHasNoBuffer'
  BY <1>3 DEF IInv, RegisteredHasNoBuffer
<1> QED BY <1>4, <1>5, <1>6, <1>7, <1>8 DEF IInv

LEMMA DeleteKeeps == ASSUME IInv, NEW m \in Report, DeleteExpired(m) PROVE IInv'
<1> USE DEF drainVars, sessionVars, linkVars
<1>1. /\ db[m].status = "expired" /\ db' = [db EXCEPT ![m] = Absent]
      /\ applied' = applied \ {m} /\ lost' = lost \ {m}
      /\ UNCHANGED <<tenant, linkVars, hostState, drainVars, aborts>>
  BY DEF DeleteExpired, Deletable, Forgotten
<1>2. m \notin touched /\ m \notin batch
  BY <1>1 DEF IInv, NoLostUpdate
<1>3. m \notin current
  BY <1>2 DEF IInv, PassOrder
<1>4. TypeOK'
  BY <1>1, FreshRows DEF IInv, TypeOK
<1>5. Retriable'
  BY <1>1 DEF IInv, TypeOK, Retriable, Absent, Live
<1>6. PassOrder' /\ NoLostUpdate'
  BY <1>1, <1>2 DEF IInv, TypeOK, PassOrder, NoLostUpdate
<1>7. StoredOnce' /\ AppliedOnce' /\ RegisteredHasNoBuffer'
  BY <1>1, <1>2, <1>3 DEF IInv, TypeOK, StoredOnce, View, AppliedOnce, RegisteredHasNoBuffer
<1> QED BY <1>4, <1>5, <1>6, <1>7 DEF IInv

LEMMA MinuteKeeps == IInv /\ Minute => IInv'
<1> SUFFICES ASSUME IInv, Minute PROVE IInv'
  OBVIOUS
<1> USE DEF drainVars, sessionVars, history, linkVars
<1>1. /\ pc = "idle" /\ db' = [m \in Report |-> Older(db[m])]
      /\ UNCHANGED <<tenant, linkVars, hostState, drainVars, aborts, history>>
  BY DEF Minute
<1>2. \A m \in Report : /\ db'[m] \in Row /\ db'[m].status = db[m].status
                        /\ db'[m].retries = db[m].retries
  BY <1>1, OlderRow DEF IInv, TypeOK
<1>3. touched = {} /\ batch = {}
  BY <1>1 DEF IInv, PassOrder
<1>4. TypeOK'
  BY <1>1, <1>2 DEF IInv, TypeOK
<1>5. Retriable' /\ PassOrder' /\ NoLostUpdate'
  BY <1>1, <1>2, <1>3 DEF IInv, Retriable, PassOrder, NoLostUpdate
<1>6. StoredOnce' /\ AppliedOnce' /\ RegisteredHasNoBuffer'
  BY <1>1, <1>2, <1>3 DEF IInv, StoredOnce, View, AppliedOnce, RegisteredHasNoBuffer, TypeOK
<1> QED BY <1>4, <1>5, <1>6 DEF IInv

LEMMA Inductive == IInv /\ [Next]_vars => IInv'
<1> SUFFICES ASSUME IInv, [Next]_vars PROVE IInv'
  OBVIOUS
<1>1. CASE Link
  BY <1>1, LinkKeeps
<1>2. CASE Drain
  <2>1. CASE BeginPass
    BY <2>1, BeginKeeps
  <2>2. CASE CommitPass
    BY <2>2, CommitKeeps
  <2>3. ASSUME NEW m \in Report, RejectReport(m) \/ StartHandler(m) PROVE IInv'
    BY <2>3, RejectKeeps, StartKeeps
  <2>4. ASSUME NEW m \in Report, Applies(m) \/ Refuses(m) \/ CatchesError(m) \/ Raises(m) PROVE IInv'
    BY <2>4, AppliesKeeps, RefusesKeeps, CatchesKeeps
  <2>5. ASSUME NEW m \in Report, BreaksSession(m) PROVE IInv'
    <3>1. EndPass /\ Undone /\ UNCHANGED <<tenant, linkVars, hostState, db, aborts>>
      BY <2>5 DEF BreaksSession
    <3>2. aborts' \in 0..MaxAborts
      BY <3>1 DEF IInv, TypeOK
    <3> QED BY <3>1, <3>2, AbortKeeps DEF linkVars
  <2> QED BY <1>2, <2>1, <2>2, <2>3, <2>4, <2>5 DEF Drain
<1>3. CASE Disturb
  <2>1. CASE RollbackPass \/ Restart
    <3>1. aborts' \in 0..MaxAborts
      BY <2>1, InboundAssumption DEF RollbackPass, Restart, IInv, TypeOK
    <3>2. /\ EndPass /\ Undone /\ UNCHANGED <<tenant, hostState, db>>
          /\ \/ link' = link /\ buffer' = buffer
             \/ link' = "down" /\ buffer' = {}
      BY <2>1 DEF RollbackPass, Restart, linkVars
    <3> QED BY <3>1, <3>2, AbortKeeps
  <2>2. CASE ChangeHost
    BY <2>2 DEF ChangeHost, IInv, TypeOK, Retriable, PassOrder, NoLostUpdate, StoredOnce, View,
                AppliedOnce, RegisteredHasNoBuffer, linkVars, drainVars, sessionVars, history
  <2>3. ASSUME NEW m \in Report, DeleteExpired(m) PROVE IInv'
    BY <2>3, DeleteKeeps
  <2> QED BY <1>3, <2>1, <2>2, <2>3 DEF Disturb
<1>4. CASE Minute
  BY <1>4, MinuteKeeps
<1>5. ASSUME NEW m \in Report, StoresPart(m) PROVE IInv'
  BY <1>5, StoresPartKeeps
<1>6. CASE UNCHANGED vars
  BY <1>6 DEF vars, IInv, TypeOK, Retriable, PassOrder, NoLostUpdate, StoredOnce, View,
              AppliedOnce, RegisteredHasNoBuffer, linkVars, drainVars, sessionVars, history
<1> QED BY <1>1, <1>2, <1>3, <1>4, <1>5, <1>6 DEF Next

-----------------------------------------------------------------------------
(* The theorems.                                                           *)

\* The parts of the invariant hold in every reachable state.
THEOREM Invariant == Spec => []IInv
BY Initially, Inductive, PTL DEF Spec

\* The variables keep their types: no row is failed more often than max_retries.
THEOREM TypeCorrect == Spec => []TypeOK
<1>1. IInv => TypeOK
  BY DEF IInv
<1> QED BY <1>1, Invariant, PTL

\* Nothing waits in the buffer of a registered connection.
THEOREM BuffersAreFlushed == Spec => []RegisteredHasNoBuffer
<1>1. IInv => RegisteredHasNoBuffer
  BY DEF IInv
<1> QED BY <1>1, Invariant, PTL

\* A handler runs again on a report it stored only after a rollback of its COMPLETED, or
\* when it had committed only a part.
THEOREM StoredReportsAreNotRepeated == Spec => []AppliedOnce
<1>1. IInv => AppliedOnce
  BY DEF IInv
<1> QED BY <1>1, Invariant, PTL

\* The commits of a pass overwrite nobody's change.
THEOREM NoUpdateIsLost == Spec => []NoLostUpdate
<1>1. IInv => NoLostUpdate
  BY DEF IInv
<1> QED BY <1>1, Invariant, PTL

-----------------------------------------------------------------------------
(* One pass of the drain.                                                  *)

\* Any set of reports is finite.
LEMMA ReportsFinite ==
  ASSUME NEW S \in SUBSET Report
  PROVE  /\ Cardinality(S) \in Nat
         /\ \A m \in S : Cardinality(S \ {m}) = Cardinality(S) - 1
<1>1. IsFiniteSet(S)
  BY InboundAssumption, FS_Subset
<1> QED BY <1>1, FS_CardinalityType, FS_RemoveElement

\* Every step is one of the drain's own, ends its pass, or leaves the pass where it is.
LEMMA StepKinds ==
  ASSUME [Next]_vars
  PROVE  Drain \/ EndPass \/ UNCHANGED <<pc, batch>>
BY DEF Next, Link, Disturb, Connect, Disconnect, Send, SystemInfo, Heartbeat, ChangeHost,
       RollbackPass, Restart, DeleteExpired, StoresPart, Minute, drainVars, vars

\* The steps the open pass can still take: two for each selected report.
StepsLeft == 2 * Cardinality(batch) + (IF pc = "handling" THEN 1 ELSE 0)

\* A pass gets nearer to its end by every step of its own, and no other step sets it back.
PassShrinks ==
  pc # "idle" => \/ pc' = "idle"
                 \/ StepsLeft' <= StepsLeft /\ (Drain => StepsLeft' < StepsLeft)

\* It is never longer than the LIMIT of its query accounts for.
PassBounded == StepsLeft <= 2 * BatchLimit

LEMMA DrainShrinks ==
  ASSUME IInv, Drain, pc # "idle", pc' # "idle" PROVE StepsLeft' < StepsLeft
<1>1. batch \in SUBSET Report /\ Cardinality(batch) \in Nat
  BY ReportsFinite DEF IInv, TypeOK
<1>2. ASSUME NEW m \in Report, RejectReport(m) \/ StartHandler(m) PROVE StepsLeft' < StepsLeft
  <2>1. /\ pc = "loop" /\ pc' \in {"loop", "handling"}
        /\ m \in batch /\ batch' = batch \ {m}
    BY <1>2 DEF RejectReport, StartHandler
  <2>2. Cardinality(batch') = Cardinality(batch) - 1
    BY <1>1, <2>1, ReportsFinite
  <2> QED BY <1>1, <2>1, <2>2 DEF StepsLeft
<1>3. ASSUME NEW m \in Report, Handled(m) PROVE StepsLeft' < StepsLeft
  BY <1>1, <1>3 DEF Handled, StepsLeft
<1>4. ~BeginPass /\ ~CommitPass /\ \A m \in Report : ~BreaksSession(m)
  BY DEF BeginPass, CommitPass, BreaksSession, EndPass
<1> QED BY <1>2, <1>3, <1>4 DEF Drain, Applies, Refuses, CatchesError, Raises

LEMMA StepShrinks ==
  ASSUME IInv, [Next]_vars PROVE PassShrinks
<1>1. StepsLeft \in Nat
  BY ReportsFinite DEF IInv, TypeOK, StepsLeft
<1>2. pc' # "idle" => ~EndPass
  BY DEF EndPass
<1>3. UNCHANGED <<pc, batch>> => StepsLeft' = StepsLeft
  BY DEF StepsLeft
<1>4. Drain /\ pc # "idle" /\ pc' # "idle" => StepsLeft' < StepsLeft /\ StepsLeft' <= StepsLeft
  <2>1. IInv' => StepsLeft' \in Nat
    BY ReportsFinite DEF IInv, TypeOK, StepsLeft
  <2> QED BY <1>1, <2>1, DrainShrinks, Inductive
<1>5. CASE Drain
  BY <1>4, <1>5 DEF PassShrinks
<1>6. CASE ~Drain /\ (EndPass \/ UNCHANGED <<pc, batch>>)
  BY <1>1, <1>2, <1>3, <1>6 DEF PassShrinks
<1> QED BY <1>5, <1>6, StepKinds

LEMMA BoundKept ==
  ASSUME IInv, PassBounded, [Next]_vars PROVE PassBounded'
<1>1. StepsLeft \in Nat /\ BatchLimit \in Nat
  BY ReportsFinite, InboundAssumption DEF IInv, TypeOK, StepsLeft
<1>2. StepsLeft' \in Nat
  <2>1. batch' \in SUBSET Report
    BY Inductive DEF IInv, TypeOK
  <2>2. Cardinality(batch') \in Nat
    BY <2>1, ReportsFinite
  <2> QED BY <2>2 DEF StepsLeft
<1>3. CASE pc' = "idle"
  <2>1. batch' = {}
    BY <1>3, Inductive DEF IInv, PassOrder
  <2> QED BY <1>1, <1>3, <2>1, FS_EmptySet DEF StepsLeft, PassBounded
<1>4. CASE pc # "idle" /\ pc' # "idle"
  BY <1>1, <1>2, <1>4, StepShrinks DEF PassShrinks, PassBounded
<1>5. CASE pc = "idle" /\ pc' # "idle"
  <2>1. BeginPass
    BY <1>5, StepKinds DEF Drain, RejectReport, StartHandler, Applies, Refuses, CatchesError,
       Raises, Handled, BreaksSession, CommitPass, EndPass
  <2>2. Cardinality(batch') <= BatchLimit /\ pc' = "loop"
    BY <2>1 DEF BeginPass
  <2>3. Cardinality(batch') \in Nat
    <3>1. batch' \in SUBSET Report
      BY Inductive DEF IInv, TypeOK
    <3> QED BY <3>1, ReportsFinite
  <2> QED BY <1>1, <2>2, <2>3 DEF StepsLeft, PassBounded
<1> QED BY <1>3, <1>4, <1>5

\* The guards of the drain's actions: in an open pass one of them is met.
CanGoOn ==
  \/ pc = "loop" /\ batch = {}
  \/ pc = "loop" /\ \E m \in batch : hostState # "approved" \/ View(m).status = "pending"
  \/ pc = "handling" /\ \E m \in Report : m \in current

PassesGoOn == pc # "idle" => CanGoOn

\* A report is handled while the pass waits for its handler.
HandlerRuns == pc = "handling" => current # {}

LEMMA HandlerKept ==
  ASSUME IInv, HandlerRuns, [Next]_vars PROVE HandlerRuns'
BY DEF HandlerRuns, Next, Link, Drain, Disturb, Connect, Disconnect, Send, SystemInfo, Heartbeat,
       ChangeHost, RollbackPass, Restart, DeleteExpired, Minute, BeginPass, RejectReport,
       StartHandler, Applies, StoresPart, Refuses, CatchesError, Raises, Handled, BreaksSession,
       CommitPass, EndPass, drainVars, vars

LEMMA DrainCanGoOn == IInv /\ HandlerRuns => PassesGoOn
<1> SUFFICES ASSUME IInv, HandlerRuns, pc # "idle" PROVE CanGoOn
  BY DEF PassesGoOn
<1>1. pc \in {"loop", "handling"} /\ current \subseteq Report
  BY DEF IInv, TypeOK
<1>2. CASE pc = "handling"
  BY <1>1, <1>2 DEF HandlerRuns, CanGoOn
<1>3. CASE pc = "loop"
  BY <1>3, Waiting DEF CanGoOn
<1> QED BY <1>1, <1>2, <1>3

-----------------------------------------------------------------------------
(* What is final, and what a row left IN_PROGRESS means.                   *)

\* A COMPLETED, FAILED or EXPIRED report never changes again, except to be deleted.
TerminalStable ==
  \A m \in Report : db[m].status \in Terminal => db'[m].status \in {db[m].status, "absent"}

\* What a pass commits of a row that is settled is the row itself.
LEMMA SettledView ==
  ASSUME IInv, NEW m \in Report, db[m].status \in Terminal
  PROVE  View(m) = db[m] /\ m \notin touched /\ m \notin batch
BY DEF IInv, NoLostUpdate, View, Terminal

LEMMA StepKeepsSettled ==
  ASSUME IInv, [Next]_vars PROVE TerminalStable
<1> SUFFICES ASSUME NEW m \in Report, db[m].status \in Terminal
             PROVE  db'[m].status \in {db[m].status, "absent"}
  BY DEF TerminalStable
<1>1. db[m] \in Row /\ View(m) = db[m] /\ Absent.status = "absent"
  BY SettledView DEF IInv, TypeOK, Absent
<1>2. ASSUME NEW S \in SUBSET Report, Stored(S) PROVE db'[m] = db[m]
  BY <1>1, <1>2 DEF Stored, Terminal
<1>3. CASE Link
  <2>1. buffer \subseteq Report
    BY DEF IInv, TypeOK
  <2>2. db' = db \/ \E S \in SUBSET Report : Stored(S)
    BY <1>3, <2>1 DEF Link, Connect, Disconnect, Send, SystemInfo, Heartbeat, Flushed
  <2> QED BY <1>2, <2>2
<1>4. CASE BeginPass
  <2>1. m \notin Stuck /\ ~Expirable(db[m])
    BY DEF Stuck, Expirable, Terminal
  <2>2. db'[m] = db[m]
    BY <1>4, <2>1 DEF BeginPass
  <2> QED BY <2>2
<1>5. ASSUME NEW k \in Report, Applies(k) \/ StoresPart(k) PROVE db'[m] = db[m]
  BY <1>1, <1>5 DEF Applies, StoresPart, Viewed
<1>6. CASE CommitPass
  BY <1>1, <1>6 DEF CommitPass
<1>7. ASSUME NEW k \in Report, DeleteExpired(k) PROVE db'[m] \in {db[m], Absent}
  BY <1>7 DEF DeleteExpired, IInv, TypeOK
<1>8. CASE Minute
  BY <1>1, <1>8, OlderRow DEF Minute
<1> QED BY <1>1, <1>3, <1>4, <1>5, <1>6, <1>7, <1>8
        DEF Next, Drain, Disturb, RejectReport, StartHandler, Refuses, CatchesError, Raises,
            BreaksSession, RollbackPass, Restart, ChangeHost, vars

\* A row committed IN_PROGRESS is that of a report its handler has stored, or a part of it.
\* So the reset of stuck rows never saves a report nobody has handled: between two passes
\* every row it can find is one whose COMPLETED was rolled back or whose handler broke off
\* after a commit, and its handler will run again.
StuckIsRepeat ==
  \A m \in Report : db[m].status = "in_progress" => m \in applied /\ (pc = "idle" => m \in lost)

\* The data of a tenant's hosts is stored on another session: there is nothing to reset.
TenantNeverStuck == tenant => \A m \in Report : db[m].status # "in_progress"

\* One report is handled at a time, and only its row is IN_PROGRESS in the session.
Serial ==
  /\ \A m, k \in current : m = k
  /\ \A m \in touched : tx[m].status = "in_progress" => m \in current

InProgress ==
  /\ Serial
  /\ \A m \in Report : db[m].status = "in_progress" => m \in applied /\ ~tenant

LEMMA ReturnIsSerial ==
  ASSUME IInv, InProgress, NEW m \in Report, Handled(m), NEW r, r.status # "in_progress",
         Adds(m, r) \/ Holds(m, r)
  PROVE  Serial'
<1>1. \A k \in current : k = m
  BY DEF Handled, InProgress, Serial
<1>2. \A k \in touched' : k = m \/ (k \in touched /\ tx'[k] = tx[k])
  BY DEF Adds, Holds, IInv, TypeOK
<1>3. m \in touched' => tx'[m] = r
  BY DEF Adds, Holds, IInv, TypeOK
<1> QED BY <1>1, <1>2, <1>3 DEF Handled, InProgress, Serial

LEMMA FinishedRow ==
  ASSUME NEW r \in Row, r.retries < MaxRetries
  PROVE  Succeeded(r).status # "in_progress" /\ Failed(r).status # "in_progress"
<1>1. MarkFailed(r) \in Row /\ MarkFailed(r).status # "in_progress"
  BY MarkFailedRow
<1> QED BY <1>1, MarkRow DEF Succeeded, Failed, Row

LEMMA InProgressKept ==
  ASSUME IInv, InProgress, [Next]_vars PROVE InProgress'
<1> USE DEF history, sessionVars, drainVars, linkVars
<1> DEFINE Owned == \A m \in Report : db'[m].status = "in_progress" => m \in applied' /\ ~tenant'
<1>1. Absent.status # "in_progress" /\ NewRow.status # "in_progress"
  BY DEF Absent, NewRow
<1>2. \A m \in Report : m \notin current => (View(m).status = "in_progress" => m \in applied /\ ~tenant)
  BY DEF InProgress, Serial, View
<1>3. tenant' = tenant
  BY DEF Next, Link, Drain, Disturb, Connect, Disconnect, Send, SystemInfo, Heartbeat,
       ChangeHost, RollbackPass, Restart, DeleteExpired, Minute, BeginPass, RejectReport,
       StartHandler, Applies, StoresPart, Refuses, CatchesError, Raises, Handled, BreaksSession,
       CommitPass, vars
<1>4. ASSUME UNCHANGED drainVars, \A m \in Report : /\ m \in applied \ applied' => db'[m] = Absent
                                                    /\ db'[m].status \in {db[m].status, "absent", "pending"}
      PROVE  InProgress'
  BY <1>1, <1>3, <1>4 DEF InProgress, Serial
<1>5. ASSUME EndPass, applied' = applied, db' = db PROVE InProgress'
  BY <1>3, <1>5 DEF EndPass, Clean, InProgress, Serial
<1>6. CASE Link
  <2>1. buffer \subseteq Report
    BY DEF IInv, TypeOK
  <2>2. UNCHANGED <<drainVars, history>> /\ (db' = db \/ \E S \in SUBSET Report : Stored(S))
    BY <1>6, <2>1 DEF Link, Connect, Disconnect, Send, SystemInfo, Heartbeat, Flushed
  <2>3. \A m \in Report : db'[m].status \in {db[m].status, "pending"}
    BY <2>2 DEF Stored, NewRow
  <2> QED BY <1>4, <2>2, <2>3
<1>7. CASE BeginPass
  <2>1. PICK reset \in SUBSET Stuck :
          LET old == {m \in Report : Expirable(db[m])}
              row == [m \in Report |-> IF m \in old THEN ExpireOld(db[m])
                                       ELSE IF m \in reset THEN ResetStuck(db[m]) ELSE db[m]]
          IN  IF reset = {}
              THEN /\ db' = db
                   /\ tx' = [m \in Report |-> IF m \in old THEN row[m] ELSE Absent]
                   /\ touched' = old
              ELSE db' = row /\ Clean
    BY <1>7 DEF BeginPass
  <2>2. \A m \in Report : ExpireOld(db[m]).status = "expired" /\ ResetStuck(db[m]).status = "pending"
    BY MarkRow, ResetRow DEF IInv, TypeOK
  <2>3. UNCHANGED <<current, applied>>
    BY <1>7 DEF BeginPass
  <2>4. \A m \in Report : db'[m].status = "in_progress" => db[m].status = "in_progress"
    BY <2>1, <2>2
  <2>5. \A m \in touched' : tx'[m].status # "in_progress"
    BY <2>1, <2>2 DEF Clean
  <2> QED BY <1>3, <2>3, <2>4, <2>5 DEF InProgress, Serial
<1>8. ASSUME NEW m \in Report, RejectReport(m) \/ StartHandler(m) PROVE InProgress'
  <2>1. /\ m \in batch /\ db' = db /\ applied' = applied
        /\ \/ Adds(m, Failed(View(m))) /\ current' = current
           \/ Adds(m, MarkProcessing(View(m))) /\ current' = {m} /\ current = {}
    BY <1>8 DEF RejectReport, StartHandler, IInv, PassOrder
  <2>2. Failed(View(m)).status # "in_progress"
    BY <2>1, Waiting, FinishedRow
  <2>3. \A k \in touched' : k = m \/ (k \in touched /\ tx'[k] = tx[k])
    BY <2>1 DEF Adds, IInv, TypeOK
  <2>4. tx'[m] \in {Failed(View(m)), MarkProcessing(View(m))}
    BY <2>1 DEF Adds, IInv, TypeOK
  <2>5. current' = current => tx'[m] = Failed(View(m)) \/ m \in current'
    BY <2>1 DEF Adds, IInv, TypeOK
  <2>6. Serial'
    BY <2>1, <2>2, <2>3, <2>4, <2>5 DEF InProgress, Serial
  <2> QED BY <1>3, <2>1, <2>6 DEF InProgress
<1>9. ASSUME NEW m \in Report, Applies(m) \/ Refuses(m) \/ CatchesError(m) \/ Raises(m)
      PROVE  InProgress'
  <2>1. /\ View(m) \in Row /\ View(m).retries < MaxRetries
        /\ db[m] \in Row /\ Handled(m)
    BY <1>9, Running DEF Applies, Refuses, CatchesError, Raises
  <2>2. /\ Succeeded(View(m)).status # "in_progress" /\ Failed(View(m)).status # "in_progress"
        /\ Succeeded(db[m]).status # "in_progress"
    BY <2>1, FinishedRow, MarkRow DEF Succeeded
  <2>3. \E r \in {Succeeded(View(m)), Failed(View(m)), Succeeded(db[m])} : Adds(m, r) \/ Holds(m, r)
    BY <1>9 DEF Applies, Refuses, CatchesError, Raises
  <2>4. Serial'
    BY <2>1, <2>2, <2>3, ReturnIsSerial
  <2>5. \A k \in current : k = m
    BY <2>1 DEF Handled, InProgress, Serial
  <2>6. Owned
    <3>1. CASE Applies(m) /\ ~tenant
      <4>1. db' = Viewed /\ applied' = applied \cup {m}
        BY <3>1 DEF Applies
      <4> QED BY <1>2, <1>3, <2>5, <3>1, <4>1 DEF Viewed
    <3>2. CASE ~(Applies(m) /\ ~tenant)
      <4>1. db' = db /\ applied \subseteq applied'
        BY <1>9, <3>2 DEF Applies, Refuses, CatchesError, Raises, Undone
      <4> QED BY <1>3, <4>1 DEF InProgress
    <3> QED BY <3>1, <3>2
  <2> QED BY <2>4, <2>6 DEF InProgress
<1>10. ASSUME NEW m \in Report, BreaksSession(m) PROVE InProgress'
  BY <1>5, <1>10 DEF BreaksSession, Undone
<1>11. CASE RollbackPass \/ Restart
  BY <1>5, <1>11 DEF RollbackPass, Restart, Undone
<1>12. CASE CommitPass
  <2>1. current = {} /\ EndPass
    BY <1>12 DEF CommitPass, IInv, PassOrder
  <2>2. PICK purged \in SUBSET Report :
          /\ db' = [m \in Report |-> IF m \in purged THEN Absent ELSE View(m)]
          /\ applied' = applied \ purged
    BY <1>12 DEF CommitPass, Forgotten
  <2>3. Owned
    BY <1>1, <1>2, <1>3, <2>1, <2>2
  <2> QED BY <2>1, <2>3 DEF EndPass, Clean, InProgress, Serial
<1>13. ASSUME NEW m \in Report, DeleteExpired(m) PROVE InProgress'
  <2>1. UNCHANGED drainVars /\ applied' = applied \ {m} /\ db' = [db EXCEPT ![m] = Absent]
    BY <1>13 DEF DeleteExpired, Forgotten
  <2>2. \A k \in Report : db'[k] = IF k = m THEN Absent ELSE db[k]
    BY <2>1 DEF IInv, TypeOK
  <2> QED BY <1>4, <2>1, <2>2 DEF Absent
<1>14. CASE ChangeHost \/ UNCHANGED vars
  <2>1. UNCHANGED <<drainVars, db, applied>>
    BY <1>14 DEF ChangeHost, vars
  <2> QED BY <1>4, <2>1
<1>15. CASE Minute
  <2>1. UNCHANGED <<drainVars, applied>> /\ \A m \in Report : db'[m].status = db[m].status
    BY <1>15, OlderRow DEF Minute, IInv, TypeOK
  <2> QED BY <1>4, <2>1
<1>16. ASSUME NEW m \in Report, StoresPart(m) PROVE InProgress'
  <2>1. /\ m \in current /\ UNCHANGED <<pc, current>> /\ applied' = applied \cup {m}
        /\ \/ UNCHANGED <<db, tx, touched>>
           \/ ~tenant /\ db' = Viewed /\ touched' = {m}
    BY <1>16 DEF StoresPart, Holds
  <2>2. \A k \in current : k = m
    BY <2>1 DEF InProgress, Serial
  <2>3. CASE UNCHANGED <<db, tx, touched>>
    BY <1>3, <2>1, <2>3 DEF InProgress, Serial
  <2>4. CASE ~tenant /\ db' = Viewed /\ touched' = {m}
    <3>1. Serial'
      BY <2>1, <2>4 DEF InProgress, Serial
    <3>2. Owned
      BY <1>2, <1>3, <2>1, <2>2, <2>4 DEF Viewed
    <3> QED BY <3>1, <3>2 DEF InProgress
  <2> QED BY <2>1, <2>3, <2>4
<1> QED BY <1>6, <1>7, <1>8, <1>9, <1>10, <1>11, <1>12, <1>13, <1>14, <1>15, <1>16
        DEF Next, Drain, Disturb

LEMMA InProgressMeans ==
  ASSUME IInv, InProgress PROVE StuckIsRepeat /\ TenantNeverStuck
<1>1. ASSUME NEW m \in Report, db[m].status = "in_progress", pc = "idle" PROVE m \in lost
  <2>1. m \in applied /\ View(m).status # "completed"
    BY <1>1 DEF InProgress, IInv, PassOrder, View
  <2> QED BY <2>1 DEF IInv, StoredOnce
<1> QED BY <1>1 DEF InProgress, StuckIsRepeat, TenantNeverStuck

-----------------------------------------------------------------------------
(* The theorems.                                                           *)

\* Every open pass ends: each of its steps brings it nearer to its commit, no other step
\* sets it back, and it has never more steps left than the LIMIT of its query allows.
THEOREM PassesEnd == Spec => [][PassShrinks]_vars /\ []PassBounded
<1>1. Init => PassBounded
  BY InboundAssumption, FS_EmptySet DEF Init, PassBounded, StepsLeft
<1>2. IInv /\ PassBounded /\ [Next]_vars => PassBounded'
  BY BoundKept
<1>3. IInv /\ [Next]_vars => [PassShrinks]_vars
  BY StepShrinks
<1> QED BY <1>1, <1>2, <1>3, Invariant, PTL DEF Spec

\* While a pass is open one of its steps is possible, whatever the handlers commit and
\* the agent, the administrator and the clock do.
THEOREM PassesCanGoOn == Spec => []PassesGoOn
<1>1. Init => HandlerRuns
  BY DEF Init, HandlerRuns
<1>2. IInv /\ HandlerRuns /\ [Next]_vars => HandlerRuns'
  BY HandlerKept
<1> QED BY <1>1, <1>2, DrainCanGoOn, Invariant, PTL DEF Spec

\* Neither a report sent again nor a handler's commit or rollback brings a settled row back.
THEOREM FinishedStaysFinished == Spec => [][TerminalStable]_vars
<1>1. IInv /\ [Next]_vars => [TerminalStable]_vars
  BY StepKeepsSettled
<1> QED BY <1>1, Invariant, PTL DEF Spec

\* The reset of stuck rows only ever repeats reports of which something was stored, and has
\* nothing to do for the hosts of a tenant.
THEOREM ResetOnlyRepeats == Spec => [](StuckIsRepeat /\ TenantNeverStuck)
<1>1. Init => InProgress
  BY DEF Init, InProgress, Serial, Absent
<1>2. IInv /\ InProgress /\ [Next]_vars => InProgress'
  BY InProgressKept
<1> QED BY <1>1, <1>2, InProgressMeans, Invariant, PTL DEF Spec
=============================================================================
