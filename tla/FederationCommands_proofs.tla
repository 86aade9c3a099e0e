---------------------- MODULE FederationCommands_proofs ----------------------
(***************************************************************************)
(* Proofs about FederationCommands for every set of commands, hosts and    *)
(* requests, every number of attempts, rollups and faults.  The inductive  *)
(* invariant adds to the properties                                        *)
(*   Pushed    nothing is pushed or received that was not dispatched       *)
(*   RowOK     a queued verdict is the command's, a queued rollup the      *)
(*             newest                                                      *)
(*   SendingOK what the drain worker sends was queued, and what it was     *)
(*             told to be taken is known to the coordinator                *)
(*   Orders    what a host was sent for a command, and may still answer    *)
(*   Answers   whose results a command has, and how many it waits for      *)
(*   Verdicts  what the coordinator knows is what the site knows           *)
(*   Raised    a pull whose dispatch raised has failed for good            *)
(* A second part adds what no step takes back:                             *)
(*   SentRollupIsNewer  a rollup on its way is not older than the last one *)
(*   Unreported         no result before the fan-out                       *)
(***************************************************************************)
EXTENDS FederationCommands, FiniteSetTheorems, WellFoundedInduction, TLAPS

Pushed(c) ==
  /\ pushing[c] # "no" => status[c] # "none" /\ pushes[c] < MaxAttempts
  /\ inbox[c] # "none" => status[c] # "none"
  /\ c \in planned => inbox[c] # "none"

RowOK(k) ==
  queue[k] # NoRow =>
    IF k = Rollup THEN queue[k].value = snaps ELSE Reports(k) /\ inbox[k] = queue[k].value

SendingOK ==
  draining # NoRow =>
    LET k == draining.key IN
    /\ draining.row => queue[k] # NoRow /\ queue[k].attempts < MaxAttempts
    /\ k # Rollup =>
         /\ Reports(k) /\ inbox[k] = draining.value
         /\ draining.phase = "taken" => status[k] \in Verdict
    /\ k = Rollup =>
         /\ draining.value <= snaps
         /\ draining.phase = "sent" /\ rollup = snaps => draining.value = snaps
         /\ draining.phase = "taken" => rollup = draining.value

\* The pulls planned for a command whose tick has not failed.
Planned(c) == IF inbox[c] \in {"none", "queued"} /\ c \notin planned THEN 0 ELSE 1

Orders(c) ==
  /\ \A h \in Host : awaiting[c][h] <= ordered[c][h]
  /\ c \in planned => request[c].kind = "pull"
  /\ IF request[c].kind = "pull"
     THEN \A h \in Host : ordered[c][h] <= faults + Planned(c)
     ELSE \A h \in Host :
            /\ inbox[c] \in {"none", "queued"} => ordered[c][h] = 0
            /\ ordered[c][h] <= IF All(c) THEN 1 ELSE Times(c, h)

Waiting(c) ==
  /\ expected[c] > 0
  /\ Cardinality(Meant(c)) <= expected[c]
  /\ (\A h \in Host : Times(c, h) <= 1) => Cardinality(Meant(c)) = expected[c]
  /\ ~ Complete(expected[c], results[c])
  /\ c \notin unheard => \A h \in Meant(c) : awaiting[c][h] > 0 \/ results[c][h] # "none"

Answers(c) ==
  /\ Reported(results[c]) \subseteq Meant(c)
  /\ inbox[c] = "in_progress" => request[c].kind \in {"fleet", "pull"}
  /\ request[c].kind = "fleet" /\ inbox[c] = "in_progress" => Waiting(c)
  /\ ForAgents(c) /\ inbox[c] = "completed" => \A h \in Meant(c) : results[c][h] = "ok"
  /\ request[c].kind = "pull" /\ (c \in planned \/ inbox[c] = "in_progress")
       => awaiting[c][Mirror] > 0 \/ c \in unheard

Verdicts(c) ==
  /\ status[c] = "completed" => Reports(c) /\ inbox[c] = "completed"
  /\ status[c] = "failed" => GivenUp(c) \/ (Reports(c) /\ inbox[c] = "failed")

\* What a pull whose dispatch raised leaves behind.
Raised(c) ==
  c \in raised => ~ ForAgents(c) /\ inbox[c] = "failed" /\ c \notin planned

IInv ==
  /\ TypeOK
  /\ \A c \in Command : Pushed(c) /\ Orders(c) /\ Answers(c) /\ Verdicts(c) /\ Raised(c)
  /\ \A k \in Key : RowOK(k)
  /\ SendingOK
  /\ rollup <= snaps
  /\ SettledIsReported
  /\ NewestRollupKept

-----------------------------------------------------------------------------
(* The sync queue.                                                         *)

QueueType(q) == DOMAIN q = Key /\ \A k \in Key : q[k] = NoRow \/ q[k] \in Row(Payload(k))

\* A row is not NoRow, and its fields.
LEMMA RowFields ==
  ASSUME NEW k \in Key, NEW r \in Row(Payload(k))
  PROVE  r # NoRow /\ r.value \in Payload(k) /\ r.attempts \in 0..MaxAttempts /\ r.at \in Nat
BY CommandsAssumption DEF Row

LEMMA SendingFields ==
  ASSUME NEW k \in Key, NEW d \in Sending(k)
  PROVE  /\ d # NoRow /\ d.key = k /\ d.value \in Payload(k)
         /\ d.phase \in {"sent", "taken", "refused"} /\ d.row \in BOOLEAN
BY CommandsAssumption DEF Sending

LEMMA QueueTyped == TypeOK => QueueType(queue)
BY DEF TypeOK, QueueType, Queued

LEMMA QueueTypedNext ==
  ASSUME QueueType(queue')
  PROVE  DOMAIN queue' = Key /\ \A k \in Queued(queue') : queue'[k] \in Row(Payload(k))
BY DEF QueueType, Queued

\* A row that is written, and the others.
LEMMA EnqueueRow ==
  ASSUME NEW q, QueueType(q), NEW k \in Key, NEW v \in Payload(k), NEW t \in Nat
  PROVE  /\ QueueType(Enqueue(q, k, v, t))
         /\ Enqueue(q, k, v, t)[k] # NoRow
         /\ Enqueue(q, k, v, t)[k].value = v
         /\ Enqueue(q, k, v, t)[k].attempts < MaxAttempts
         /\ \A j \in Key \ {k} : Enqueue(q, k, v, t)[j] = q[j]
<1> DEFINE r == [value |-> v, attempts |-> 0, at |-> t]
<1>1. r \in Row(Payload(k)) /\ 0 < MaxAttempts
  BY AttemptsAssumption DEF Row
<1>2. Enqueue(q, k, v, t)[k] = r
  BY DEF Enqueue, QueueType
<1>3. DOMAIN Enqueue(q, k, v, t) = Key /\ \A j \in Key \ {k} : Enqueue(q, k, v, t)[j] = q[j]
  BY DEF Enqueue, QueueType
<1>4. r # NoRow /\ r.value = v /\ r.attempts = 0
  BY <1>1, RowFields
<1>5. QueueType(Enqueue(q, k, v, t))
  BY <1>1, <1>2, <1>3 DEF QueueType
<1> HIDE DEF r
<1> QED BY <1>1, <1>2, <1>3, <1>4, <1>5

\* A row that was sent is gone.
LEMMA MarkSentRow ==
  ASSUME NEW q, QueueType(q), NEW k \in Key
  PROVE  /\ QueueType(MarkSent(q, k))
         /\ MarkSent(q, k)[k] = NoRow
         /\ \A j \in Key \ {k} : MarkSent(q, k)[j] = q[j]
BY DEF MarkSent, QueueType

\* A row that failed has one attempt less, and the value it had.
LEMMA MarkFailedRow ==
  ASSUME NEW q, QueueType(q), NEW k \in Key, q[k] # NoRow, q[k].attempts < MaxAttempts
  PROVE  /\ QueueType(MarkFailed(q, k))
         /\ MarkFailed(q, k)[k] # NoRow
         /\ MarkFailed(q, k)[k].value = q[k].value
         /\ \A j \in Key \ {k} : MarkFailed(q, k)[j] = q[j]
<1> DEFINE r == [q[k] EXCEPT !.attempts = @ + 1]
<1>1. q[k] \in Row(Payload(k)) /\ MaxAttempts \in Nat
  BY AttemptsAssumption DEF QueueType
<1>2. r \in Row(Payload(k)) /\ r.value = q[k].value
  BY <1>1 DEF Row
<1>3. MarkFailed(q, k)[k] = r
  BY DEF MarkFailed, QueueType
<1>4. DOMAIN MarkFailed(q, k) = Key /\ \A j \in Key \ {k} : MarkFailed(q, k)[j] = q[j]
  BY DEF MarkFailed, QueueType
<1>5. r # NoRow
  BY <1>2, RowFields
<1> HIDE DEF r
<1>6. QueueType(MarkFailed(q, k))
  BY <1>2, <1>3, <1>4 DEF QueueType
<1> QED BY <1>2, <1>3, <1>4, <1>5, <1>6

\* A purge takes rows that are queued, and leaves the others as they are.
LEMMA PurgedRows ==
  ASSUME NEW q, QueueType(q), NEW keep
  PROVE  /\ QueueType(PurgeOldest(q, keep))
         /\ TooMany(q, keep) \subseteq Key
         /\ \A k \in Key : PurgeOldest(q, keep)[k] = IF k \in TooMany(q, keep) THEN NoRow ELSE q[k]
BY DEF PurgeOldest, TooMany, Queued, QueueType

LEMMA InstantsNat ==
  ASSUME TypeOK
  PROVE  Instants \subseteq Nat
<1> SUFFICES ASSUME NEW t \in Instants PROVE t \in Nat
  OBVIOUS
<1>1. t = 0 \/ \E k \in Queued(queue), d \in 0..1 : t = queue[k].at + d
  BY DEF Instants
<1>2. \A k \in Queued(queue) : queue[k].at \in Nat
  BY DEF TypeOK, Row
<1> QED BY <1>1, <1>2

\* A verdict that is queued for the coordinator.
LEMMA ReportRow ==
  ASSUME TypeOK, NEW c \in Command, NEW v \in Verdict, Report(c, v)
  PROVE  /\ QueueType(queue')
         /\ queue'[c] # NoRow /\ queue'[c].value = v /\ queue'[c].attempts < MaxAttempts
         /\ \A k \in Key \ {c} : queue'[k] = queue[k]
         /\ draining' = draining /\ snaps' = snaps /\ dropped' = dropped
<1>1. PICK t \in Instants : queue' = Enqueue(queue, c, v, t)
  BY DEF Report
<1>2. t \in Nat /\ c \in Key /\ v \in Payload(c) /\ QueueType(queue)
  BY InstantsNat, QueueTyped, CommandsAssumption DEF Key, Payload
<1>3. /\ QueueType(Enqueue(queue, c, v, t))
      /\ Enqueue(queue, c, v, t)[c] # NoRow
      /\ Enqueue(queue, c, v, t)[c].value = v
      /\ Enqueue(queue, c, v, t)[c].attempts < MaxAttempts
      /\ \A j \in Key \ {c} : Enqueue(queue, c, v, t)[j] = queue[j]
  BY <1>2, EnqueueRow
<1> QED BY <1>1, <1>3 DEF Report

-----------------------------------------------------------------------------
(* Types.                                                                  *)

SendingType(d) == d # NoRow => d.key \in Key /\ d \in Sending(d.key)

LEMMA TypeInit == Init => TypeOK
BY CommandsAssumption, AttemptsAssumption DEF Init, TypeOK, Queued

\* The coordinator's own steps.
LEMMA TypeCoordinator ==
  ASSUME TypeOK, NEW c \in Command, Pushed(c),
         Dispatch(c) \/ PushStart(c) \/ PushOk(c) \/ PushFail(c)
  PROVE  TypeOK'
<1> USE DEF TypeOK, inboxVars, queueVars
<1>1. CASE Dispatch(c)
  BY <1>1 DEF Dispatch
<1>2. CASE PushStart(c)
  BY <1>2 DEF PushStart
<1>3. CASE PushOk(c)
  BY <1>3 DEF PushOk
<1>4. CASE PushFail(c)
  <2>1. pushes[c] \in 0..MaxAttempts /\ pushes[c] < MaxAttempts /\ MaxAttempts \in Nat
    BY <1>4, AttemptsAssumption DEF PushFail, Pushed
  <2>2. pushes[c] + 1 \in 0..MaxAttempts
    BY <2>1
  <2> QED BY <1>4, <2>2 DEF PushFail, Verdict
<1> QED BY <1>1, <1>2, <1>3, <1>4

LEMMA TypeFaults ==
  ASSUME TypeOK, faults < MaxFaults, faults' = faults + 1
  PROVE  faults' \in 0..MaxFaults
BY CommandsAssumption DEF TypeOK

LEMMA TypeSites ==
  ASSUME TypeOK, Suspend \/ Resume \/ Remove \/ CoordRestart
  PROVE  TypeOK'
<1> USE DEF TypeOK, coordVars, inboxVars, queueVars
<1>1. CASE Suspend \/ Resume \/ Remove
  BY <1>1 DEF Suspend, Resume, Remove
<1>2. CASE CoordRestart
  BY <1>2, TypeFaults DEF CoordRestart
<1> QED BY <1>1, <1>2

\* A row arrives.
LEMMA TypeIngest ==
  ASSUME TypeOK, Ingest
  PROVE  TypeOK'
<1>1. draining # NoRow /\ draining.key \in Key /\ draining \in Sending(draining.key)
  BY DEF TypeOK, Ingest
<1>2. SendingType(draining')
  <2>1. \E p \in {"taken", "refused"} : draining' = [draining EXCEPT !.phase = p]
    BY DEF Ingest
  <2>2. PICK p \in {"taken", "refused"} : draining' = [draining EXCEPT !.phase = p]
    BY <2>1
  <2>3. draining' \in Sending(draining.key) /\ draining'.key = draining.key
    BY <1>1, <2>2 DEF Sending
  <2> QED BY <1>1, <2>3 DEF SendingType
<1>3. CASE draining.key = Rollup
  <2>1. rollup' \in Nat /\ status' = status
    BY <1>1, <1>3, SendingFields DEF Ingest, Payload, TypeOK
  <2> QED BY <1>2, <2>1 DEF Ingest, TypeOK, SendingType, inboxVars
<1>4. CASE draining.key # Rollup
  <2>1. draining.value \in Verdict /\ draining.key \in Command
    BY <1>1, <1>4, SendingFields DEF Payload, Key
  <2>2. status' \in [Command -> {"none", "queued_at_site", "in_progress"} \cup Verdict] /\ rollup' = rollup
    BY <1>4, <2>1 DEF Ingest, TypeOK
  <2> QED BY <1>2, <2>2 DEF Ingest, TypeOK, SendingType, inboxVars
<1> QED BY <1>3, <1>4

\* The queue is typed by QueueType, the row that is being sent by SendingType.
LEMMA TypeQueueVars ==
  ASSUME TypeOK, QueueType(queue'), SendingType(draining'), snaps' \in Nat, dropped' \subseteq Key,
         UNCHANGED <<siteStatus, coordVars, inboxVars, faults>>
  PROVE  TypeOK'
BY QueueTypedNext DEF TypeOK, SendingType, coordVars, inboxVars

LEMMA TypeDrain ==
  ASSUME TypeOK, SendingOK,
         Snapshot \/ (\E k \in Key : DrainStart(k)) \/ DrainOk \/ DrainFail
           \/ \E keep \in 0..Cardinality(Key) : Purge(keep)
  PROVE  TypeOK'
<1>0. /\ QueueType(queue) /\ SendingType(draining) /\ snaps \in Nat /\ dropped \subseteq Key
      /\ SendingType(NoRow) /\ Rollup \in Key
  BY QueueTyped DEF TypeOK, SendingType, Key
<1>1. CASE Snapshot
  <2>1. PICK t \in Instants : queue' = Enqueue(queue, Rollup, snaps', t)
    BY <1>1 DEF Snapshot
  <2>2. snaps' \in Payload(Rollup) /\ t \in Nat /\ snaps' \in Nat
    BY <1>0, <1>1, InstantsNat DEF Snapshot, Payload
  <2>3. QueueType(queue')
    BY <1>0, <2>1, <2>2, EnqueueRow
  <2> QED BY <1>0, <1>1, <2>2, <2>3, TypeQueueVars DEF Snapshot
<1>2. ASSUME NEW k \in Key, DrainStart(k) PROVE TypeOK'
  <2>1. queue[k] \in Row(Payload(k))
    BY <1>0, <1>2 DEF DrainStart, Ready, Queued, QueueType
  <2>2. draining' \in Sending(k) /\ draining'.key = k
    BY <1>2, <2>1, RowFields DEF DrainStart, Sending
  <2>3. SendingType(draining')
    BY <2>2 DEF SendingType
  <2> QED BY <1>0, <1>2, <2>3, TypeQueueVars DEF DrainStart
<1>3. CASE DrainOk
  <2>1. draining.key \in Key
    BY <1>0, <1>3 DEF DrainOk, SendingType
  <2>2. QueueType(queue') /\ dropped' \subseteq Key
    BY <1>0, <1>3, <2>1, MarkSentRow DEF DrainOk
  <2> QED BY <1>0, <1>3, <2>2, TypeQueueVars DEF DrainOk
<1>4. CASE DrainFail
  <2>1. draining.key \in Key
    BY <1>0, <1>4 DEF DrainFail, SendingType
  <2>2. QueueType(queue')
    BY <1>0, <1>4, <2>1, MarkFailedRow DEF DrainFail, SendingOK
  <2> QED BY <1>0, <1>4, <2>2, TypeQueueVars DEF DrainFail
<1>5. ASSUME NEW keep \in 0..Cardinality(Key), Purge(keep) PROVE TypeOK'
  <2>1. QueueType(queue') /\ dropped' \subseteq Key
    BY <1>0, <1>5, PurgedRows DEF Purge
  <2>2. SendingType(draining')
    <3>1. CASE draining' = draining
      BY <1>0, <3>1
    <3>2. CASE draining # NoRow /\ draining' = [draining EXCEPT !.row = FALSE]
      BY <1>0, <3>2 DEF SendingType, Sending
    <3> QED BY <1>5, <3>1, <3>2 DEF Purge
  <2> QED BY <1>0, <1>5, <2>1, <2>2, TypeQueueVars DEF Purge
<1> QED BY <1>1, <1>2, <1>3, <1>4, <1>5

\* The steps of the site that leave the sync queue alone.
LEMMA TypeSite ==
  ASSUME TypeOK, NEW c \in Command, Orders(c),
         \/ SiteReceive(c) \/ PullPlan(c) \/ PullCommit(c) \/ PullAbort(c) \/ PullRefused(c)
         \/ (\E h \in Host : ResultLost(c, h)) \/ (\E v \in Verdict : PullResult(c, v)) \/ SiteRestart
  PROVE  TypeOK'
<1> USE DEF TypeOK, coordVars, queueVars
<1>1. CASE SiteReceive(c)
  BY <1>1 DEF SiteReceive, Accepted
<1>2. CASE PullPlan(c)
  BY <1>2, CommandsAssumption DEF PullPlan
<1>3. CASE PullCommit(c)
  BY <1>3 DEF PullCommit
<1>4. CASE PullAbort(c)
  BY <1>4, TypeFaults DEF PullAbort
<1>5. CASE PullRefused(c)
  BY <1>5 DEF PullRefused, Verdict
<1>6. ASSUME NEW h \in Host, ResultLost(c, h) PROVE TypeOK'
  <2>1. awaiting[c][h] - 1 \in Nat
    BY <1>6 DEF ResultLost
  <2> QED BY <1>6, <2>1, TypeFaults DEF ResultLost, Heard
<1>7. ASSUME NEW v \in Verdict, PullResult(c, v) PROVE TypeOK'
  <2>1. awaiting[c][Mirror] - 1 \in Nat
    BY <1>7, CommandsAssumption DEF PullResult
  <2> QED BY <1>7, <2>1, CommandsAssumption DEF PullResult, Heard, Verdict
<1>8. CASE SiteRestart
  BY <1>8, TypeFaults DEF SiteRestart
<1> QED BY <1>1, <1>2, <1>3, <1>4, <1>5, <1>6, <1>7, <1>8

-----------------------------------------------------------------------------
(* The targets of a command.                                               *)

LEMMA Targets ==
  ASSUME TypeOK, NEW c \in Command
  PROVE  /\ request[c].kind \in Kind
         /\ request[c].targets \in Seq(Host)
         /\ DOMAIN request[c].targets = 1..Len(request[c].targets)
         /\ Len(request[c].targets) \in Nat
         /\ Listed(c) \subseteq Host
         /\ All(c) => Listed(c) = {}
<1>1. request[c] \in [kind : Kind, targets : Seq(Host)]
  BY CommandsAssumption DEF TypeOK
<1>2. request[c].targets \in Seq(Host)
  BY <1>1
<1> QED BY <1>1, <1>2 DEF Listed, All, Range

LEMMA HostSets ==
  ASSUME NEW S \in SUBSET Host
  PROVE  IsFiniteSet(S) /\ Cardinality(S) \in Nat
BY CommandsAssumption, FS_Subset, FS_CardinalityType

\* How often a host is listed.
LEMMA TimesListed ==
  ASSUME TypeOK, NEW c \in Command, NEW h \in Host
  PROVE  Times(c, h) \in Nat /\ (Times(c, h) > 0 <=> h \in Listed(c))
<1> DEFINE s == request[c].targets  at == {i \in DOMAIN s : s[i] = h}
<1>1. IsFiniteSet(1..Len(s)) /\ DOMAIN s = 1..Len(s)
  BY Targets, FS_Interval
<1>2. IsFiniteSet(at) /\ Cardinality(at) \in Nat
  BY <1>1, FS_Subset, FS_CardinalityType
<1>3. Cardinality(at) = 0 <=> at = {}
  BY <1>2, FS_EmptySet
<1>4. at = {} <=> h \notin Listed(c)
  BY DEF Listed, Range
<1>5. Times(c, h) = Cardinality(at)
  BY DEF Times
<1> HIDE DEF at, s
<1> QED BY <1>2, <1>3, <1>4, <1>5

LEMMA PairCount ==
  ASSUME NEW i, NEW j, i # j
  PROVE  Cardinality({i, j}) = 2
<1>1. IsFiniteSet({i}) /\ Cardinality({i}) = 1
  BY FS_Singleton
<1>2. Cardinality({i} \cup {j}) = IF j \in {i} THEN Cardinality({i}) ELSE Cardinality({i}) + 1
  BY <1>1, FS_AddElement
<1>3. {i, j} = {i} \cup {j} /\ j \notin {i}
  OBVIOUS
<1> QED BY <1>1, <1>2, <1>3

\* A list is as long as it has hosts unless it names one twice.
LEMMA ListedCount ==
  ASSUME TypeOK, NEW c \in Command
  PROVE  /\ Cardinality(Listed(c)) <= Len(request[c].targets)
         /\ (\A h \in Host : Times(c, h) <= 1) => Cardinality(Listed(c)) = Len(request[c].targets)
<1> DEFINE s == request[c].targets  n == Len(s)
<1>1. s \in Seq(Host) /\ DOMAIN s = 1..n /\ n \in Nat
  BY Targets
<1>2. IsFiniteSet(1..n) /\ Cardinality(1..n) = n
  BY <1>1, FS_Interval
<1>3. s \in Surjection(1..n, Listed(c))
  BY <1>1 DEF Listed, Range, Surjection
<1>4. /\ Cardinality(Listed(c)) <= n
      /\ Cardinality(Listed(c)) = n <=> s \in Injection(1..n, Listed(c))
  BY <1>2, <1>3, FS_Surjection
<1>5. ASSUME \A h \in Host : Times(c, h) <= 1 PROVE s \in Injection(1..n, Listed(c))
  <2>1. ASSUME NEW i \in 1..n, NEW j \in 1..n, s[i] = s[j], i # j PROVE FALSE
    <3> DEFINE at == {k \in DOMAIN s : s[k] = s[i]}
    <3>1. s[i] \in Host
      BY <1>1
    <3>2. Cardinality(at) <= 1
      BY <1>5, <3>1 DEF Times
    <3>3. i \in at /\ j \in at /\ IsFiniteSet(at)
      BY <1>1, <1>2, <2>1, FS_Subset
    <3> DEFINE two == {i, j}
    <3>4. two \subseteq at
      BY <3>3
    <3> HIDE DEF at, two
    <3>5. Cardinality(two) = 2
      BY <2>1, PairCount DEF two
    <3>6. Cardinality(two) <= Cardinality(at) /\ Cardinality(at) \in Nat
      BY <3>3, <3>4, FS_Subset, FS_CardinalityType
    <3> QED BY <3>2, <3>5, <3>6
  <2> QED BY <1>3, <2>1 DEF Surjection, Injection, IsInjective
<1> QED BY <1>4, <1>5

-----------------------------------------------------------------------------
(* The fan-out and the answers.                                            *)

Messages(c, here) ==
  [h \in Host |-> IF h \notin here THEN 0 ELSE IF All(c) THEN 1 ELSE Times(c, h)]
Missing(c, here) == [h \in Host |-> IF h \in Listed(c) \ here THEN "bad" ELSE "none"]
Size(c, here) == IF All(c) THEN Cardinality(here) ELSE Len(request[c].targets)

Results == [Host -> {"none", "ok", "bad"}]

\* A command is closed with a verdict, or waits on.
Closes(c, v) == inbox' = [inbox EXCEPT ![c] = v] /\ Report(c, v)
WaitsOn(c) == inbox' = [inbox EXCEPT ![c] = "in_progress"] /\ UNCHANGED queueVars

LEMMA Settled ==
  ASSUME NEW c \in Command, NEW n, NEW r, Settle(c, n, r)
  PROVE  \/ Complete(n, r) /\ Closes(c, VerdictOf(r)) /\ VerdictOf(r) \in Verdict
         \/ ~ Complete(n, r) /\ WaitsOn(c)
BY DEF Settle, Closes, WaitsOn, VerdictOf, Verdict

LEMMA FanOutCases ==
  ASSUME NEW c \in Command, NEW here, FanOut(c, here)
  PROVE  /\ inbox[c] = "queued" /\ request[c].kind = "fleet"
         /\ UNCHANGED <<siteStatus, coordVars, planned, unheard, raised, faults>>
         /\ \/ /\ Closes(c, "failed")
               /\ UNCHANGED <<expected, results, awaiting, ordered>>
            \/ /\ Size(c, here) # 0
               /\ expected' = [expected EXCEPT ![c] = Size(c, here)]
               /\ results' = [results EXCEPT ![c] = Missing(c, here)]
               /\ awaiting' = [awaiting EXCEPT ![c] = [h \in Host |-> @[h] + Messages(c, here)[h]]]
               /\ ordered' = [ordered EXCEPT ![c] = [h \in Host |-> @[h] + Messages(c, here)[h]]]
               /\ \/ (\E h \in Host : Messages(c, here)[h] # 0) /\ WaitsOn(c)
                  \/ Settle(c, Size(c, here), Missing(c, here))
BY DEF FanOut, FailCommand, Closes, WaitsOn, Size, Missing, Messages

LEMMA FanOutEnds ==
  ASSUME NEW c \in Command, NEW here, FanOut(c, here)
  PROVE  WaitsOn(c) \/ \E v \in Verdict : Closes(c, v)
BY FanOutCases, Settled DEF Verdict

LEMMA HostResultCases ==
  ASSUME TypeOK, NEW c \in Command, NEW h \in Host, NEW r, HostResult(c, h, r)
  PROVE  /\ request[c].kind = "fleet" /\ awaiting[c][h] > 0
         /\ UNCHANGED <<siteStatus, coordVars, expected, planned, ordered, unheard, raised, faults>>
         /\ Heard(c, h)
         /\ \/ inbox[c] \in Verdict /\ UNCHANGED <<inbox, results, queueVars>>
            \/ /\ inbox[c] \notin Verdict
               /\ results' = [results EXCEPT ![c][h] = r]
               /\ results'[c] = [results[c] EXCEPT ![h] = r]
               /\ Settle(c, expected[c], results'[c])
BY DEF HostResult, TypeOK

\* A step that closes a command or lets it wait, as far as the types go.
LEMMA TypeSettled ==
  ASSUME TypeOK, NEW c \in Command,
         WaitsOn(c) \/ \E v \in Verdict : Closes(c, v)
  PROVE  /\ inbox' \in [Command -> {"none", "queued", "in_progress"} \cup Verdict]
         /\ DOMAIN queue' = Key /\ \A k \in Queued(queue') : queue'[k] \in Row(Payload(k))
         /\ draining' # NoRow => draining'.key \in Key /\ draining' \in Sending(draining'.key)
         /\ snaps' \in Nat /\ dropped' \subseteq Key
<1>1. CASE WaitsOn(c)
  BY <1>1 DEF WaitsOn, queueVars, TypeOK
<1>2. CASE \E v \in Verdict : Closes(c, v)
  <2>1. PICK v \in Verdict : Closes(c, v)
    BY <1>2
  <2>2. QueueType(queue') /\ draining' = draining /\ snaps' = snaps /\ dropped' = dropped
    BY <2>1, ReportRow DEF Closes
  <2> QED BY <2>1, <2>2, QueueTypedNext DEF Closes, TypeOK
<1> QED BY <1>1, <1>2

\* The numbers of a fan-out.
LEMMA FanOutNumbers ==
  ASSUME TypeOK, NEW c \in Command, NEW here \in SUBSET Host
  PROVE  /\ Size(c, here) \in Nat
         /\ Messages(c, here) \in [Host -> Nat]
         /\ Missing(c, here) \in Results
         /\ Reported(Missing(c, here)) = Listed(c) \ here
         /\ \A h \in Host : Messages(c, here)[h] <= IF All(c) THEN 1 ELSE Times(c, h)
BY Targets, HostSets, TimesListed DEF Size, Messages, Missing, Results, Reported

LEMMA TypeFanOut ==
  ASSUME TypeOK, NEW c \in Command, NEW here \in SUBSET Host, FanOut(c, here)
  PROVE  TypeOK'
<1>1. WaitsOn(c) \/ \E v \in Verdict : Closes(c, v)
  BY FanOutEnds
<1>2. /\ inbox' \in [Command -> {"none", "queued", "in_progress"} \cup Verdict]
      /\ DOMAIN queue' = Key /\ \A k \in Queued(queue') : queue'[k] \in Row(Payload(k))
      /\ draining' # NoRow => draining'.key \in Key /\ draining' \in Sending(draining'.key)
      /\ snaps' \in Nat /\ dropped' \subseteq Key
  BY <1>1, TypeSettled
<1>3. /\ expected' \in [Command -> Nat] /\ results' \in [Command -> Results]
      /\ awaiting' \in [Command -> [Host -> Nat]] /\ ordered' \in [Command -> [Host -> Nat]]
  <2>1. /\ Size(c, here) \in Nat /\ Messages(c, here) \in [Host -> Nat]
        /\ Missing(c, here) \in Results
    BY FanOutNumbers
  <2>2. CASE UNCHANGED <<expected, results, awaiting, ordered>>
    BY <2>2 DEF TypeOK, Results
  <2>3. CASE /\ expected' = [expected EXCEPT ![c] = Size(c, here)]
             /\ results' = [results EXCEPT ![c] = Missing(c, here)]
             /\ awaiting' = [awaiting EXCEPT ![c] = [h \in Host |-> @[h] + Messages(c, here)[h]]]
             /\ ordered' = [ordered EXCEPT ![c] = [h \in Host |-> @[h] + Messages(c, here)[h]]]
    BY <2>1, <2>3 DEF TypeOK, Results
  <2> QED BY <2>2, <2>3, FanOutCases
<1> QED BY <1>2, <1>3, FanOutCases DEF TypeOK, Results, coordVars

LEMMA TypeHostResult ==
  ASSUME TypeOK, NEW c \in Command, NEW h \in Host, NEW r \in {"ok", "bad"}, HostResult(c, h, r)
  PROVE  TypeOK'
<1>0. /\ awaiting[c][h] > 0 /\ awaiting' = [awaiting EXCEPT ![c][h] = @ - 1]
      /\ results' = results \/ results' = [results EXCEPT ![c][h] = r]
  BY DEF HostResult, Heard
<1>1. results' \in [Command -> [Host -> {"none", "ok", "bad"}]]
  <2>1. results \in [Command -> [Host -> {"none", "ok", "bad"}]]
    BY DEF TypeOK
  <2> QED BY <1>0, <2>1
<1>2. awaiting' \in [Command -> [Host -> Nat]]
  <2>1. awaiting[c][h] - 1 \in Nat /\ awaiting \in [Command -> [Host -> Nat]]
    BY <1>0 DEF TypeOK
  <2> QED BY <1>0, <2>1
<1>3. CASE UNCHANGED <<inbox, queueVars>>
  BY <1>1, <1>2, <1>3, HostResultCases DEF TypeOK, coordVars, queueVars
<1>4. CASE Settle(c, expected[c], results'[c])
  <2>1. WaitsOn(c) \/ \E v \in Verdict : Closes(c, v)
    BY <1>4, Settled
  <2> QED BY <1>1, <1>2, <2>1, TypeSettled, HostResultCases DEF TypeOK, coordVars
<1> QED BY <1>3, <1>4, HostResultCases

LEMMA TypeRefused ==
  ASSUME TypeOK, NEW c \in Command, FanOutRefused(c) \/ PullRaises(c)
  PROVE  TypeOK'
<1>1. Closes(c, "failed")
  BY DEF FanOutRefused, PullRaises, FailCommand, Closes
<1> QED BY <1>1, TypeSettled DEF FanOutRefused, PullRaises, TypeOK, coordVars, Verdict

LEMMA TypeStep ==
  ASSUME IInv, Next
  PROVE  TypeOK'
<1>1. TypeOK /\ SendingOK /\ \A c \in Command : Pushed(c) /\ Orders(c)
  BY DEF IInv
<1>2. ASSUME SiteRestart PROVE TypeOK'
  BY <1>1, <1>2, TypeFaults DEF SiteRestart, TypeOK, coordVars
<1> QED
  BY <1>1, <1>2, TypeCoordinator, TypeSites, TypeIngest, TypeDrain, TypeSite, TypeFanOut,
     TypeHostResult, TypeRefused
  DEF Next, PushEnds, DrainEnds

-----------------------------------------------------------------------------
(* Who is waited for.                                                      *)

\* The hosts a fan-out is meant for, when it is done.
LEMMA FanOutMeant ==
  ASSUME TypeOK, NEW c \in Command, NEW here \in SUBSET Host,
         NEW o \in [Host -> Nat], \A h \in Host : o[h] = Messages(c, here)[h]
  PROVE  LET meant == Listed(c) \cup {h \in Host : o[h] > 0} IN
         /\ meant = IF All(c) THEN here ELSE Listed(c)
         /\ meant \in SUBSET Host
         /\ Cardinality(meant) <= Size(c, here)
         /\ (\A h \in Host : Times(c, h) <= 1) => Cardinality(meant) = Size(c, here)
         /\ \A h \in meant : o[h] > 0 \/ Missing(c, here)[h] # "none"
<1> DEFINE meant == Listed(c) \cup {h \in Host : o[h] > 0}
<1>1. CASE All(c)
  <2>1. Listed(c) = {} /\ \A h \in Host : o[h] = IF h \in here THEN 1 ELSE 0
    BY <1>1, Targets DEF Messages
  <2>2. meant = here /\ \A h \in meant : o[h] > 0
    BY <2>1
  <2>3. Size(c, here) = Cardinality(here) /\ Cardinality(here) \in Nat
    BY <1>1, HostSets DEF Size
  <2> HIDE DEF meant
  <2> QED BY <1>1, <2>2, <2>3 DEF meant
<1>2. CASE ~ All(c)
  <2>1. \A h \in Host : o[h] = IF h \in here THEN Times(c, h) ELSE 0
    BY <1>2 DEF Messages
  <2>2. meant = Listed(c)
    BY <2>1, Targets, TimesListed
  <2>3. ASSUME NEW h \in meant PROVE o[h] > 0 \/ Missing(c, here)[h] # "none"
    <3>1. h \in Host /\ h \in Listed(c)
      BY <2>2, <2>3, Targets
    <3> QED BY <2>1, <3>1, TimesListed DEF Missing
  <2>4. Size(c, here) = Len(request[c].targets)
    BY <1>2 DEF Size
  <2> HIDE DEF meant
  <2>5. /\ Cardinality(meant) <= Size(c, here)
        /\ (\A h \in Host : Times(c, h) <= 1) => Cardinality(meant) = Size(c, here)
    BY <2>2, <2>4, ListedCount
  <2> QED BY <1>2, <2>2, <2>3, <2>5, Targets DEF meant
<1> QED BY <1>1, <1>2

\* If an answer is to come the fan-out is not complete.
LEMMA FanOutIncomplete ==
  ASSUME TypeOK, NEW c \in Command, NEW here \in SUBSET Host, Size(c, here) # 0,
         NEW h \in Host, Messages(c, here)[h] # 0
  PROVE  ~ Complete(Size(c, here), Missing(c, here))
<1>1. Reported(Missing(c, here)) = Listed(c) \ here /\ h \in here /\ Size(c, here) \in Nat
  BY FanOutNumbers DEF Messages
<1>2. CASE All(c)
  <2>1. Listed(c) \ here = {}
    BY <1>2, Targets
  <2>2. Cardinality(Listed(c) \ here) = 0
    BY <2>1, FS_EmptySet
  <2> QED BY <1>1, <2>2 DEF Complete
<1>3. CASE ~ All(c)
  <2> DEFINE missing == Listed(c) \ here
  <2>1. h \in Listed(c)
    BY <1>1, <1>3, TimesListed DEF Messages
  <2>2. missing \in SUBSET Listed(c) /\ missing # Listed(c) /\ IsFiniteSet(Listed(c))
    BY <1>1, <2>1, Targets, HostSets
  <2>3. /\ Cardinality(missing) <= Cardinality(Listed(c)) /\ Cardinality(missing) # Cardinality(Listed(c))
        /\ Cardinality(missing) \in Nat /\ Cardinality(Listed(c)) \in Nat
    BY <2>2, FS_Subset, FS_CardinalityType
  <2>4. Cardinality(Listed(c)) <= Size(c, here)
    BY <1>3, ListedCount DEF Size
  <2> HIDE DEF missing
  <2>5. ~ (Cardinality(missing) >= Size(c, here))
    BY <1>1, <2>3, <2>4
  <2> QED BY <1>1, <2>5 DEF Complete, missing
<1> QED BY <1>2, <1>3

\* A command that is complete has heard of every host it is meant for.
LEMMA CompleteMeansAll ==
  ASSUME NEW n \in Nat, NEW r, NEW M \in SUBSET Host, Reported(r) \subseteq M, Cardinality(M) <= n,
         Complete(n, r)
  PROVE  Reported(r) = M
<1>1. IsFiniteSet(M) /\ Reported(r) \in SUBSET M
  BY HostSets
<1>2. /\ Cardinality(Reported(r)) <= Cardinality(M)
      /\ Cardinality(M) = Cardinality(Reported(r)) => M = Reported(r)
      /\ Cardinality(M) \in Nat /\ Cardinality(Reported(r)) \in Nat
  BY <1>1, FS_Subset, FS_CardinalityType
<1>3. Cardinality(Reported(r)) >= n
  BY DEF Complete
<1> QED BY <1>2, <1>3

\* ... and its verdict is "completed" if all of them succeeded.
LEMMA CompletedMeansOk ==
  ASSUME NEW n \in Nat, NEW r \in Results, NEW M \in SUBSET Host, Reported(r) \subseteq M,
         Cardinality(M) <= n, Complete(n, r), VerdictOf(r) = "completed"
  PROVE  \A h \in M : r[h] = "ok"
<1>1. Reported(r) = M
  BY CompleteMeansAll
<1>2. \A h \in M : r[h] # "none" /\ r[h] # "bad" /\ r[h] \in {"none", "ok", "bad"}
  BY <1>1 DEF Reported, VerdictOf, Results
<1> QED BY <1>2

-----------------------------------------------------------------------------
(* The site.                                                               *)

\* What the site keeps of a command.
Same(c) ==
  /\ request' = request
  /\ inbox'[c] = inbox[c] /\ expected'[c] = expected[c] /\ results'[c] = results[c]
  /\ awaiting'[c] = awaiting[c] /\ ordered'[c] = ordered[c]
  /\ c \in planned' <=> c \in planned
  /\ c \in unheard' <=> c \in unheard
  /\ faults' >= faults

\* The targets do not change, and those meant only with what was ordered.
LEMMA TargetsNext ==
  ASSUME request' = request, NEW c \in Command
  PROVE  /\ ForAgents(c)' = ForAgents(c) /\ Listed(c)' = Listed(c) /\ All(c)' = All(c)
         /\ \A h \in Host : Times(c, h)' = Times(c, h)
         /\ ordered'[c] = ordered[c] => Meant(c)' = Meant(c)
BY DEF ForAgents, Listed, All, Times, Meant

LEMMA SiteTypes ==
  ASSUME TypeOK, NEW c \in Command
  PROVE  /\ inbox[c] \in {"none", "queued", "in_progress", "completed", "failed"}
         /\ expected[c] \in Nat /\ results[c] \in Results /\ faults \in Nat
         /\ awaiting[c] \in [Host -> Nat] /\ ordered[c] \in [Host -> Nat]
         /\ Meant(c) \in SUBSET Host /\ Mirror \in Host
         /\ request[c].kind \in Kind
BY Targets, CommandsAssumption DEF TypeOK, Results, Verdict, Meant

LEMMA SiteSame ==
  ASSUME TypeOK, TypeOK', NEW c \in Command, Same(c), Orders(c), Answers(c)
  PROVE  Orders(c)' /\ Answers(c)'
<1>1. /\ ForAgents(c)' = ForAgents(c) /\ All(c)' = All(c) /\ Meant(c)' = Meant(c)
      /\ \A h \in Host : Times(c, h)' = Times(c, h)
  BY TargetsNext DEF Same
<1>2. Planned(c)' = Planned(c) /\ Planned(c) \in Nat /\ faults \in Nat /\ faults' \in Nat
  BY SiteTypes DEF Same, Planned, TypeOK
<1>3. \A h \in Host : ordered[c][h] \in Nat
  BY SiteTypes
<1>4. Waiting(c)' <=> Waiting(c)
  BY <1>1 DEF Same, Waiting
<1>5. Answers(c)'
  BY <1>1, <1>4 DEF Same, Answers
<1>6. Orders(c)'
  <2>1. CASE request[c].kind = "pull"
    <3>1. \A h \in Host : ordered'[c][h] <= faults' + Planned(c)'
      BY <1>2, <1>3, <2>1 DEF Same, Orders
    <3> QED BY <2>1, <3>1 DEF Same, Orders
  <2>2. CASE request[c].kind # "pull"
    BY <1>1, <2>2 DEF Same, Orders
  <2> QED BY <2>1, <2>2
<1> QED BY <1>5, <1>6

\* The coordinator and the sync queue leave the inbox alone.
LEMMA ElsewhereSame ==
  ASSUME TypeOK, NEW c \in Command, UNCHANGED <<request, inboxVars>>, faults' = faults \/ faults' = faults + 1
  PROVE  Same(c)
BY DEF Same, inboxVars, TypeOK

\* A command arrives, once.
LEMMA SiteReceived ==
  ASSUME IInv, TypeOK', NEW c \in Command, SiteReceive(c)
  PROVE  Orders(c)' /\ Answers(c)'
<1>1. TypeOK /\ Orders(c) /\ Answers(c) /\ Pushed(c)
  BY DEF IInv
<1>2. /\ request' = request /\ expected' = expected /\ results' = results /\ awaiting' = awaiting
      /\ ordered' = ordered /\ planned' = planned /\ unheard' = unheard /\ faults' = faults
      /\ inbox'[c] = Accepted(inbox[c])
  BY <1>1 DEF SiteReceive, TypeOK
<1>3. CASE inbox[c] # "none"
  BY <1>1, <1>2, <1>3, SiteSame DEF Accepted, Same, TypeOK
<1>4. CASE inbox[c] = "none"
  <2>1. inbox'[c] = "queued" /\ c \notin planned
    BY <1>1, <1>2, <1>4 DEF Accepted, Pushed
  <2>2. /\ ForAgents(c)' = ForAgents(c) /\ All(c)' = All(c) /\ Meant(c)' = Meant(c)
        /\ \A h \in Host : Times(c, h)' = Times(c, h)
    BY <1>2, TargetsNext
  <2>3. Planned(c)' = Planned(c)
    BY <1>2, <1>4, <2>1 DEF Planned
  <2> QED BY <1>1, <1>2, <1>4, <2>1, <2>2, <2>3 DEF Orders, Answers
<1> QED BY <1>3, <1>4

\* A command that is refused without an order to a host.
LEMMA SiteRefused ==
  ASSUME IInv, TypeOK', NEW c \in Command, FanOutRefused(c) \/ PullRefused(c) \/ PullRaises(c)
  PROVE  Orders(c)' /\ Answers(c)'
<1>1. TypeOK /\ Orders(c) /\ Answers(c)
  BY DEF IInv
<1>2. /\ request' = request /\ expected' = expected /\ results' = results /\ awaiting' = awaiting
      /\ ordered' = ordered /\ planned' = planned /\ unheard' = unheard /\ faults' = faults
      /\ inbox[c] = "queued" /\ inbox'[c] = "failed" /\ c \notin planned
      /\ request[c].kind \in {"unmapped", "pull", "badpull"}
  BY <1>1 DEF FanOutRefused, FailCommand, PullRefused, PullRaises, coordVars, TypeOK, Orders
<1>3. /\ ForAgents(c)' = ForAgents(c) /\ All(c)' = All(c) /\ Meant(c)' = Meant(c)
      /\ \A h \in Host : Times(c, h)' = Times(c, h)
  BY <1>2, TargetsNext
<1>4. /\ Planned(c) = 0 /\ Planned(c)' = 1 /\ faults \in Nat
      /\ \A h \in Host : ordered[c][h] \in Nat
  BY <1>1, <1>2, SiteTypes DEF Planned
<1> QED BY <1>1, <1>2, <1>3, <1>4 DEF Orders, Answers, ForAgents

\* The steps of a pull.
LEMMA SitePull ==
  ASSUME IInv, TypeOK', NEW c \in Command,
         PullPlan(c) \/ PullCommit(c) \/ PullAbort(c) \/ \E v \in Verdict : PullResult(c, v)
  PROVE  Orders(c)' /\ Answers(c)'
<1>1. TypeOK /\ TypeOK' /\ Orders(c) /\ Answers(c) /\ request[c].kind = "pull"
  BY DEF IInv, PullPlan, PullCommit, PullAbort, PullResult, Orders
<1>2. request' = request /\ results' = results
  BY DEF PullPlan, PullCommit, PullAbort, PullResult, coordVars
<1>3. /\ inbox'[c] \in {"none", "queued", "in_progress", "completed", "failed"}
      /\ faults \in Nat /\ faults' \in Nat /\ Mirror \in Host
      /\ \A h \in Host : /\ awaiting[c][h] \in Nat /\ ordered[c][h] \in Nat
                         /\ awaiting'[c][h] \in Nat /\ ordered'[c][h] \in Nat
  BY <1>1, SiteTypes DEF TypeOK, Verdict
<1>4. SUFFICES /\ \A h \in Host : awaiting'[c][h] <= ordered'[c][h]
               /\ \A h \in Host : ordered'[c][h] <= faults' + Planned(c)'
               /\ Reported(results[c]) \subseteq Meant(c)'
               /\ c \in planned' \/ inbox'[c] = "in_progress" => awaiting'[c][Mirror] > 0 \/ c \in unheard'
  BY <1>1, <1>2, <1>3 DEF Orders, Answers, ForAgents
<1>5. (\A h \in Host : ordered'[c][h] >= ordered[c][h]) => Reported(results[c]) \subseteq Meant(c)'
  <2>1. Listed(c)' = Listed(c)
    BY <1>2, TargetsNext
  <2> QED BY <1>1, <1>3, <2>1 DEF Answers, Meant
<1>6. /\ \A h \in Host : awaiting[c][h] <= ordered[c][h]
      /\ \A h \in Host : ordered[c][h] <= faults + Planned(c)
      /\ c \in planned \/ inbox[c] = "in_progress" => awaiting[c][Mirror] > 0 \/ c \in unheard
  BY <1>1 DEF Orders, Answers
<1>7. CASE PullPlan(c)
  <2>1. /\ Planned(c) = 0 /\ Planned(c)' = 1 /\ faults' = faults
        /\ c \in planned' /\ unheard' = unheard
    BY <1>7 DEF PullPlan, Planned
  <2>2. /\ ordered'[c][Mirror] = ordered[c][Mirror] + 1 /\ awaiting'[c][Mirror] = awaiting[c][Mirror] + 1
        /\ \A h \in Host \ {Mirror} : ordered'[c][h] = ordered[c][h] /\ awaiting'[c][h] = awaiting[c][h]
    BY <1>1, <1>3, <1>7 DEF PullPlan, TypeOK
  <2> QED BY <1>3, <1>5, <1>6, <2>1, <2>2
<1>8. CASE PullCommit(c)
  <2>1. /\ Planned(c) = 1 /\ Planned(c)' = 1 /\ faults' = faults /\ inbox'[c] = "in_progress"
        /\ c \in planned /\ awaiting' = awaiting /\ ordered' = ordered /\ unheard' = unheard
    BY <1>1, <1>8 DEF PullCommit, Planned, TypeOK
  <2> QED BY <1>3, <1>5, <1>6, <2>1
<1>9. CASE PullAbort(c)
  <2>1. /\ Planned(c) = 1 /\ Planned(c)' \in {0, 1} /\ faults' = faults + 1 /\ inbox' = inbox
        /\ c \in planned /\ c \notin planned' /\ awaiting' = awaiting /\ ordered' = ordered
        /\ unheard' = unheard
    BY <1>9 DEF PullAbort, Planned
  <2> QED BY <1>3, <1>5, <1>6, <2>1
<1>10. CASE \E v \in Verdict : PullResult(c, v)
  <2>0. PICK v \in Verdict : PullResult(c, v)
    BY <1>10
  <2>1. /\ awaiting'[c][Mirror] = awaiting[c][Mirror] - 1
        /\ \A h \in Host \ {Mirror} : awaiting'[c][h] = awaiting[c][h]
        /\ ordered' = ordered /\ planned' = planned /\ faults' = faults
        /\ unheard' = IF c \in planned THEN unheard \cup {c} ELSE unheard
    BY <1>1, <1>3, <2>0 DEF PullResult, Heard, TypeOK
  <2>2. inbox'[c] = IF v \in SiteAllowed(inbox[c]) THEN v ELSE inbox[c]
    BY <1>1, <2>0 DEF PullResult, TypeOK
  <2>3. Planned(c)' >= Planned(c) /\ Planned(c) \in {0, 1} /\ Planned(c)' \in {0, 1}
    BY <2>1, <2>2 DEF Planned, SiteAllowed, Verdict
  <2>4. inbox'[c] # "in_progress"
    BY <2>2 DEF SiteAllowed, Verdict
  <2>5. \A h \in Host : awaiting'[c][h] <= ordered'[c][h] /\ ordered'[c][h] <= faults' + Planned(c)'
    BY <1>3, <1>6, <2>1, <2>3
  <2>6. c \in planned' \/ inbox'[c] = "in_progress" => c \in unheard'
    BY <2>1, <2>4
  <2>7. Reported(results[c]) \subseteq Meant(c)'
    BY <1>3, <1>5, <2>1
  <2> QED BY <2>5, <2>6, <2>7
<1> QED BY <1>7, <1>8, <1>9, <1>10

\* Answers that are lost: none is awaited that was not ordered, and the loss is on record.
LEMMA SiteLoses ==
  ASSUME IInv, TypeOK', NEW c \in Command, request' = request, inbox'[c] = inbox[c],
         expected'[c] = expected[c], results'[c] = results[c], ordered'[c] = ordered[c],
         planned' \subseteq planned, faults' = faults + 1,
         \A h \in Host : awaiting'[c][h] <= awaiting[c][h],
         unheard \subseteq unheard',
         \A h \in Host : awaiting'[c][h] # awaiting[c][h] => c \in unheard',
         c \in planned /\ c \notin planned' => awaiting'[c] = awaiting[c] \/ c \in unheard'
  PROVE  Orders(c)' /\ Answers(c)'
<1>1. TypeOK /\ Orders(c) /\ Answers(c)
  BY DEF IInv
<1>2. /\ ForAgents(c)' = ForAgents(c) /\ All(c)' = All(c) /\ Meant(c)' = Meant(c)
      /\ \A h \in Host : Times(c, h)' = Times(c, h)
      /\ Meant(c) \subseteq Host
  BY <1>1, TargetsNext, SiteTypes
<1>3. /\ Planned(c) \in Nat /\ Planned(c)' \in Nat /\ Planned(c) <= Planned(c)' + 1
      /\ faults \in Nat /\ Mirror \in Host
      /\ \A h \in Host : /\ awaiting[c][h] \in Nat /\ ordered[c][h] \in Nat /\ awaiting'[c][h] \in Nat
  BY <1>1, SiteTypes DEF Planned, TypeOK
<1>4. Waiting(c) => Waiting(c)'
  <2>1. c \notin unheard' => \A h \in Meant(c) : awaiting'[c][h] = awaiting[c][h]
    BY <1>2
  <2> QED BY <1>2, <2>1 DEF Waiting
<1>5. \A h \in Host : awaiting'[c][h] <= ordered'[c][h]
  BY <1>1, <1>3 DEF Orders
<1>6. ASSUME request[c].kind = "pull" PROVE \A h \in Host : ordered'[c][h] <= faults' + Planned(c)'
  BY <1>1, <1>3, <1>6 DEF Orders
<1>7. Orders(c)'
  BY <1>1, <1>2, <1>5, <1>6 DEF Orders
<1>8. Answers(c)'
  BY <1>1, <1>2, <1>3, <1>4 DEF Answers
<1> QED BY <1>7, <1>8

LEMMA SiteResultLost ==
  ASSUME IInv, TypeOK', NEW c \in Command, NEW h \in Host, ResultLost(c, h)
  PROVE  Orders(c)' /\ Answers(c)'
<1>1. TypeOK
  BY DEF IInv
<1>2. /\ request' = request /\ inbox' = inbox /\ expected' = expected /\ results' = results
      /\ ordered' = ordered /\ planned' = planned /\ faults' = faults + 1
      /\ unheard' = unheard \cup {c}
  BY DEF ResultLost, coordVars
<1>3. awaiting[c] \in [Host -> Nat] /\ awaiting'[c] = [awaiting[c] EXCEPT ![h] = @ - 1]
  BY <1>1 DEF ResultLost, Heard, TypeOK
<1>4. \A g \in Host : awaiting'[c][g] <= awaiting[c][g]
  BY <1>3
<1> QED BY <1>2, <1>4, SiteLoses

LEMMA SiteRestarted ==
  ASSUME IInv, TypeOK', NEW c \in Command, SiteRestart
  PROVE  Orders(c)' /\ Answers(c)'
<1>1. TypeOK
  BY DEF IInv
<1>2. /\ request' = request /\ inbox' = inbox /\ expected' = expected /\ results' = results
      /\ ordered' = ordered /\ planned' = {} /\ faults' = faults + 1 /\ unheard \subseteq unheard'
      /\ (\E h \in Host : awaiting[c][h] > 0) => c \in unheard'
  BY DEF SiteRestart, coordVars
<1>3. awaiting[c] \in [Host -> Nat] /\ awaiting'[c] = [h \in Host |-> 0]
  BY <1>1 DEF SiteRestart, TypeOK
<1>4. \A h \in Host : awaiting'[c][h] <= awaiting[c][h] /\ (awaiting'[c][h] # awaiting[c][h] => awaiting[c][h] > 0)
  BY <1>3
<1>5. awaiting'[c] = awaiting[c] \/ \E h \in Host : awaiting[c][h] > 0
  BY <1>3
<1> QED BY <1>2, <1>4, <1>5, SiteLoses

\* The fan-out: every host is sent what it is listed for, and waited for.
LEMMA SiteFanOut ==
  ASSUME IInv, TypeOK', NEW c \in Command, NEW here \in SUBSET Host, FanOut(c, here)
  PROVE  Orders(c)' /\ Answers(c)'
<1>1. TypeOK /\ Orders(c) /\ Answers(c) /\ Pushed(c)
  BY DEF IInv
<1>2. /\ inbox[c] = "queued" /\ request[c].kind = "fleet" /\ request' = request
      /\ planned' = planned /\ unheard' = unheard /\ faults' = faults /\ c \notin planned
  BY <1>1, FanOutCases DEF coordVars, Orders
<1>3. /\ ForAgents(c)' = ForAgents(c) /\ All(c)' = All(c) /\ Listed(c)' = Listed(c)
      /\ \A h \in Host : Times(c, h)' = Times(c, h)
  BY <1>2, TargetsNext
<1>4. /\ Size(c, here) \in Nat /\ Messages(c, here) \in [Host -> Nat] /\ Missing(c, here) \in Results
      /\ Reported(Missing(c, here)) = Listed(c) \ here
      /\ \A h \in Host : Messages(c, here)[h] <= IF All(c) THEN 1 ELSE Times(c, h)
  BY <1>1, FanOutNumbers
<1>5. \A h \in Host : ordered[c][h] = 0 /\ awaiting[c][h] = 0
  BY <1>1, <1>2, SiteTypes DEF Orders
<1>6. CASE Closes(c, "failed") /\ UNCHANGED <<expected, results, awaiting, ordered>>
  <2>1. inbox'[c] = "failed" /\ Meant(c)' = Meant(c)
    BY <1>1, <1>2, <1>6, TargetsNext DEF Closes, TypeOK
  <2> QED BY <1>1, <1>2, <1>3, <1>6, <2>1 DEF Orders, Answers
<1>7. CASE /\ Size(c, here) # 0
           /\ expected' = [expected EXCEPT ![c] = Size(c, here)]
           /\ results' = [results EXCEPT ![c] = Missing(c, here)]
           /\ awaiting' = [awaiting EXCEPT ![c] = [h \in Host |-> @[h] + Messages(c, here)[h]]]
           /\ ordered' = [ordered EXCEPT ![c] = [h \in Host |-> @[h] + Messages(c, here)[h]]]
           /\ \/ (\E h \in Host : Messages(c, here)[h] # 0) /\ WaitsOn(c)
              \/ Settle(c, Size(c, here), Missing(c, here))
  <2>1. /\ expected'[c] = Size(c, here) /\ results'[c] = Missing(c, here)
        /\ \A h \in Host : awaiting'[c][h] = Messages(c, here)[h] /\ ordered'[c][h] = Messages(c, here)[h]
        /\ ordered'[c] \in [Host -> Nat]
    <3>1. /\ expected \in [Command -> Nat] /\ results \in [Command -> Results]
          /\ awaiting \in [Command -> [Host -> Nat]] /\ ordered \in [Command -> [Host -> Nat]]
      BY <1>1 DEF TypeOK, Results
    <3>2. ordered'[c] \in [Host -> Nat]
      BY DEF TypeOK
    <3> QED BY <1>4, <1>5, <1>7, <3>1, <3>2
  <2>2. /\ Meant(c)' \in SUBSET Host
        /\ Listed(c) \subseteq Meant(c)'
        /\ Cardinality(Meant(c)') <= Size(c, here)
        /\ (\A h \in Host : Times(c, h) <= 1) => Cardinality(Meant(c)') = Size(c, here)
        /\ \A h \in Meant(c)' : ordered'[c][h] > 0 \/ Missing(c, here)[h] # "none"
    <3>1. Meant(c)' = Listed(c) \cup {h \in Host : ordered'[c][h] > 0}
      BY <1>3 DEF Meant
    <3>2. LET meant == Listed(c) \cup {h \in Host : ordered'[c][h] > 0} IN
            /\ meant \in SUBSET Host
            /\ Cardinality(meant) <= Size(c, here)
            /\ (\A h \in Host : Times(c, h) <= 1) => Cardinality(meant) = Size(c, here)
            /\ \A h \in meant : ordered'[c][h] > 0 \/ Missing(c, here)[h] # "none"
      BY <1>1, <2>1, FanOutMeant
    <3> QED BY <3>1, <3>2
  <2>3. \/ inbox'[c] = "in_progress" /\ ~ Complete(Size(c, here), Missing(c, here))
        \/ /\ inbox'[c] = VerdictOf(Missing(c, here)) /\ inbox'[c] \in Verdict
           /\ Complete(Size(c, here), Missing(c, here))
    <3>1. CASE (\E h \in Host : Messages(c, here)[h] # 0) /\ WaitsOn(c)
      BY <1>1, <1>7, <3>1, FanOutIncomplete DEF WaitsOn, TypeOK
    <3>2. CASE Settle(c, Size(c, here), Missing(c, here))
      BY <1>1, <3>2, Settled DEF WaitsOn, Closes, TypeOK
    <3> QED BY <1>7, <3>1, <3>2
  <2>4. Reported(results'[c]) \subseteq Meant(c)'
    BY <1>4, <2>1, <2>2
  <2>5. ASSUME inbox'[c] = "in_progress" PROVE Waiting(c)'
    <3>1. expected'[c] > 0 /\ ~ Complete(expected'[c], results'[c])
      BY <1>4, <1>7, <2>1, <2>3, <2>5 DEF Verdict
    <3>2. \A h \in Meant(c)' : awaiting'[c][h] > 0 \/ results'[c][h] # "none"
      BY <2>1, <2>2
    <3> QED BY <1>3, <2>1, <2>2, <3>1, <3>2 DEF Waiting
  <2>6. ASSUME inbox'[c] = "completed" PROVE \A h \in Meant(c)' : results'[c][h] = "ok"
    <3>1. Complete(Size(c, here), Missing(c, here)) /\ VerdictOf(Missing(c, here)) = "completed"
      BY <2>3, <2>6
    <3>2. Reported(Missing(c, here)) \subseteq Meant(c)'
      BY <2>1, <2>4
    <3> QED BY <1>4, <2>1, <2>2, <3>1, <3>2, CompletedMeansOk
  <2>7. Answers(c)'
    BY <1>2, <2>4, <2>5, <2>6 DEF Answers
  <2>8. Orders(c)'
    <3>1. inbox'[c] \notin {"none", "queued"}
      BY <2>3 DEF Verdict
    <3>2. \A h \in Host : awaiting'[c][h] <= ordered'[c][h]
      BY <1>4, <2>1
    <3> QED BY <1>2, <1>3, <1>4, <2>1, <3>1, <3>2 DEF Orders
  <2> QED BY <2>7, <2>8
<1> QED BY <1>6, <1>7, FanOutCases

\* An answer of a host is put down and may be the last.
LEMMA SiteHostResult ==
  ASSUME IInv, TypeOK', NEW c \in Command, NEW h \in Host, NEW r \in {"ok", "bad"}, HostResult(c, h, r)
  PROVE  Orders(c)' /\ Answers(c)'
<1>1. TypeOK /\ Orders(c) /\ Answers(c)
  BY DEF IInv
<1>2. /\ request[c].kind = "fleet" /\ request' = request /\ awaiting[c][h] > 0
      /\ expected' = expected /\ ordered' = ordered
      /\ planned' = planned /\ unheard' = unheard /\ faults' = faults /\ c \notin planned
  BY <1>1 DEF HostResult, coordVars, Orders
<1>3. /\ ForAgents(c)' = ForAgents(c) /\ All(c)' = All(c) /\ Meant(c)' = Meant(c)
      /\ \A k \in Host : Times(c, k)' = Times(c, k)
  BY <1>2, TargetsNext
<1>4. /\ awaiting[c] \in [Host -> Nat] /\ awaiting'[c] = [awaiting[c] EXCEPT ![h] = @ - 1]
      /\ ordered[c] \in [Host -> Nat] /\ expected[c] \in Nat /\ results[c] \in Results /\ results'[c] \in Results
      /\ Meant(c) \in SUBSET Host
  BY <1>1, SiteTypes DEF HostResult, Heard, TypeOK, Results
<1>5. h \in Meant(c) /\ inbox[c] \notin {"none", "queued"}
  BY <1>1, <1>2, <1>4 DEF Orders, Meant
<1>6. \A k \in Host : awaiting'[c][k] <= ordered'[c][k] /\ (k # h => awaiting'[c][k] = awaiting[c][k])
  BY <1>1, <1>2, <1>4 DEF Orders
<1>7. CASE inbox[c] \in Verdict
  <2>1. inbox' = inbox /\ results' = results
    BY <1>7 DEF HostResult
  <2> QED BY <1>1, <1>2, <1>3, <1>6, <1>7, <2>1 DEF Orders, Answers, Verdict
<1>8. CASE inbox[c] \notin Verdict
  <2>1. results'[c] = [results[c] EXCEPT ![h] = r] /\ Settle(c, expected[c], results'[c])
    BY <1>1, <1>8 DEF HostResult, TypeOK
  <2>2. inbox[c] = "in_progress"
    BY <1>1, <1>5, <1>8, SiteTypes DEF Verdict
  <2>3. Waiting(c)
    BY <1>1, <1>2, <2>2 DEF Answers
  <2>4. \/ inbox'[c] = "in_progress" /\ ~ Complete(expected[c], results'[c])
        \/ inbox'[c] = VerdictOf(results'[c]) /\ inbox'[c] \in Verdict /\ Complete(expected[c], results'[c])
    BY <1>1, <2>1, Settled DEF WaitsOn, Closes, TypeOK
  <2>5. Reported(results'[c]) \subseteq Meant(c)
    BY <1>1, <1>4, <1>5, <2>1 DEF Answers, Reported, Results
  <2>6. ASSUME inbox'[c] = "in_progress" PROVE Waiting(c)'
    <3>1. ~ Complete(expected[c], results'[c])
      BY <2>4, <2>6 DEF Verdict
    <3>2. c \notin unheard => \A k \in Meant(c) : awaiting'[c][k] > 0 \/ results'[c][k] # "none"
      <4>1. \A k \in Meant(c) : k # h => results'[c][k] = results[c][k] /\ awaiting'[c][k] = awaiting[c][k]
        BY <1>4, <1>6, <2>1
      <4>2. results'[c][h] # "none"
        BY <1>4, <2>1 DEF Results
      <4> QED BY <2>3, <4>1, <4>2 DEF Waiting
    <3> QED BY <1>2, <1>3, <2>3, <3>1, <3>2 DEF Waiting
  <2>7. ASSUME inbox'[c] = "completed" PROVE \A k \in Meant(c) : results'[c][k] = "ok"
    <3>1. Complete(expected[c], results'[c]) /\ VerdictOf(results'[c]) = "completed"
      BY <2>4, <2>7
    <3>2. Cardinality(Meant(c)) <= expected[c]
      BY <2>3 DEF Waiting
    <3> QED BY <1>4, <2>5, <3>1, <3>2, CompletedMeansOk
  <2>8. Answers(c)'
    BY <1>2, <1>3, <2>5, <2>6, <2>7 DEF Answers
  <2>9. inbox'[c] \notin {"none", "queued"}
    BY <2>4 DEF Verdict
  <2>10. Orders(c)'
    BY <1>1, <1>2, <1>3, <1>6, <2>9 DEF Orders
  <2> QED BY <2>8, <2>10
<1> QED BY <1>7, <1>8

\* The other commands of the site.
LEMMA SiteOthers ==
  ASSUME TypeOK, NEW c \in Command, NEW d \in Command \ {c},
         \/ SiteReceive(d) \/ FanOutRefused(d) \/ (\E here \in SUBSET Host : FanOut(d, here))
         \/ (\E h \in Host, r \in {"ok", "bad"} : HostResult(d, h, r))
         \/ (\E h \in Host : ResultLost(d, h))
         \/ PullPlan(d) \/ PullCommit(d) \/ PullAbort(d) \/ PullRefused(d) \/ PullRaises(d)
         \/ (\E v \in Verdict : PullResult(d, v))
  PROVE  Same(c)
<1> USE DEF TypeOK, Same, coordVars
<1>1. CASE SiteReceive(d)
  BY <1>1 DEF SiteReceive
<1>2. CASE FanOutRefused(d)
  BY <1>2 DEF FanOutRefused, FailCommand
<1>3. ASSUME NEW here \in SUBSET Host, FanOut(d, here) PROVE Same(c)
  <2>1. WaitsOn(d) \/ \E v \in Verdict : Closes(d, v)
    BY <1>3, FanOutEnds
  <2>2. inbox'[c] = inbox[c]
    BY <2>1 DEF WaitsOn, Closes
  <2>3. /\ inbox[d] = "queued" /\ request' = request /\ planned' = planned /\ unheard' = unheard
        /\ faults' = faults /\ faults \in Nat
    BY <1>3, FanOutCases
  <2>4. /\ expected'[c] = expected[c] /\ results'[c] = results[c]
        /\ awaiting'[c] = awaiting[c] /\ ordered'[c] = ordered[c]
    <3>1. \/ UNCHANGED <<expected, results, awaiting, ordered>>
          \/ \E a, b, e, g : /\ expected' = [expected EXCEPT ![d] = a]
                            /\ results' = [results EXCEPT ![d] = b]
                            /\ awaiting' = [awaiting EXCEPT ![d] = e]
                            /\ ordered' = [ordered EXCEPT ![d] = g]
      BY <1>3, FanOutCases
    <3> QED BY <3>1
  <2> QED BY <2>2, <2>3, <2>4
<1>4. ASSUME NEW h \in Host, NEW r \in {"ok", "bad"}, HostResult(d, h, r) PROVE Same(c)
  <2>1. inbox' = inbox \/ Settle(d, expected[d], results'[d])
    BY <1>4 DEF HostResult
  <2>2. inbox' = inbox \/ WaitsOn(d) \/ \E v \in Verdict : Closes(d, v)
    BY <2>1, Settled DEF Verdict
  <2>3. inbox'[c] = inbox[c]
    BY <2>2 DEF WaitsOn, Closes
  <2> QED BY <1>4, <2>3 DEF HostResult, Heard
<1>5. ASSUME NEW h \in Host, ResultLost(d, h) PROVE Same(c)
  BY <1>5 DEF ResultLost, Heard
<1>6. CASE PullPlan(d)
  BY <1>6 DEF PullPlan
<1>7. CASE PullCommit(d)
  BY <1>7 DEF PullCommit
<1>8. CASE PullAbort(d)
  BY <1>8 DEF PullAbort
<1>9. CASE PullRefused(d)
  BY <1>9 DEF PullRefused
<1>10. ASSUME NEW v \in Verdict, PullResult(d, v) PROVE Same(c)
  BY <1>10 DEF PullResult, Heard
<1>11. CASE PullRaises(d)
  BY <1>11 DEF PullRaises, FailCommand
<1> QED BY <1>1, <1>2, <1>3, <1>4, <1>5, <1>6, <1>7, <1>8, <1>9, <1>10, <1>11

\* The coordinator and the sync queue.
Elsewhere ==
  \/ Suspend \/ Resume \/ Remove
  \/ \E c \in Command : Dispatch(c) \/ PushStart(c) \/ PushEnds(c)
  \/ Snapshot \/ (\E k \in Key : DrainStart(k)) \/ Ingest \/ DrainEnds
  \/ (\E keep \in 0..Cardinality(Key) : Purge(keep)) \/ CoordRestart

AtSite(d) ==
  \/ SiteReceive(d) \/ FanOutRefused(d) \/ (\E here \in SUBSET Host : FanOut(d, here))
  \/ (\E h \in Host, r \in {"ok", "bad"} : HostResult(d, h, r))
  \/ (\E h \in Host : ResultLost(d, h))
  \/ PullPlan(d) \/ PullCommit(d) \/ PullAbort(d) \/ PullRefused(d) \/ PullRaises(d)
  \/ (\E v \in Verdict : PullResult(d, v))

LEMMA Steps == Next <=> Elsewhere \/ SiteRestart \/ \E c \in Command : AtSite(c)
BY DEF Next, Elsewhere, AtSite

LEMMA ElsewhereLeaves ==
  ASSUME Elsewhere
  PROVE  UNCHANGED <<request, inboxVars>> /\ (faults' = faults \/ faults' = faults + 1)
BY DEF Elsewhere, Suspend, Resume, Remove, Dispatch, PushStart, PushEnds, PushOk, PushFail, Snapshot,
       DrainStart, Ingest, DrainEnds, DrainOk, DrainFail, Purge, CoordRestart, coordVars

LEMMA SiteStep ==
  ASSUME IInv, TypeOK', Next, NEW c \in Command
  PROVE  Orders(c)' /\ Answers(c)'
<1>1. TypeOK /\ Orders(c) /\ Answers(c)
  BY DEF IInv
<1>2. CASE Elsewhere
  BY <1>1, <1>2, ElsewhereLeaves, ElsewhereSame, SiteSame
<1>3. CASE SiteRestart
  BY <1>3, SiteRestarted
<1>4. ASSUME NEW d \in Command, AtSite(d), d # c PROVE Same(c)
  BY <1>1, <1>4, SiteOthers DEF AtSite
<1>5. CASE AtSite(c)
  BY <1>5, SiteReceived, SiteRefused, SitePull, SiteResultLost, SiteFanOut, SiteHostResult DEF AtSite
<1> QED BY <1>1, <1>2, <1>3, <1>4, <1>5, SiteSame, Steps

-----------------------------------------------------------------------------
(* The site and the sync queue.                                            *)

\* What a step of the site does to a command without telling the coordinator ...
Quiet(d) ==
  /\ UNCHANGED <<queueVars, raised>>
  /\ \/ inbox'[d] = inbox[d]
     \/ inbox[d] = "none" /\ inbox'[d] = "queued" /\ pushing[d] = "sent"
     \/ inbox[d] \in {"queued", "in_progress"} /\ inbox'[d] = "in_progress"
     \/ ~ Reports(d) /\ inbox[d] # "none" /\ inbox'[d] \in {"in_progress"} \cup Verdict

\* ... and to one it closes.
Closing(d) ==
  /\ Reports(d)' /\ inbox[d] \in {"queued", "in_progress"}
  /\ raised \subseteq raised' /\ raised' \subseteq raised \cup {d}
  /\ \E v \in Verdict : inbox'[d] = v /\ Report(d, v)

LEMMA AtSiteEffect ==
  ASSUME IInv, NEW d \in Command, AtSite(d)
  PROVE  /\ UNCHANGED <<request, status, pushes, rollup>>
         /\ \A c \in Command : pushing'[c] # "no" => pushing[c] # "no"
         /\ \A c \in Command \ {d} : inbox'[c] = inbox[c]
         /\ planned' \subseteq planned \cup {c \in Command : c = d /\ inbox[d] = "queued"}
         /\ Quiet(d) \/ Closing(d)
<1>1. TypeOK /\ Orders(d) /\ Pushed(d) /\ Raised(d)
  BY DEF IInv
<1> DEFINE Effect == /\ UNCHANGED <<request, status, pushes, rollup>>
                     /\ \A c \in Command : pushing'[c] # "no" => pushing[c] # "no"
                     /\ \A c \in Command \ {d} : inbox'[c] = inbox[c]
                     /\ planned' \subseteq planned \cup {c \in Command : c = d /\ inbox[d] = "queued"}
                     /\ Quiet(d) \/ Closing(d)
<1>2. CASE SiteReceive(d)
  BY <1>1, <1>2 DEF SiteReceive, Accepted, Quiet, TypeOK, queueVars
<1>3. CASE FanOutRefused(d)
  BY <1>1, <1>3 DEF FanOutRefused, FailCommand, Closing, Reports, ForAgents, TypeOK, coordVars, Verdict
<1>4. ASSUME NEW here \in SUBSET Host, FanOut(d, here) PROVE Effect
  <2>1. /\ inbox[d] = "queued" /\ request[d].kind = "fleet"
        /\ UNCHANGED <<siteStatus, coordVars, planned, unheard, raised, faults>>
    BY <1>4 DEF FanOut
  <2>2. WaitsOn(d) \/ \E v \in Verdict : Closes(d, v)
    BY <1>4, FanOutEnds
  <2>3. CASE WaitsOn(d)
    BY <1>1, <2>1, <2>3 DEF WaitsOn, Quiet, TypeOK, coordVars
  <2>4. CASE \E v \in Verdict : Closes(d, v)
    BY <1>1, <2>1, <2>4 DEF Closes, Closing, Reports, ForAgents, TypeOK, coordVars
  <2> QED BY <2>2, <2>3, <2>4
<1>5. ASSUME NEW h \in Host, NEW r \in {"ok", "bad"}, HostResult(d, h, r) PROVE Effect
  <2>1. /\ request[d].kind = "fleet" /\ awaiting[d][h] > 0
        /\ UNCHANGED <<siteStatus, coordVars, expected, planned, ordered, unheard, raised, faults>>
    BY <1>5 DEF HostResult
  <2>2. inbox[d] \notin {"none", "queued"}
    BY <1>1, <2>1, SiteTypes DEF Orders
  <2>3. CASE inbox[d] \in Verdict
    BY <1>5, <2>1, <2>3 DEF HostResult, Quiet, coordVars
  <2>4. CASE inbox[d] \notin Verdict
    <3>1. inbox[d] = "in_progress"
      BY <1>1, <2>2, <2>4, SiteTypes DEF Verdict
    <3>2. Settle(d, expected[d], results'[d])
      BY <1>5, <2>4 DEF HostResult
    <3>3. WaitsOn(d) \/ \E v \in Verdict : Closes(d, v)
      BY <3>2, Settled
    <3>4. CASE WaitsOn(d)
      BY <1>1, <2>1, <3>1, <3>4 DEF WaitsOn, Quiet, TypeOK, coordVars
    <3>5. CASE \E v \in Verdict : Closes(d, v)
      BY <1>1, <2>1, <3>1, <3>5 DEF Closes, Closing, Reports, ForAgents, TypeOK, coordVars
    <3> QED BY <3>3, <3>4, <3>5
  <2> QED BY <2>3, <2>4
<1>6. ASSUME NEW h \in Host, ResultLost(d, h) PROVE Effect
  BY <1>6 DEF ResultLost, Quiet, coordVars
<1>7. CASE PullPlan(d)
  BY <1>7 DEF PullPlan, Quiet, coordVars
<1>8. CASE PullCommit(d)
  <2>1. ~ Reports(d) /\ inbox[d] # "none"
    BY <1>1, <1>8 DEF PullCommit, Orders, Pushed, Raised, Reports, ForAgents
  <2> QED BY <1>1, <1>8, <2>1 DEF PullCommit, Quiet, coordVars, TypeOK
<1>9. CASE PullAbort(d)
  BY <1>9 DEF PullAbort, Quiet, coordVars
<1>10. CASE PullRefused(d)
  <2>1. ~ Reports(d) /\ inbox[d] # "none"
    BY <1>1, <1>10 DEF PullRefused, Raised, Reports, ForAgents
  <2> QED BY <1>1, <1>10, <2>1 DEF PullRefused, Quiet, coordVars, TypeOK, Verdict
<1>11. ASSUME NEW v \in Verdict, PullResult(d, v) PROVE Effect
  <2>1. v \in SiteAllowed(inbox[d]) => ~ Reports(d) /\ inbox[d] # "none"
    BY <1>1, <1>11 DEF PullResult, Reports, ForAgents, SiteAllowed, Raised
  <2> QED BY <1>1, <1>11, <2>1 DEF PullResult, Quiet, coordVars, TypeOK
<1>12. CASE PullRaises(d)
  <2>1. d \in raised' /\ raised' = raised \cup {d} /\ inbox[d] = "queued" /\ planned' = planned
        /\ UNCHANGED coordVars
    BY <1>12 DEF PullRaises
  <2>2. inbox' = [inbox EXCEPT ![d] = "failed"] /\ Report(d, "failed")
    BY <1>12 DEF PullRaises, FailCommand
  <2> QED BY <1>1, <2>1, <2>2 DEF Closing, Reports, TypeOK, coordVars, Verdict
<1> QED BY <1>2, <1>3, <1>4, <1>5, <1>6, <1>7, <1>8, <1>9, <1>10, <1>11, <1>12 DEF AtSite

LEMMA SiteRestartEffect ==
  ASSUME SiteRestart
  PROVE  /\ UNCHANGED <<request, status, pushes, pushing, rollup, inbox, raised, queue, snaps, dropped>>
         /\ planned' = {} /\ draining' = NoRow
BY DEF SiteRestart, coordVars

\* Nothing is pushed or received that was not dispatched.
LEMMA PushedStep ==
  ASSUME IInv, TypeOK', Next, NEW c \in Command
  PROVE  Pushed(c)'
<1>1. TypeOK /\ Pushed(c)
  BY DEF IInv
<1>2. CASE Elsewhere
  <2>1. inbox' = inbox /\ planned' = planned
    BY <1>2, ElsewhereLeaves DEF inboxVars
  <2>2. /\ status[c] # "none" => status'[c] # "none"
        /\ pushing'[c] # "no" => status'[c] # "none" /\ pushes'[c] < MaxAttempts
    <3> DEFINE Kept == /\ status[c] # "none" => status'[c] # "none"
                       /\ pushing'[c] # "no" => status'[c] # "none" /\ pushes'[c] < MaxAttempts
    <3>0. /\ pushing[c] # "no" => status[c] # "none" /\ pushes[c] < MaxAttempts
          /\ pushes[c] \in Nat /\ MaxAttempts \in Nat
      BY <1>1, AttemptsAssumption DEF Pushed, TypeOK
    <3>1. CASE Suspend \/ Resume \/ Remove
      BY <3>0, <3>1 DEF Suspend, Resume, Remove, coordVars
    <3>2. CASE CoordRestart
      BY <3>0, <3>2 DEF CoordRestart
    <3>3. ASSUME NEW d \in Command, Dispatch(d) PROVE Kept
      BY <1>1, <3>0, <3>3 DEF Dispatch, TypeOK
    <3>4. ASSUME NEW d \in Command, PushStart(d) PROVE Kept
      BY <1>1, <3>0, <3>4 DEF PushStart, TypeOK, DeadLettered
    <3>5. ASSUME NEW d \in Command, PushOk(d) PROVE Kept
      BY <1>1, <3>0, <3>5 DEF PushOk, TypeOK
    <3>6. ASSUME NEW d \in Command, PushFail(d) PROVE Kept
      BY <1>1, <3>0, <3>6 DEF PushFail, TypeOK
    <3>7. CASE Snapshot \/ (\E k \in Key : DrainStart(k)) \/ DrainEnds \/ \E keep \in 0..Cardinality(Key) : Purge(keep)
      BY <3>0, <3>7 DEF Snapshot, DrainStart, DrainEnds, DrainOk, DrainFail, Purge, coordVars
    <3>8. CASE Ingest
      <4>1. draining.key # Rollup => draining.value \in Verdict
        BY <1>1, <3>8, SendingFields DEF Ingest, TypeOK, Payload
      <4>2. pushing' = pushing /\ pushes' = pushes
        BY <3>8 DEF Ingest
      <4>3. status'[c] = status[c] \/ status'[c] \in Verdict
        BY <1>1, <3>8, <4>1 DEF Ingest, TypeOK
      <4> QED BY <3>0, <4>2, <4>3 DEF Verdict
    <3> QED BY <1>2, <3>1, <3>2, <3>3, <3>4, <3>5, <3>6, <3>7, <3>8 DEF Elsewhere, PushEnds
  <2> QED BY <1>1, <2>1, <2>2 DEF Pushed
<1>3. CASE SiteRestart
  BY <1>1, <1>3, SiteRestartEffect DEF Pushed
<1>4. ASSUME NEW d \in Command, AtSite(d) PROVE Pushed(c)'
  <2>1. /\ UNCHANGED <<status, pushes>>
        /\ pushing'[c] # "no" => pushing[c] # "no"
        /\ c # d => inbox'[c] = inbox[c]
        /\ c \in planned' => c \in planned \/ (c = d /\ inbox[d] = "queued")
        /\ Quiet(d) \/ Closing(d)
    BY <1>4, AtSiteEffect
  <2>2. /\ inbox'[c] # "none" => inbox[c] # "none" \/ pushing[c] = "sent"
        /\ inbox[c] # "none" => inbox'[c] # "none"
    BY <2>1 DEF Quiet, Closing, Verdict
  <2> QED BY <1>1, <2>1, <2>2 DEF Pushed
<1> QED BY <1>2, <1>3, <1>4, Steps

\* A verdict the coordinator is told stays as it is, and no target changes.
LEMMA VerdictStays ==
  ASSUME IInv, Next, NEW c \in Command
  PROVE  /\ Reports(c) => Reports(c)'
         /\ Reports(c) /\ inbox[c] \in Verdict => inbox'[c] = inbox[c]
         /\ ForAgents(c)' = ForAgents(c)
<1>1. CASE Elsewhere
  BY <1>1, ElsewhereLeaves DEF inboxVars, Reports, ForAgents
<1>2. CASE SiteRestart
  BY <1>2, SiteRestartEffect DEF Reports, ForAgents
<1>3. ASSUME NEW d \in Command, AtSite(d)
      PROVE  /\ Reports(c) => Reports(c)'
             /\ Reports(c) /\ inbox[c] \in Verdict => inbox'[c] = inbox[c]
             /\ ForAgents(c)' = ForAgents(c)
  <2>1. request' = request /\ (c # d => inbox'[c] = inbox[c]) /\ (Quiet(d) \/ Closing(d))
    BY <1>3, AtSiteEffect
  <2>2. raised \subseteq raised'
    BY <2>1 DEF Quiet, Closing
  <2> QED BY <2>1, <2>2 DEF Quiet, Closing, Verdict, Reports, ForAgents
<1> QED BY <1>1, <1>2, <1>3, Steps

\* A pull whose dispatch raised has failed for good.
LEMMA RaisedStep ==
  ASSUME IInv, Next, NEW c \in Command
  PROVE  Raised(c)'
<1>1. TypeOK /\ Raised(c) /\ Orders(c)
  BY DEF IInv
<1>2. CASE Elsewhere \/ SiteRestart
  BY <1>1, <1>2, ElsewhereLeaves, SiteRestartEffect DEF inboxVars, Raised, ForAgents
<1>3. ASSUME NEW d \in Command, AtSite(d), ~ PullRaises(d) PROVE Raised(c)'
  <2>1. /\ request' = request /\ (c # d => inbox'[c] = inbox[c])
        /\ c \in planned' => c \in planned \/ inbox[c] = "queued"
    BY <1>3, AtSiteEffect
  <2>2. raised' = raised
    BY <1>3 DEF AtSite, SiteReceive, FanOutRefused, FanOut, HostResult, ResultLost, PullPlan, PullCommit,
                PullAbort, PullRefused, PullResult
  <2>3. c \in raised => inbox'[c] = inbox[c]
    BY <1>1, <1>3, <2>1, VerdictStays DEF Raised, Reports, Verdict
  <2> QED BY <1>1, <2>1, <2>2, <2>3 DEF Raised, ForAgents
<1>4. ASSUME NEW d \in Command, PullRaises(d) PROVE Raised(c)'
  <2>1. /\ request' = request /\ planned' = planned /\ raised' = raised \cup {d}
        /\ inbox' = [inbox EXCEPT ![d] = "failed"] /\ d \notin planned
        /\ request[d].kind \in {"pull", "badpull"}
    BY <1>4 DEF PullRaises, FailCommand, coordVars
  <2> QED BY <1>1, <2>1 DEF Raised, ForAgents, TypeOK
<1> QED BY <1>2, <1>3, <1>4, Steps DEF AtSite

\* What the rows of the queue and the row under way say.
Rows == (\A k \in Key : RowOK(k)) /\ SendingOK /\ rollup <= snaps

LEMMA QueuedVerdict ==
  ASSUME TypeOK, NEW k \in Key, queue[k] # NoRow
  PROVE  /\ k # Rollup => k \in Command /\ queue[k].value \in Verdict
         /\ k = Rollup => queue[k].value \in Nat
         /\ queue[k].attempts \in Nat
<1>1. queue[k] \in Row(Payload(k))
  BY QueueTyped DEF QueueType
<1>2. queue[k].value \in Payload(k) /\ queue[k].attempts \in Nat
  BY <1>1, RowFields
<1> QED BY <1>2 DEF Payload, Key

LEMMA SentVerdict ==
  ASSUME TypeOK, draining # NoRow
  PROVE  /\ draining.key \in Key
         /\ draining.key # Rollup => draining.key \in Command /\ draining.value \in Verdict
         /\ draining.key = Rollup => draining.value \in Nat
         /\ draining.phase \in {"sent", "taken", "refused"} /\ draining.row \in BOOLEAN
<1>1. draining.key \in Key /\ draining \in Sending(draining.key)
  BY DEF TypeOK
<1>2. /\ draining.value \in Payload(draining.key)
      /\ draining.phase \in {"sent", "taken", "refused"} /\ draining.row \in BOOLEAN
  BY <1>1, SendingFields
<1> QED BY <1>1, <1>2 DEF Payload, Key

\* The queue and the row under way are as before, the coordinator forgets no verdict.
LEMMA RowsSame ==
  ASSUME IInv, Next, UNCHANGED <<queue, draining, snaps, rollup>>,
         \A c \in Command : status[c] \in Verdict => status'[c] \in Verdict
  PROVE  Rows'
<1>1. TypeOK /\ Rows
  BY DEF IInv, Rows
<1>2. ASSUME NEW k \in Key PROVE RowOK(k)'
  <2>1. queue[k] # NoRow /\ k # Rollup => Reports(k)' /\ inbox'[k] = queue[k].value
    BY <1>1, QueuedVerdict, VerdictStays DEF Rows, RowOK
  <2> QED BY <1>1, <2>1 DEF Rows, RowOK
<1>3. SendingOK'
  <2>1. draining # NoRow /\ draining.key # Rollup
          => /\ draining.key \in Command
             /\ Reports(draining.key)' /\ inbox'[draining.key] = draining.value
    <3> SUFFICES ASSUME draining # NoRow, draining.key # Rollup
                 PROVE  /\ draining.key \in Command
                        /\ Reports(draining.key)' /\ inbox'[draining.key] = draining.value
      OBVIOUS
    <3>1. /\ draining.key \in Command /\ draining.value \in Verdict
          /\ Reports(draining.key) /\ inbox[draining.key] = draining.value
      BY <1>1, SentVerdict DEF Rows, SendingOK
    <3> QED BY <3>1, VerdictStays
  <2> QED BY <1>1, <2>1 DEF Rows, SendingOK
<1> QED BY <1>1, <1>2, <1>3 DEF Rows

\* A verdict is queued: the others stay.
LEMMA RowsClosing ==
  ASSUME IInv, Next, NEW d \in Command, AtSite(d), Closing(d)
  PROVE  Rows'
<1>1. TypeOK /\ Rows
  BY DEF IInv, Rows
<1>2. PICK v \in Verdict : inbox'[d] = v /\ Report(d, v)
  BY DEF Closing
<1>3. /\ queue'[d] # NoRow /\ queue'[d].value = v /\ queue'[d].attempts < MaxAttempts
      /\ \A k \in Key \ {d} : queue'[k] = queue[k]
      /\ draining' = draining /\ snaps' = snaps
  BY <1>1, <1>2, ReportRow
<1>4. status' = status /\ rollup' = rollup
  BY AtSiteEffect
<1>5. d # Rollup /\ Reports(d)'
  BY CommandsAssumption, VerdictStays DEF Closing
<1>6. ASSUME NEW k \in Key PROVE RowOK(k)'
  <2>1. CASE k = d
    BY <1>2, <1>3, <1>5, <2>1 DEF RowOK
  <2>2. CASE k # d
    <3>1. queue[k] # NoRow /\ k # Rollup => Reports(k)' /\ inbox'[k] = queue[k].value
      BY <1>1, QueuedVerdict, VerdictStays DEF Rows, RowOK
    <3> QED BY <1>1, <1>3, <2>2, <3>1 DEF Rows, RowOK
  <2> QED BY <2>1, <2>2
<1>7. SendingOK'
  <2> SUFFICES ASSUME draining # NoRow PROVE SendingOK'
    BY <1>3 DEF SendingOK
  <2>0. PICK k \in Key : k = draining.key
    BY <1>1, SentVerdict
  <2>1. k # Rollup => k \in Command /\ draining.value \in Verdict
    BY <1>1, <2>0, SentVerdict
  <2>2. draining.row => queue'[k] # NoRow /\ queue'[k].attempts < MaxAttempts
    BY <1>1, <1>3, <2>0 DEF Rows, SendingOK
  <2>3. k # Rollup => Reports(k)' /\ inbox'[k] = draining.value
    <3> SUFFICES ASSUME k # Rollup PROVE Reports(k)' /\ inbox'[k] = draining.value
      OBVIOUS
    <3>1. k \in Command /\ Reports(k) /\ inbox[k] = draining.value /\ inbox[k] \in Verdict
      BY <1>1, <2>0, <2>1 DEF Rows, SendingOK
    <3> QED BY <3>1, VerdictStays
  <2>4. /\ k # Rollup /\ draining.phase = "taken" => status'[k] \in Verdict
        /\ k = Rollup =>
             /\ draining.value <= snaps'
             /\ draining.phase = "sent" /\ rollup' = snaps' => draining.value = snaps'
             /\ draining.phase = "taken" => rollup' = draining.value
    BY <1>1, <1>3, <1>4, <2>0 DEF Rows, SendingOK
  <2>5. draining' = draining
    BY <1>3
  <2> QED BY <2>0, <2>2, <2>3, <2>4, <2>5 DEF SendingOK
<1> QED BY <1>1, <1>3, <1>4, <1>6, <1>7 DEF Rows

LEMMA RowsSite ==
  ASSUME IInv, Next, NEW d \in Command, AtSite(d)
  PROVE  Rows'
<1>1. status' = status /\ rollup' = rollup /\ (Quiet(d) \/ Closing(d))
  BY AtSiteEffect
<1>2. CASE Quiet(d)
  BY <1>1, <1>2, RowsSame DEF Quiet, queueVars
<1> QED BY <1>1, <1>2, RowsClosing

LEMMA RowsRestart ==
  ASSUME IInv, Next, SiteRestart
  PROVE  Rows'
<1>1. TypeOK /\ Rows
  BY DEF IInv, Rows
<1>2. /\ UNCHANGED <<request, status, rollup, inbox, raised, queue, snaps>>
      /\ draining' = NoRow
  BY SiteRestartEffect
<1> QED BY <1>1, <1>2 DEF Rows, RowOK, SendingOK, Reports, ForAgents

\* The steps of the coordinator on its own, and what a command may become by them.
AtCoordinator ==
  \/ Suspend \/ Resume \/ Remove \/ CoordRestart
  \/ \E c \in Command : Dispatch(c) \/ PushStart(c) \/ PushEnds(c)

AtQueue ==
  \/ Snapshot \/ (\E k \in Key : DrainStart(k)) \/ DrainEnds
  \/ \E keep \in 0..Cardinality(Key) : Purge(keep)

LEMMA ElsewhereSteps == Elsewhere => AtCoordinator \/ AtQueue \/ Ingest
BY DEF Elsewhere, AtCoordinator, AtQueue

LEMMA CoordinatorEffect ==
  ASSUME TypeOK, AtCoordinator
  PROVE  /\ UNCHANGED <<request, inboxVars, queueVars, rollup>>
         /\ \A c \in Command :
              \/ status'[c] = status[c] /\ pushes'[c] = pushes[c]
              \/ status[c] = "none" /\ status'[c] = "queued_at_site" /\ pushes'[c] = pushes[c]
              \/ /\ status[c] \notin Verdict /\ status[c] # "none"
                 /\ status'[c] = "in_progress" /\ pushes'[c] = pushes[c]
              \/ /\ pushing[c] # "no" /\ pushes'[c] = pushes[c] + 1
                 /\ status'[c] = IF DeadLettered(pushes'[c]) THEN "failed" ELSE status[c]
<1> DEFINE Effect == /\ UNCHANGED <<request, inboxVars, queueVars, rollup>>
                     /\ \A c \in Command :
                          \/ status'[c] = status[c] /\ pushes'[c] = pushes[c]
                          \/ status[c] = "none" /\ status'[c] = "queued_at_site" /\ pushes'[c] = pushes[c]
                          \/ /\ status[c] \notin Verdict /\ status[c] # "none"
                             /\ status'[c] = "in_progress" /\ pushes'[c] = pushes[c]
                          \/ /\ pushing[c] # "no" /\ pushes'[c] = pushes[c] + 1
                             /\ status'[c] = IF DeadLettered(pushes'[c]) THEN "failed" ELSE status[c]
<1>1. CASE Suspend \/ Resume \/ Remove \/ CoordRestart
  BY <1>1 DEF Suspend, Resume, Remove, CoordRestart, coordVars
<1>2. ASSUME NEW d \in Command, Dispatch(d) PROVE Effect
  BY <1>2 DEF Dispatch, TypeOK
<1>3. ASSUME NEW d \in Command, PushStart(d) PROVE Effect
  BY <1>3 DEF PushStart
<1>4. ASSUME NEW d \in Command, PushOk(d) PROVE Effect
  <2>1. "in_progress" \in Allowed(status[d]) => status[d] \notin Verdict /\ status[d] # "none"
    BY DEF Allowed, Verdict
  <2> QED BY <1>4, <2>1 DEF PushOk, TypeOK
<1>5. ASSUME NEW d \in Command, PushFail(d) PROVE Effect
  BY <1>5 DEF PushFail, TypeOK
<1> QED BY <1>1, <1>2, <1>3, <1>4, <1>5 DEF AtCoordinator, PushEnds

LEMMA RowsCoordinator ==
  ASSUME IInv, Next, AtCoordinator
  PROVE  Rows'
<1>1. TypeOK
  BY DEF IInv
<1>2. UNCHANGED <<queue, draining, snaps, rollup>>
  BY <1>1, CoordinatorEffect DEF queueVars
<1>3. \A c \in Command : status[c] \in Verdict => status'[c] \in Verdict
  BY <1>1, CoordinatorEffect DEF Verdict
<1> QED BY <1>2, <1>3, RowsSame

\* A row arrives and is taken, or refused.
LEMMA IngestEffect ==
  ASSUME TypeOK, Ingest
  PROVE  /\ draining # NoRow /\ draining.phase = "sent"
         /\ draining' # NoRow /\ draining'.key = draining.key /\ draining'.value = draining.value
         /\ draining'.row = draining.row
         /\ UNCHANGED <<request, pushes, pushing, inboxVars, queue, snaps, dropped>>
         /\ \/ status' = status /\ rollup' = rollup /\ draining'.phase = "refused"
            \/ /\ draining.key = Rollup /\ status' = status /\ rollup' = draining.value
               /\ draining'.phase = "taken"
            \/ /\ draining.key # Rollup /\ rollup' = rollup /\ draining'.phase = "taken"
               /\ status[draining.key] \in {"queued_at_site", "in_progress"}
               /\ status' = [status EXCEPT ![draining.key] = draining.value]
<1>1. draining # NoRow /\ draining.key \in Key /\ draining \in Sending(draining.key) /\ draining.phase = "sent"
  BY DEF TypeOK, Ingest
<1>2. PICK p \in {"taken", "refused"} : draining' = [draining EXCEPT !.phase = p]
  BY DEF Ingest
<1>3. draining' \in Sending(draining.key) /\ draining'.phase = p
      /\ draining'.key = draining.key /\ draining'.value = draining.value /\ draining'.row = draining.row
  BY <1>1, <1>2 DEF Sending
<1>4. draining' # NoRow
  BY <1>1, <1>3, SendingFields
<1>5. UNCHANGED <<request, pushes, pushing, inboxVars, queue, snaps, dropped>>
  BY DEF Ingest
<1>6. \A q \in {"taken", "refused"} : [draining EXCEPT !.phase = q].phase = q
  BY <1>1 DEF Sending
<1>7. CASE draining.key = Rollup
  BY <1>1, <1>3, <1>4, <1>5, <1>6, <1>7 DEF Ingest
<1>8. CASE draining.key # Rollup
  <2>1. Open(draining.key) => status[draining.key] \in {"queued_at_site", "in_progress"}
    BY DEF Open, Allowed, Verdict
  <2> QED BY <1>1, <1>3, <1>4, <1>5, <1>6, <1>8, <2>1 DEF Ingest
<1> QED BY <1>7, <1>8

LEMMA RowsIngest ==
  ASSUME IInv, Next, Ingest
  PROVE  Rows'
<1>1. TypeOK /\ Rows
  BY DEF IInv, Rows
<1>2. /\ draining # NoRow /\ draining.phase = "sent"
      /\ draining' # NoRow /\ draining'.key = draining.key /\ draining'.value = draining.value
      /\ draining'.row = draining.row
      /\ UNCHANGED <<request, inbox, raised, queue, snaps>>
      /\ \/ status' = status /\ rollup' = rollup /\ draining'.phase = "refused"
         \/ /\ draining.key = Rollup /\ status' = status /\ rollup' = draining.value
            /\ draining'.phase = "taken"
         \/ /\ draining.key # Rollup /\ rollup' = rollup /\ draining'.phase = "taken"
            /\ status' = [status EXCEPT ![draining.key] = draining.value]
  BY <1>1, IngestEffect DEF inboxVars
<1>3. /\ draining.key # Rollup => draining.key \in Command /\ draining.value \in Verdict
      /\ status \in [Command -> {"none", "queued_at_site", "in_progress"} \cup Verdict]
  BY <1>1, <1>2, SentVerdict DEF TypeOK
<1>4. \A k \in Key : RowOK(k)'
  BY <1>1, <1>2 DEF Rows, RowOK, Reports, ForAgents
<1>5. rollup' <= snaps'
  BY <1>1, <1>2 DEF Rows, SendingOK
<1>6. SendingOK'
  <2>0. PICK k \in Key : k = draining.key
    BY <1>1, <1>2, SentVerdict
  <2>1. k # Rollup => Reports(k) /\ inbox[k] = draining.value
    BY <1>1, <1>2, <2>0 DEF Rows, SendingOK
  <2>2. k # Rollup => Reports(k)' /\ inbox'[k] = draining'.value
    BY <1>2, <2>1 DEF Reports, ForAgents
  <2>3. draining'.row => queue'[k] # NoRow /\ queue'[k].attempts < MaxAttempts
    BY <1>1, <1>2, <2>0 DEF Rows, SendingOK
  <2>4. k # Rollup /\ draining'.phase = "taken" => status'[k] \in Verdict
    BY <1>2, <1>3, <2>0
  <2>5. k = Rollup => /\ draining'.value <= snaps'
                      /\ draining'.phase # "sent"
                      /\ draining'.phase = "taken" => rollup' = draining'.value
    BY <1>1, <1>2, <2>0 DEF Rows, SendingOK
  <2>6. draining'.key = k
    BY <1>2, <2>0
  <2> QED BY <2>2, <2>3, <2>4, <2>5, <2>6 DEF SendingOK
<1> QED BY <1>4, <1>5, <1>6 DEF Rows

\* What the sync queue is for: no verdict is lost, nor the newest rollup.
Tables == Rows /\ SettledIsReported /\ NewestRollupKept

LEMMA QueueEffect ==
  ASSUME AtQueue
  PROVE  UNCHANGED <<request, status, pushes, pushing, rollup, inboxVars>>
BY DEF AtQueue, Snapshot, DrainStart, DrainEnds, DrainOk, DrainFail, Purge, coordVars

\* A row changes nothing for the others.
LEMMA OtherRows ==
  ASSUME TypeOK, UNCHANGED <<request, inbox, raised>>, NEW k \in Key, RowOK(k),
         queue'[k] = NoRow \/ (queue[k] # NoRow /\ queue'[k].value = queue[k].value), snaps' = snaps
  PROVE  RowOK(k)'
BY DEF RowOK, Reports, ForAgents

\* The verdicts and the newest rollup when rows are kept or dropped.
LEMMA ReportsKept ==
  ASSUME IInv, UNCHANGED <<request, inbox, raised, rollup, snaps>>,
         \A c \in Command : status[c] \in Verdict => status'[c] \in Verdict,
         dropped \subseteq dropped',
         \A k \in Key : queue[k] # NoRow =>
            \/ queue'[k] # NoRow /\ queue'[k].value = queue[k].value
            \/ k \in dropped'
            \/ k # Rollup /\ status'[k] \in Verdict
            \/ k = Rollup /\ rollup = snaps
  PROVE  SettledIsReported' /\ NewestRollupKept'
<1>1. SettledIsReported /\ NewestRollupKept /\ Rollup \in Key /\ Rollup \notin Command /\ Command \subseteq Key
  BY CommandsAssumption DEF IInv, Key
<1>2. SettledIsReported'
  <2> SUFFICES ASSUME NEW c \in Command, Reports(c)', inbox'[c] \in Verdict
               PROVE  \/ queue'[c] # NoRow /\ queue'[c].value = inbox'[c]
                      \/ status'[c] \in Verdict
                      \/ c \in dropped'
    BY DEF SettledIsReported
  <2>1. \/ queue[c] # NoRow /\ queue[c].value = inbox[c]
        \/ status[c] \in Verdict
        \/ c \in dropped
    BY <1>1 DEF SettledIsReported, Reports, ForAgents
  <2> QED BY <1>1, <2>1
<1>3. NewestRollupKept'
  BY <1>1 DEF NewestRollupKept
<1> QED BY <1>2, <1>3

LEMMA TablesSnapshot ==
  ASSUME IInv, Snapshot
  PROVE  Tables'
<1>1. TypeOK /\ Rows /\ SettledIsReported /\ NewestRollupKept
  BY DEF IInv, Rows
<1>2. PICK t \in Instants : queue' = Enqueue(queue, Rollup, snaps', t)
  BY DEF Snapshot
<1>3. /\ snaps' = snaps + 1 /\ snaps \in Nat /\ rollup \in Nat /\ rollup <= snaps
      /\ t \in Nat /\ snaps' \in Payload(Rollup) /\ Rollup \in Key /\ Rollup \notin Command
      /\ Command \subseteq Key
  BY <1>1, InstantsNat, CommandsAssumption DEF Snapshot, TypeOK, Rows, Payload, Key
<1>4. /\ queue'[Rollup] # NoRow /\ queue'[Rollup].value = snaps' /\ queue'[Rollup].attempts < MaxAttempts
      /\ \A k \in Key \ {Rollup} : queue'[k] = queue[k]
  BY <1>1, <1>2, <1>3, QueueTyped, EnqueueRow
<1>5. /\ UNCHANGED <<request, status, rollup, inbox, raised, draining>> /\ dropped' = dropped \ {Rollup}
  BY DEF Snapshot, coordVars, inboxVars
<1>6. ASSUME NEW k \in Key PROVE RowOK(k)'
  BY <1>1, <1>4, <1>5 DEF Rows, RowOK, Reports, ForAgents
<1>7. SendingOK'
  <2> SUFFICES ASSUME draining # NoRow PROVE SendingOK'
    BY <1>5 DEF SendingOK
  <2>1. PICK k \in Key : k = draining.key
    BY <1>1, SentVerdict
  <2>2. draining.row => queue'[k] # NoRow /\ queue'[k].attempts < MaxAttempts
    BY <1>1, <1>4, <2>1 DEF Rows, SendingOK
  <2>3. k # Rollup => /\ Reports(k)' /\ inbox'[k] = draining.value
                      /\ draining.phase = "taken" => status'[k] \in Verdict
    BY <1>1, <1>5, <2>1 DEF Rows, SendingOK, Reports, ForAgents
  <2>4. k = Rollup => /\ draining.value <= snaps'
                      /\ rollup' # snaps'
                      /\ draining.phase = "taken" => rollup' = draining.value
    <3>1. k = Rollup => draining.value \in Nat /\ draining.value <= snaps
                        /\ (draining.phase = "taken" => rollup = draining.value)
      BY <1>1, <2>1, SentVerdict DEF Rows, SendingOK
    <3> QED BY <1>3, <1>5, <3>1
  <2> QED BY <1>5, <2>1, <2>2, <2>3, <2>4 DEF SendingOK
<1>8. rollup' <= snaps'
  BY <1>3, <1>5
<1>9. SettledIsReported'
  BY <1>1, <1>3, <1>4, <1>5 DEF SettledIsReported, Reports, ForAgents
<1>10. NewestRollupKept'
  BY <1>4 DEF NewestRollupKept
<1> QED BY <1>6, <1>7, <1>8, <1>9, <1>10 DEF Tables, Rows

LEMMA TablesDrainStart ==
  ASSUME IInv, NEW k \in Key, DrainStart(k)
  PROVE  Tables'
<1>1. TypeOK /\ Rows /\ SettledIsReported /\ NewestRollupKept
  BY DEF IInv, Rows
<1>2. /\ UNCHANGED <<request, status, rollup, inbox, raised, queue, snaps, dropped>>
      /\ draining' = [key |-> k, value |-> queue[k].value, phase |-> "sent", row |-> TRUE]
      /\ queue[k] # NoRow /\ queue[k].attempts \in Nat /\ queue[k].attempts < MaxAttempts
  <2>1. queue[k] # NoRow /\ ~ DeadLettered(queue[k].attempts)
    BY DEF DrainStart, Ready, Queued
  <2>2. queue[k].attempts \in Nat /\ MaxAttempts \in Nat
    BY <1>1, <2>1, QueuedVerdict, AttemptsAssumption
  <2> QED BY <2>1, <2>2 DEF DrainStart, DeadLettered, coordVars, inboxVars
<1>3. \A j \in Key : RowOK(j)'
  BY <1>1, <1>2 DEF Rows, RowOK, Reports, ForAgents
<1>4. SendingOK'
  <2>1. /\ draining'.key = k /\ draining'.value = queue[k].value /\ draining'.phase = "sent"
    BY <1>2
  <2>2. IF k = Rollup THEN queue[k].value = snaps /\ snaps \in Nat
                      ELSE Reports(k)' /\ inbox'[k] = queue[k].value
    BY <1>1, <1>2 DEF Rows, RowOK, Reports, ForAgents, TypeOK
  <2> QED BY <1>2, <2>1, <2>2 DEF SendingOK
<1>5. SettledIsReported' /\ NewestRollupKept' /\ rollup' <= snaps'
  BY <1>1, <1>2 DEF SettledIsReported, NewestRollupKept, Reports, ForAgents, Rows
<1> QED BY <1>3, <1>4, <1>5 DEF Tables, Rows

LEMMA TablesDrainEnds ==
  ASSUME IInv, DrainEnds
  PROVE  Tables'
<1>1. TypeOK /\ Rows /\ SendingOK /\ SettledIsReported /\ NewestRollupKept /\ QueueType(queue)
      /\ \A k \in Key : RowOK(k)
  BY QueueTyped DEF IInv, Rows
<1>2. /\ UNCHANGED <<request, status, rollup, inbox, raised, snaps>> /\ draining' = NoRow
      /\ draining # NoRow
  BY DEF DrainEnds, DrainOk, DrainFail, coordVars, inboxVars
<1>3. PICK k \in Key : k = draining.key
  BY <1>1, <1>2, SentVerdict
<1>4. /\ dropped \subseteq dropped'
      /\ \A j \in Key \ {k} : queue'[j] = queue[j]
      /\ queue'[k] = NoRow \/ (queue[k] # NoRow /\ queue'[k].value = queue[k].value)
      /\ queue[k] # NoRow =>
            \/ queue'[k] # NoRow /\ queue'[k].value = queue[k].value
            \/ k \in dropped'
            \/ k # Rollup /\ status[k] \in Verdict
            \/ k = Rollup /\ rollup = snaps
  <2>1. CASE queue' = queue /\ dropped' = dropped
    BY <2>1
  <2>2. CASE DrainOk /\ draining.row
    <3>1. /\ queue' = MarkSent(queue, k) /\ draining.phase = "taken"
          /\ dropped' = IF queue[k].value = draining.value THEN dropped ELSE dropped \cup {k}
      BY <1>3, <2>2 DEF DrainOk
    <3>2. queue[k] # NoRow
      BY <1>1, <1>2, <1>3, <2>2 DEF SendingOK
    <3>3. k # Rollup => status[k] \in Verdict
      BY <1>1, <1>2, <1>3, <3>1 DEF SendingOK
    <3>4. k = Rollup => rollup = draining.value /\ queue[k].value = snaps
      BY <1>1, <1>2, <1>3, <3>1, <3>2 DEF SendingOK, RowOK
    <3> QED BY <1>1, <3>1, <3>3, <3>4, MarkSentRow
  <2>3. CASE DrainFail /\ draining.row
    <3>1. queue' = MarkFailed(queue, k) /\ dropped' = dropped
      BY <1>3, <2>3 DEF DrainFail
    <3>2. queue[k] # NoRow /\ queue[k].attempts < MaxAttempts
      BY <1>1, <1>2, <1>3, <2>3 DEF SendingOK
    <3> QED BY <1>1, <3>1, <3>2, MarkFailedRow
  <2> QED BY <2>1, <2>2, <2>3 DEF DrainEnds, DrainOk, DrainFail
<1>5. \A j \in Key : RowOK(j)'
  BY <1>1, <1>2, <1>4, OtherRows
<1>6. SendingOK' /\ rollup' <= snaps'
  BY <1>1, <1>2 DEF SendingOK, Rows
<1>7. \A j \in Key : queue[j] # NoRow =>
            \/ queue'[j] # NoRow /\ queue'[j].value = queue[j].value
            \/ j \in dropped'
            \/ j # Rollup /\ status'[j] \in Verdict
            \/ j = Rollup /\ rollup = snaps
  BY <1>2, <1>4
<1>8. SettledIsReported' /\ NewestRollupKept'
  BY <1>2, <1>4, <1>7, ReportsKept
<1> QED BY <1>5, <1>6, <1>8 DEF Tables, Rows

LEMMA TablesPurge ==
  ASSUME IInv, NEW keep, Purge(keep)
  PROVE  Tables'
<1>1. TypeOK /\ Rows /\ SendingOK /\ SettledIsReported /\ NewestRollupKept /\ QueueType(queue)
      /\ \A k \in Key : RowOK(k)
  BY QueueTyped DEF IInv, Rows
<1> DEFINE gone == TooMany(queue, keep)
<1>2. /\ UNCHANGED <<request, status, rollup, inbox, raised, snaps>> /\ dropped' = dropped \cup gone
      /\ queue' = PurgeOldest(queue, keep)
      /\ draining' = IF draining # NoRow /\ draining.key \in gone
                     THEN [draining EXCEPT !.row = FALSE] ELSE draining
  BY DEF Purge, coordVars, inboxVars
<1>3. \A k \in Key : queue'[k] = IF k \in gone THEN NoRow ELSE queue[k]
  BY <1>1, <1>2, PurgedRows
<1> HIDE DEF gone
<1>4. \A k \in Key : RowOK(k)'
  <2> SUFFICES ASSUME NEW k \in Key PROVE RowOK(k)'
    OBVIOUS
  <2>1. CASE k \in gone
    BY <1>3, <2>1 DEF RowOK
  <2>2. CASE k \notin gone
    BY <1>1, <1>2, <1>3, <2>2 DEF RowOK, Reports, ForAgents
  <2> QED BY <2>1, <2>2
<1>5. SendingOK'
  <2> SUFFICES ASSUME draining # NoRow PROVE SendingOK'
    BY <1>2 DEF SendingOK
  <2>1. PICK k \in Key : k = draining.key
    BY <1>1, SentVerdict
  <2>2. /\ draining'.key = k /\ draining'.value = draining.value /\ draining'.phase = draining.phase
        /\ draining'.row => draining.row /\ k \notin gone
    <3>1. draining \in Sending(k)
      BY <1>1, <2>1 DEF TypeOK
    <3> QED BY <1>2, <2>1, <3>1 DEF Sending
  <2>3. draining'.row => queue'[k] # NoRow /\ queue'[k].attempts < MaxAttempts
    BY <1>1, <1>3, <2>1, <2>2 DEF SendingOK
  <2>4. /\ k # Rollup => /\ Reports(k)' /\ inbox'[k] = draining.value
                         /\ draining.phase = "taken" => status'[k] \in Verdict
        /\ k = Rollup => /\ draining.value <= snaps'
                         /\ draining.phase = "sent" /\ rollup' = snaps' => draining.value = snaps'
                         /\ draining.phase = "taken" => rollup' = draining.value
    BY <1>1, <1>2, <2>1 DEF SendingOK, Reports, ForAgents
  <2> QED BY <2>2, <2>3, <2>4 DEF SendingOK
<1>6. \A j \in Key : queue[j] # NoRow =>
            (queue'[j] # NoRow /\ queue'[j].value = queue[j].value) \/ j \in dropped'
  BY <1>2, <1>3
<1>7. SettledIsReported' /\ NewestRollupKept'
  BY <1>2, <1>6, ReportsKept
<1>8. rollup' <= snaps'
  BY <1>1, <1>2 DEF Rows
<1> QED BY <1>4, <1>5, <1>7, <1>8 DEF Tables, Rows

\* The same when the rows stay: no new verdict, and no older rollup.
LEMMA ReportsSame ==
  ASSUME IInv, UNCHANGED <<queue, snaps, dropped>>, rollup = snaps => rollup' = snaps,
         \A c \in Command : status[c] \in Verdict => status'[c] \in Verdict,
         \A c \in Command : Reports(c)' /\ inbox'[c] \in Verdict
                              => Reports(c) /\ inbox[c] = inbox'[c]
  PROVE  SettledIsReported' /\ NewestRollupKept'
<1>1. SettledIsReported /\ NewestRollupKept
  BY DEF IInv
<1>2. SettledIsReported'
  BY <1>1 DEF SettledIsReported
<1>3. NewestRollupKept'
  BY <1>1 DEF NewestRollupKept
<1> QED BY <1>2, <1>3

LEMMA TablesCoordinator ==
  ASSUME IInv, Next, AtCoordinator
  PROVE  Tables'
<1>1. TypeOK
  BY DEF IInv
<1>2. UNCHANGED <<request, inbox, raised, queue, snaps, dropped, rollup>>
  BY <1>1, CoordinatorEffect DEF queueVars, inboxVars
<1>3. \A c \in Command : status[c] \in Verdict => status'[c] \in Verdict
  BY <1>1, CoordinatorEffect DEF Verdict
<1>4. SettledIsReported' /\ NewestRollupKept'
  BY <1>2, <1>3, ReportsSame DEF Reports, ForAgents
<1> QED BY <1>4, RowsCoordinator DEF Tables

LEMMA TablesIngest ==
  ASSUME IInv, Next, Ingest
  PROVE  Tables'
<1>1. TypeOK /\ SendingOK
  BY DEF IInv
<1>2. /\ draining # NoRow /\ draining.phase = "sent"
      /\ UNCHANGED <<request, inbox, raised, queue, snaps, dropped>>
      /\ \/ status' = status /\ rollup' = rollup
         \/ draining.key = Rollup /\ status' = status /\ rollup' = draining.value
         \/ /\ draining.key # Rollup /\ rollup' = rollup
            /\ status' = [status EXCEPT ![draining.key] = draining.value]
  BY <1>1, IngestEffect DEF inboxVars
<1>3. rollup = snaps => rollup' = snaps
  <2>1. draining.key = Rollup /\ rollup = snaps => draining.value = snaps
    BY <1>1, <1>2 DEF SendingOK
  <2> QED BY <1>2, <2>1
<1>4. \A c \in Command : status[c] \in Verdict => status'[c] \in Verdict
  <2>1. draining.key # Rollup => draining.key \in Command /\ draining.value \in Verdict
    BY <1>1, <1>2, SentVerdict
  <2>2. status \in [Command -> {"none", "queued_at_site", "in_progress"} \cup Verdict]
    BY <1>1 DEF TypeOK
  <2> QED BY <1>2, <2>1, <2>2
<1>5. SettledIsReported' /\ NewestRollupKept'
  BY <1>2, <1>3, <1>4, ReportsSame DEF Reports, ForAgents
<1> QED BY <1>5, RowsIngest DEF Tables

LEMMA TablesRestart ==
  ASSUME IInv, Next, SiteRestart
  PROVE  Tables'
<1>1. UNCHANGED <<request, status, rollup, inbox, raised, queue, snaps, dropped>>
  BY SiteRestartEffect
<1>2. SettledIsReported' /\ NewestRollupKept'
  BY <1>1, ReportsSame DEF Reports, ForAgents
<1> QED BY <1>2, RowsRestart DEF Tables

LEMMA TablesSite ==
  ASSUME IInv, Next, NEW d \in Command, AtSite(d)
  PROVE  Tables'
<1>1. TypeOK /\ SettledIsReported /\ NewestRollupKept
  BY DEF IInv
<1>2. /\ UNCHANGED <<request, status, rollup>>
      /\ \A c \in Command \ {d} : inbox'[c] = inbox[c]
      /\ Quiet(d) \/ Closing(d)
  BY AtSiteEffect
<1>3. CASE Quiet(d)
  <2>1. UNCHANGED <<queue, snaps, dropped, raised>>
    BY <1>3 DEF Quiet, queueVars
  <2>2. Reports(d) /\ inbox'[d] \in Verdict => inbox[d] = inbox'[d]
    BY <1>3 DEF Quiet, Verdict
  <2>3. SettledIsReported' /\ NewestRollupKept'
    BY <1>2, <2>1, <2>2, ReportsSame DEF Reports, ForAgents
  <2> QED BY <2>3, RowsSite DEF Tables
<1>4. CASE Closing(d)
  <2>1. PICK v \in Verdict : inbox'[d] = v /\ Report(d, v)
    BY <1>4 DEF Closing
  <2>2. /\ queue'[d] # NoRow /\ queue'[d].value = v
        /\ \A k \in Key \ {d} : queue'[k] = queue[k]
        /\ snaps' = snaps /\ dropped' = dropped
    BY <1>1, <2>1, ReportRow
  <2>3. SettledIsReported'
    <3> SUFFICES ASSUME NEW c \in Command, Reports(c)', inbox'[c] \in Verdict
                 PROVE  \/ queue'[c] # NoRow /\ queue'[c].value = inbox'[c]
                        \/ status'[c] \in Verdict
                        \/ c \in dropped'
      BY DEF SettledIsReported
    <3>1. CASE c = d
      BY <2>1, <2>2, <3>1
    <3>2. CASE c # d
      <4>1. inbox'[c] = inbox[c] /\ Reports(c) /\ c \in Key \ {d}
        BY <1>2, <1>4, <3>2 DEF Closing, Reports, ForAgents, Key
      <4> QED BY <1>1, <1>2, <2>2, <4>1 DEF SettledIsReported
    <3> QED BY <3>1, <3>2
  <2>4. NewestRollupKept'
    <3>1. Rollup \in Key \ {d}
      BY CommandsAssumption DEF Key
    <3> QED BY <1>1, <1>2, <2>2, <3>1 DEF NewestRollupKept
  <2> QED BY <2>3, <2>4, RowsSite DEF Tables
<1> QED BY <1>2, <1>3, <1>4

LEMMA TablesStep ==
  ASSUME IInv, Next
  PROVE  Tables'
<1>1. CASE AtQueue
  BY <1>1, TablesSnapshot, TablesDrainStart, TablesDrainEnds, TablesPurge DEF AtQueue
<1> QED BY <1>1, Steps, ElsewhereSteps, TablesCoordinator, TablesIngest, TablesRestart, TablesSite

-----------------------------------------------------------------------------
(* What the coordinator knows.                                             *)

\* It learned it from the site, or gave the site up.
LEMMA VerdictsStep ==
  ASSUME IInv, TypeOK', Next, NEW c \in Command
  PROVE  Verdicts(c)'
<1>1. /\ TypeOK /\ SendingOK /\ Verdicts(c) /\ Pushed(c)
      /\ pushes[c] \in Nat /\ MaxAttempts \in Nat
  BY AttemptsAssumption DEF IInv, TypeOK
<1>2. /\ Reports(c) /\ inbox[c] \in Verdict => inbox'[c] = inbox[c]
      /\ Reports(c) => Reports(c)'
  BY VerdictStays
<1>3. CASE status'[c] = status[c] /\ pushes'[c] = pushes[c]
  BY <1>1, <1>2, <1>3 DEF Verdicts, GivenUp, Verdict
<1>4. CASE AtCoordinator
  <2>1. inbox' = inbox
    BY <1>1, <1>4, CoordinatorEffect DEF inboxVars
  <2>2. \/ status'[c] = status[c] /\ pushes'[c] = pushes[c]
        \/ status'[c] \in {"queued_at_site", "in_progress"}
        \/ /\ pushing[c] # "no" /\ pushes'[c] = pushes[c] + 1
           /\ status'[c] = IF DeadLettered(pushes'[c]) THEN "failed" ELSE status[c]
    BY <1>1, <1>4, CoordinatorEffect
  <2>3. CASE status'[c] \in {"queued_at_site", "in_progress"}
    BY <2>3 DEF Verdicts
  <2>4. CASE /\ pushing[c] # "no" /\ pushes'[c] = pushes[c] + 1
             /\ status'[c] = IF DeadLettered(pushes'[c]) THEN "failed" ELSE status[c]
    <3>1. pushes[c] < MaxAttempts
      BY <1>1, <2>4 DEF Pushed
    <3>2. ~ GivenUp(c)
      BY <1>1, <3>1 DEF GivenUp, DeadLettered
    <3> QED BY <1>1, <1>2, <2>1, <2>4, <3>2 DEF Verdicts, GivenUp
  <2> QED BY <1>3, <2>2, <2>3, <2>4
<1>5. CASE Ingest
  <2>1. /\ draining # NoRow /\ UNCHANGED <<pushes, inbox, raised>>
        /\ \/ status' = status
           \/ /\ draining.key # Rollup
              /\ status' = [status EXCEPT ![draining.key] = draining.value]
    BY <1>1, <1>5, IngestEffect DEF inboxVars
  <2>2. CASE status'[c] # status[c]
    <3>1. draining.key = c /\ c # Rollup /\ status'[c] = draining.value
      BY <1>1, <2>1, <2>2 DEF TypeOK
    <3>2. Reports(c) /\ inbox[c] = draining.value
      BY <1>1, <2>1, <3>1 DEF SendingOK
    <3> QED BY <1>2, <2>1, <3>1, <3>2 DEF Verdicts
  <2> QED BY <1>3, <2>1, <2>2
<1>6. ASSUME AtQueue \/ SiteRestart \/ \E d \in Command : AtSite(d) PROVE Verdicts(c)'
  BY <1>3, <1>6, QueueEffect, SiteRestartEffect, AtSiteEffect
<1> QED BY <1>4, <1>5, <1>6, Steps, ElsewhereSteps

-----------------------------------------------------------------------------
(* The invariant.                                                          *)

LEMMA InitiallyInv == Init => IInv
<1> SUFFICES ASSUME Init PROVE IInv
  OBVIOUS
<1>1. TypeOK
  BY TypeInit
<1>2. ASSUME NEW c \in Command PROVE Pushed(c) /\ Orders(c) /\ Answers(c) /\ Verdicts(c) /\ Raised(c)
  <2>1. request[c].kind \in Kind /\ \A h \in Host : Times(c, h) \in Nat
    BY <1>1, Targets, TimesListed
  <2>2. Reported(results[c]) = {}
    BY DEF Init, Reported
  <2>3. Orders(c)
    BY <2>1 DEF Init, Orders, Planned
  <2> QED BY <2>2, <2>3 DEF Init, Pushed, Answers, Verdicts, Raised, Verdict
<1>3. \A k \in Key : RowOK(k)
  BY DEF Init, RowOK
<1>4. SendingOK /\ rollup <= snaps /\ SettledIsReported /\ NewestRollupKept
  BY DEF Init, SendingOK, SettledIsReported, NewestRollupKept, Verdict
<1> QED BY <1>1, <1>2, <1>3, <1>4 DEF IInv

LEMMA StutterInv == IInv /\ UNCHANGED vars => IInv'
<1> SUFFICES ASSUME IInv, UNCHANGED vars PROVE IInv'
  OBVIOUS
<1> USE DEF vars, coordVars, inboxVars, queueVars
<1>1. TypeOK'
  BY DEF IInv, TypeOK
<1>2. ASSUME NEW c \in Command PROVE (Pushed(c) /\ Orders(c) /\ Answers(c) /\ Verdicts(c) /\ Raised(c))'
  <2>1. Same(c)
    BY <1>1 DEF Same, TypeOK
  <2>2. TypeOK /\ Orders(c) /\ Answers(c) /\ Pushed(c) /\ Verdicts(c) /\ Raised(c)
    BY DEF IInv
  <2>3. Orders(c)' /\ Answers(c)'
    BY <1>1, <2>1, <2>2, SiteSame
  <2> QED BY <2>2, <2>3 DEF Pushed, Verdicts, Raised, GivenUp, Reports, ForAgents
<1>3. \A k \in Key : RowOK(k)'
  BY DEF IInv, RowOK, Reports, ForAgents
<1>4. SendingOK' /\ rollup' <= snaps'
  BY DEF IInv, SendingOK, Reports, ForAgents
<1>5. SettledIsReported' /\ NewestRollupKept'
  BY DEF IInv, SettledIsReported, NewestRollupKept, Reports, ForAgents
<1> QED BY <1>1, <1>2, <1>3, <1>4, <1>5 DEF IInv

\* The invariant: what is pushed, ordered, answered and told of a command, and what
\* the rows on their way to the coordinator say, agree in every state.
THEOREM Invariant == Spec => []IInv
<1>1. IInv /\ [Next]_vars => IInv'
  <2> SUFFICES ASSUME IInv, Next PROVE IInv'
    BY StutterInv
  <2>1. TypeOK'
    BY TypeStep
  <2>2. ASSUME NEW c \in Command PROVE (Pushed(c) /\ Orders(c) /\ Answers(c) /\ Verdicts(c) /\ Raised(c))'
    BY <2>1, PushedStep, SiteStep, VerdictsStep, RaisedStep
  <2>3. Tables'
    BY TablesStep
  <2> QED BY <2>1, <2>2, <2>3 DEF IInv, Tables, Rows
<1> QED BY <1>1, InitiallyInv, PTL DEF Spec

\* The types of the variables, whatever is dispatched, lost, retried or restarted.
THEOREM TypeCorrect == Spec => []TypeOK
<1>1. IInv => TypeOK
  BY DEF IInv
<1> QED BY <1>1, Invariant, PTL

\* The operator is told the truth: completed means that every host succeeded,
\* failed that the site failed or was given up.
THEOREM VerdictsAreHonest == Spec => []VerdictHonest
<1>1. IInv => VerdictHonest
  BY DEF IInv, Verdicts, Answers, Raised, Reports, VerdictHonest
<1> QED BY <1>1, Invariant, PTL

\* No host is sent a command more often than it is listed for.
THEOREM OrdersAreNotRepeated == Spec => []OneOrderPerTarget
<1>1. IInv => OneOrderPerTarget
  <2> SUFFICES ASSUME IInv, NEW c \in Command, NEW h \in Host
               PROVE  ordered[c][h] <= IF request[c].kind = "pull" THEN 1 + faults
                                       ELSE IF All(c) THEN 1 ELSE Times(c, h)
    BY DEF OneOrderPerTarget
  <2>1. TypeOK /\ Orders(c)
    BY DEF IInv
  <2>2. CASE request[c].kind = "pull"
    <3>1. /\ ordered[c][h] \in Nat /\ faults \in Nat /\ Planned(c) \in 0..1
          /\ ordered[c][h] <= faults + Planned(c)
      BY <2>1, <2>2, SiteTypes DEF Orders, Planned
    <3> QED BY <2>2, <3>1
  <2>3. CASE request[c].kind # "pull"
    BY <2>1, <2>3 DEF Orders
  <2> QED BY <2>2, <2>3
<1> QED BY <1>1, Invariant, PTL

\* A verdict the site reached is queued, or the coordinator has closed the command, or it was purged.
THEOREM VerdictsAreKept == Spec => []SettledIsReported
<1>1. IInv => SettledIsReported
  BY DEF IInv
<1> QED BY <1>1, Invariant, PTL

\* The newest rollup is queued or has arrived.
THEOREM RollupsAreKept == Spec => []NewestRollupKept
<1>1. IInv => NewestRollupKept
  BY DEF IInv
<1> QED BY <1>1, Invariant, PTL

\* A command that is under way has an answer to come that will be routed.
THEOREM AnswersAreAwaited == Spec => []SomeoneWillAnswer
<1>1. IInv => SomeoneWillAnswer
  <2> SUFFICES ASSUME IInv, NEW c \in Command, inbox[c] = "in_progress", c \notin unheard,
                      \A h \in Host : ~ (Times(c, h) > 1)
               PROVE  \E h \in Host : awaiting[c][h] > 0
    BY DEF SomeoneWillAnswer
  <2>1. TypeOK /\ Answers(c)
    BY DEF IInv
  <2>2. /\ expected[c] \in Nat /\ Mirror \in Host /\ Meant(c) \in SUBSET Host
        /\ \A h \in Host : Times(c, h) <= 1
    <3>1. \A h \in Host : Times(c, h) \in Nat
      BY <2>1, TimesListed
    <3> QED BY <2>1, <3>1, SiteTypes
  <2>3. CASE request[c].kind = "pull"
    BY <2>1, <2>2, <2>3 DEF Answers
  <2>4. CASE request[c].kind = "fleet"
    <3>1. Waiting(c)
      BY <2>1, <2>4 DEF Answers
    <3> SUFFICES ASSUME \A h \in Host : ~ (awaiting[c][h] > 0) PROVE FALSE
      OBVIOUS
    <3>2. Meant(c) \subseteq Reported(results[c])
      BY <2>2, <3>1 DEF Waiting, Reported
    <3>3. Meant(c) = Reported(results[c])
      BY <2>1, <3>2 DEF Answers
    <3>4. Cardinality(Reported(results[c])) = expected[c]
      BY <2>2, <3>1, <3>3 DEF Waiting
    <3> QED BY <2>2, <3>1, <3>4 DEF Waiting, Complete
  <2> QED BY <2>1, <2>3, <2>4 DEF Answers
<1> QED BY <1>1, Invariant, PTL

\* Only the push worker's last failure changes a command that is closed.
THEOREM OnlyGivingUpReopens == Spec => OnlyGivingUpOverwrites
<1> DEFINE Kept == \A c \in Command :
                     status[c] \in Verdict /\ status'[c] # status[c]
                       => /\ status'[c] = "failed"
                          /\ pushes'[c] = pushes[c] + 1
                          /\ DeadLettered(pushes'[c])
<1>1. IInv /\ [Next]_vars => Kept
  <2> SUFFICES ASSUME IInv, [Next]_vars, NEW c \in Command,
                      status[c] \in Verdict, status'[c] # status[c]
               PROVE  /\ status'[c] = "failed"
                      /\ pushes'[c] = pushes[c] + 1
                      /\ DeadLettered(pushes'[c])
    OBVIOUS
  <2>1. TypeOK /\ Next
    BY DEF IInv, vars, coordVars
  <2>2. CASE AtCoordinator
    BY <2>1, <2>2, CoordinatorEffect DEF Verdict
  <2>3. CASE Ingest
    <3>1. /\ draining.key # Rollup
          /\ status[draining.key] \in {"queued_at_site", "in_progress"}
          /\ status' = [status EXCEPT ![draining.key] = draining.value]
      BY <2>1, <2>3, IngestEffect
    <3> QED BY <2>1, <3>1 DEF TypeOK, Verdict
  <2>4. CASE AtQueue \/ SiteRestart \/ \E d \in Command : AtSite(d)
    BY <2>4, QueueEffect, SiteRestartEffect, AtSiteEffect
  <2> QED BY <2>1, <2>2, <2>3, <2>4, Steps, ElsewhereSteps
<1> QED BY <1>1, Invariant, PTL DEF Spec, OnlyGivingUpOverwrites

-----------------------------------------------------------------------------
(* The contract.                                                           *)

\* The variables of the contract, when those they stand for stay.
LEMMA OutcomeLeft ==
  ASSUME UNCHANGED <<request, inbox, raised>>
  PROVE  Outcome' = Outcome
BY DEF Outcome, Reports, ForAgents

LEMMA OperatorLeft ==
  ASSUME UNCHANGED <<status, pushes>>
  PROVE  Asked' = Asked /\ Told' = Told
BY DEF Asked, Told, GivenUp

LEMMA ContractLeft ==
  ASSUME UNCHANGED <<request, inbox, raised, status, pushes>>
  PROVE  UNCHANGED Contract!cvars
BY OutcomeLeft, OperatorLeft DEF Contract!cvars

\* A request that failed may be the last one.
LEMMA ContractPushFail ==
  ASSUME IInv, NEW d \in Command, PushFail(d)
  PROVE  [Contract!Next]_(Contract!cvars)
<1>1. /\ status \in [Command -> {"none", "queued_at_site", "in_progress"} \cup Verdict]
      /\ pushes \in [Command -> 0..MaxAttempts] /\ MaxAttempts \in Nat
      /\ status[d] # "none" /\ pushes[d] < MaxAttempts
  BY AttemptsAssumption DEF IInv, TypeOK, Pushed, PushFail
<1>2. Outcome' = Outcome
  BY OutcomeLeft DEF PushFail, inboxVars
<1>3. /\ pushes' = [pushes EXCEPT ![d] = @ + 1]
      /\ status' = [status EXCEPT ![d] = IF DeadLettered(pushes'[d]) THEN "failed" ELSE @]
  BY DEF PushFail
<1>4. Asked' = Asked /\ d \in Asked
  BY <1>1, <1>3 DEF Asked
<1>5. ~ GivenUp(d)
  BY <1>1 DEF GivenUp, DeadLettered
<1>6. CASE DeadLettered(pushes'[d])
  <2>1. Told' = [Told EXCEPT ![d] = "given up"]
    BY <1>1, <1>3, <1>6 DEF Told, GivenUp
  <2> QED BY <1>2, <1>4, <2>1 DEF Contract!Next, Contract!GiveUp
<1>7. CASE ~ DeadLettered(pushes'[d])
  <2>1. Told' = Told
    BY <1>1, <1>3, <1>5, <1>7 DEF Told, GivenUp
  <2> QED BY <1>2, <1>4, <2>1 DEF Contract!cvars
<1> QED BY <1>6, <1>7

\* What the coordinator's own steps are to the operator.
LEMMA ContractCoordinator ==
  ASSUME IInv, AtCoordinator
  PROVE  [Contract!Next]_(Contract!cvars)
<1>1. status \in [Command -> {"none", "queued_at_site", "in_progress"} \cup Verdict]
  BY DEF IInv, TypeOK
<1>2. CASE Suspend \/ Resume \/ Remove \/ CoordRestart
  BY <1>2, ContractLeft DEF Suspend, Resume, Remove, CoordRestart, coordVars, inboxVars
<1>3. ASSUME NEW d \in Command, Dispatch(d) PROVE [Contract!Next]_(Contract!cvars)
  <2>1. /\ status[d] = "none" /\ status' = [status EXCEPT ![d] = "queued_at_site"]
        /\ UNCHANGED <<request, inbox, raised, pushes>>
    BY <1>3 DEF Dispatch, inboxVars
  <2>2. d \in Command \ Asked /\ Asked' = Asked \cup {d}
    BY <1>1, <2>1 DEF Asked
  <2>3. Told' = Told
    BY <1>1, <2>1 DEF Told, GivenUp, Verdict
  <2> QED BY <2>1, <2>2, <2>3, OutcomeLeft DEF Contract!Next, Contract!Ask
<1>4. ASSUME NEW d \in Command, PushStart(d) PROVE [Contract!Next]_(Contract!cvars)
  BY <1>4, ContractLeft DEF PushStart, inboxVars
<1>5. ASSUME NEW d \in Command, PushOk(d) PROVE [Contract!Next]_(Contract!cvars)
  <2>1. /\ status' = [status EXCEPT ![d] = IF "in_progress" \in Allowed(@) THEN "in_progress" ELSE @]
        /\ UNCHANGED <<request, inbox, raised, pushes>>
    BY <1>5 DEF PushOk, inboxVars
  <2>2. "in_progress" \in Allowed(status[d]) => status[d] = "queued_at_site"
    BY DEF Allowed, Verdict
  <2>3. Asked' = Asked /\ Told' = Told
    BY <1>1, <2>1, <2>2 DEF Asked, Told, GivenUp, Verdict
  <2> QED BY <2>1, <2>3, OutcomeLeft DEF Contract!cvars
<1> QED BY <1>2, <1>3, <1>4, <1>5, ContractPushFail DEF AtCoordinator, PushEnds

\* A verdict that arrives is told, unless the command is given up.
LEMMA ContractIngest ==
  ASSUME IInv, Ingest
  PROVE  [Contract!Next]_(Contract!cvars)
<1>1. /\ TypeOK /\ SendingOK
      /\ status \in [Command -> {"none", "queued_at_site", "in_progress"} \cup Verdict]
  BY DEF IInv, TypeOK
<1>2. /\ draining # NoRow /\ UNCHANGED <<request, pushes, inbox, raised>>
      /\ \/ status' = status
         \/ /\ draining.key # Rollup
            /\ status[draining.key] \in {"queued_at_site", "in_progress"}
            /\ status' = [status EXCEPT ![draining.key] = draining.value]
  BY <1>1, IngestEffect DEF inboxVars
<1>3. Outcome' = Outcome
  BY <1>2, OutcomeLeft
<1>4. CASE status' # status
  <2>1. PICK c \in Command : c = draining.key
    BY <1>1, <1>2, <1>4, SentVerdict
  <2>2. PICK v \in Verdict : v = draining.value
    BY <1>1, <1>2, <1>4, SentVerdict
  <2>3. /\ status' = [status EXCEPT ![c] = v] /\ status[c] \in {"queued_at_site", "in_progress"}
        /\ Outcome[c] = v
    <3>1. Reports(c) /\ inbox[c] = v
      BY <1>1, <1>2, <1>4, <2>1, <2>2 DEF SendingOK
    <3> QED BY <1>2, <1>4, <2>1, <2>2, <3>1 DEF Outcome
  <2>4. Asked' = Asked /\ c \in Asked
    BY <1>1, <2>3 DEF Asked, Verdict
  <2>5. CASE GivenUp(c)
    <3>1. Told' = Told
      BY <1>1, <1>2, <2>3, <2>5 DEF Told, GivenUp
    <3> QED BY <1>3, <2>4, <3>1 DEF Contract!cvars
  <2>6. CASE ~ GivenUp(c)
    <3>1. Told' = [Told EXCEPT ![c] = v] /\ Told[c] = "open"
      BY <1>1, <1>2, <2>3, <2>6 DEF Told, GivenUp, Verdict
    <3>2. v # "open"
      BY DEF Verdict
    <3> QED BY <1>3, <2>3, <2>4, <3>1, <3>2 DEF Contract!Next, Contract!Tell
  <2> QED BY <2>5, <2>6
<1>5. CASE status' = status
  BY <1>2, <1>5, ContractLeft
<1> QED BY <1>4, <1>5

\* A step of the site settles a command or says nothing of it.
LEMMA ContractSite ==
  ASSUME IInv, NEW d \in Command, AtSite(d)
  PROVE  [Contract!Next]_(Contract!cvars)
<1>1. /\ inbox \in [Command -> {"none", "queued", "in_progress"} \cup Verdict]
      /\ inbox' \in [Command -> {"none", "queued", "in_progress"} \cup Verdict]
      /\ inbox[d] # "none" => status[d] # "none"
  <2>1. Next
    BY Steps
  <2> QED BY <2>1, TypeStep DEF IInv, TypeOK, Pushed
<1>2. /\ UNCHANGED <<request, status, pushes>>
      /\ \A c \in Command \ {d} : inbox'[c] = inbox[c]
      /\ Quiet(d) \/ Closing(d)
  BY AtSiteEffect
<1>3. Asked' = Asked /\ Told' = Told
  BY <1>2, OperatorLeft
<1>4. CASE Quiet(d)
  <2>1. Reports(d) => inbox'[d] = inbox[d] \/ (inbox[d] \notin Verdict /\ inbox'[d] \notin Verdict)
    BY <1>4 DEF Quiet, Verdict
  <2>2. Outcome' = Outcome
    BY <1>2, <1>4, <2>1 DEF Outcome, Quiet, Reports, ForAgents
  <2> QED BY <1>3, <2>2 DEF Contract!cvars
<1>5. CASE Closing(d)
  <2>1. PICK v \in Verdict : inbox'[d] = v
    BY <1>5 DEF Closing
  <2>2. /\ Reports(d)' /\ inbox[d] \in {"queued", "in_progress"}
        /\ \A c \in Command \ {d} : Reports(c)' <=> Reports(c)
    BY <1>2, <1>5 DEF Closing, Reports, ForAgents
  <2>3. Outcome[d] = "open" /\ Outcome' = [Outcome EXCEPT ![d] = v]
    BY <1>2, <2>1, <2>2 DEF Outcome, Verdict
  <2>4. d \in Asked /\ v \in Contract!Outcome
    BY <1>1, <2>2 DEF Asked, Contract!Outcome, Verdict
  <2> QED BY <1>3, <2>3, <2>4 DEF Contract!Next, Contract!Settle
<1> QED BY <1>2, <1>4, <1>5

\* The services keep the contract: the site reaches one outcome for a command, and
\* the operator is told that one or that the site was given up.
THEOREM ContractIsKept == Spec => KeepsContract
<1>1. Init => Contract!Init
  BY AttemptsAssumption DEF Init, Contract!Init, Asked, Outcome, Told, GivenUp, DeadLettered, Verdict
<1>2. IInv /\ [Next]_vars => [Contract!Next]_(Contract!cvars)
  <2> SUFFICES ASSUME IInv, [Next]_vars PROVE [Contract!Next]_(Contract!cvars)
    OBVIOUS
  <2>1. CASE UNCHANGED vars
    BY <2>1, ContractLeft DEF vars, coordVars, inboxVars
  <2>2. CASE AtQueue \/ SiteRestart
    BY <2>2, QueueEffect, SiteRestartEffect, ContractLeft DEF inboxVars
  <2> QED BY <2>1, <2>2, ContractCoordinator, ContractIngest, ContractSite, Steps, ElsewhereSteps
<1> QED BY <1>1, <1>2, Invariant, PTL DEF Spec, KeepsContract, Contract!Spec

-----------------------------------------------------------------------------
(* What never goes back.                                                   *)

\* A rollup on its way is not older than the one the coordinator has.
SentRollupIsNewer ==
  draining # NoRow /\ draining.key = Rollup /\ draining.phase = "sent" => rollup <= draining.value

\* Nothing is put down for a command that was not carried out yet.
Unreported(c) == inbox[c] \in {"none", "queued"} => \A h \in Host : results[c][h] = "none"

SentAndUnreported ==
  /\ SentRollupIsNewer
  /\ \A c \in Command : Unreported(c)
  /\ IsFiniteSet(Queued(queue))

LEMMA SentRollupStep ==
  ASSUME IInv, IInv', SentRollupIsNewer, Next
  PROVE  SentRollupIsNewer'
<1> SUFFICES ASSUME draining' # NoRow, draining'.key = Rollup, draining'.phase = "sent"
             PROVE  rollup' <= draining'.value
  BY DEF SentRollupIsNewer
<1>1. TypeOK /\ rollup <= snaps
  BY DEF IInv
<1>2. CASE UNCHANGED <<draining, rollup>>
  BY <1>2 DEF SentRollupIsNewer
<1>3. CASE Ingest
  BY <1>1, <1>3, IngestEffect
<1>4. CASE AtCoordinator
  BY <1>1, <1>2, <1>4, CoordinatorEffect DEF queueVars
<1>5. ASSUME NEW k \in Key, DrainStart(k) PROVE rollup' <= draining'.value
  <2>1. /\ draining' = [key |-> k, value |-> queue[k].value, phase |-> "sent", row |-> TRUE]
        /\ rollup' = rollup /\ queue[k] # NoRow
    BY <1>5 DEF DrainStart, Ready, Queued, coordVars
  <2>2. k = Rollup /\ draining'.value = queue[k].value
    BY <2>1
  <2>3. queue[k].value = snaps
    BY <2>1, <2>2 DEF IInv, RowOK
  <2> QED BY <1>1, <2>1, <2>2, <2>3
<1>6. ASSUME NEW keep, Purge(keep), draining' # draining PROVE rollup' <= draining'.value
  <2>1. /\ draining # NoRow /\ draining' = [draining EXCEPT !.row = FALSE] /\ rollup' = rollup
    BY <1>6 DEF Purge, coordVars
  <2>2. draining.key \in Key /\ draining \in Sending(draining.key)
    BY <1>1, <2>1 DEF TypeOK
  <2>3. /\ draining'.key = draining.key /\ draining'.phase = draining.phase
        /\ draining'.value = draining.value
    BY <2>1, <2>2 DEF Sending
  <2> QED BY <2>1, <2>3 DEF SentRollupIsNewer
<1>7. CASE AtQueue
  BY <1>2, <1>5, <1>6, <1>7
  DEF AtQueue, Snapshot, DrainEnds, DrainOk, DrainFail, Purge, coordVars
<1>8. CASE SiteRestart
  BY <1>8, SiteRestartEffect
<1>9. ASSUME NEW d \in Command, AtSite(d) PROVE rollup' <= draining'.value
  <2>1. UNCHANGED rollup /\ (Quiet(d) \/ Closing(d))
    BY <1>9, AtSiteEffect
  <2> QED BY <1>2, <2>1 DEF Quiet, Closing, Report, queueVars
<1> QED BY <1>3, <1>4, <1>7, <1>8, <1>9, Steps, ElsewhereSteps

\* What the site does to the numbers and the results of a command.
Forward(c) ==
  /\ inbox[c] # "queued" => ordered'[c] = ordered[c]
  /\ \A h \in Host : ordered'[c][h] >= ordered[c][h]
  /\ request[c].kind = "fleet" /\ inbox[c] # "queued" => expected'[c] = expected[c]
  /\ inbox[c] \in {"none"} \cup Verdict => results'[c] = results[c]
  /\ inbox'[c] \in {"none", "queued"} => results'[c] = results[c]
  /\ \A h \in Host : results[c][h] # "none" => results'[c][h] # "none"

LEMMA SameForward ==
  ASSUME TypeOK, NEW c \in Command,
         ordered'[c] = ordered[c], expected'[c] = expected[c], results'[c] = results[c]
  PROVE  Forward(c)
BY SiteTypes DEF Forward

LEMMA FanOutForward ==
  ASSUME IInv, NEW c \in Command, Unreported(c), NEW here \in SUBSET Host, FanOut(c, here)
  PROVE  Forward(c)
<1>1. TypeOK /\ inbox[c] = "queued"
  BY DEF IInv, FanOut
<1>2. CASE UNCHANGED <<expected, results, awaiting, ordered>>
  BY <1>1, <1>2, SameForward
<1>3. CASE /\ results' = [results EXCEPT ![c] = Missing(c, here)]
           /\ ordered' = [ordered EXCEPT ![c] = [h \in Host |-> @[h] + Messages(c, here)[h]]]
  <2>1. Messages(c, here) \in [Host -> Nat] /\ ordered[c] \in [Host -> Nat]
    BY <1>1, FanOutNumbers, SiteTypes
  <2>2. ordered'[c] = [h \in Host |-> ordered[c][h] + Messages(c, here)[h]]
    BY <1>1, <1>3 DEF TypeOK
  <2>3. \A h \in Host : ordered'[c][h] >= ordered[c][h]
    BY <2>1, <2>2
  <2>4. inbox'[c] \notin {"none", "queued"}
    <3>1. WaitsOn(c) \/ \E v \in Verdict : Closes(c, v)
      BY FanOutEnds
    <3> QED BY <1>1, <3>1 DEF WaitsOn, Closes, TypeOK, Verdict
  <2> QED BY <1>1, <2>3, <2>4 DEF Forward, Unreported, Verdict
<1> QED BY <1>2, <1>3, FanOutCases

LEMMA HostResultForward ==
  ASSUME IInv, NEW c \in Command, NEW h \in Host, NEW r \in {"ok", "bad"}, HostResult(c, h, r)
  PROVE  Forward(c)
<1>1. TypeOK /\ Orders(c)
  BY DEF IInv
<1>2. /\ request[c].kind = "fleet" /\ awaiting[c][h] > 0
      /\ ordered' = ordered /\ expected' = expected
  BY <1>1, HostResultCases
<1>3. CASE results' = results
  BY <1>1, <1>2, <1>3, SameForward
<1>4. CASE /\ inbox[c] \notin Verdict
           /\ results'[c] = [results[c] EXCEPT ![h] = r]
           /\ Settle(c, expected[c], results'[c])
  <2>1. inbox[c] \notin {"none", "queued"}
    BY <1>1, <1>2, SiteTypes DEF Orders
  <2>2. inbox'[c] \notin {"none", "queued"}
    <3>1. WaitsOn(c) \/ \E v \in Verdict : Closes(c, v)
      BY <1>4, Settled
    <3> QED BY <1>1, <3>1 DEF WaitsOn, Closes, TypeOK, Verdict
  <2>3. \A g \in Host : results[c][g] # "none" => results'[c][g] # "none"
    BY <1>1, <1>4, SiteTypes DEF Results
  <2> QED BY <1>1, <1>2, <1>4, <2>1, <2>2, <2>3, SiteTypes DEF Forward
<1> QED BY <1>1, <1>3, <1>4, HostResultCases

LEMMA ForwardStep ==
  ASSUME IInv, NEW c \in Command, Unreported(c), Next
  PROVE  Forward(c)
<1>1. TypeOK
  BY DEF IInv
<1>2. CASE Elsewhere
  <2>1. UNCHANGED <<ordered, expected, results>>
    BY <1>2, ElsewhereLeaves DEF inboxVars
  <2> QED BY <1>1, <2>1, SameForward
<1>3. CASE SiteRestart
  BY <1>1, <1>3, SameForward DEF SiteRestart
<1>4. ASSUME NEW d \in Command, AtSite(d), d # c PROVE Forward(c)
  <2>1. Same(c)
    BY <1>1, <1>4, SiteOthers DEF AtSite
  <2> QED BY <1>1, <2>1, SameForward DEF Same
<1>5. CASE AtSite(c)
  <2>1. ASSUME NEW here \in SUBSET Host, FanOut(c, here) PROVE Forward(c)
    BY <2>1, FanOutForward
  <2>2. ASSUME NEW h \in Host, NEW r \in {"ok", "bad"}, HostResult(c, h, r) PROVE Forward(c)
    BY <2>2, HostResultForward
  <2>3. CASE PullPlan(c)
    <3>1. /\ inbox[c] = "queued" /\ inbox' = inbox /\ request[c].kind = "pull"
          /\ expected' = expected /\ results' = results
          /\ ordered' = [ordered EXCEPT ![c][Mirror] = @ + 1]
      BY <2>3 DEF PullPlan
    <3>2. \A h \in Host : ordered'[c][h] >= ordered[c][h]
      <4>1. ordered[c] \in [Host -> Nat] /\ ordered'[c] = [ordered[c] EXCEPT ![Mirror] = @ + 1]
        BY <1>1, <3>1, SiteTypes DEF TypeOK
      <4> QED BY <4>1
    <3> QED BY <3>1, <3>2 DEF Forward, Verdict
  <2>4. ASSUME NEW h \in Host, ResultLost(c, h) PROVE Forward(c)
    BY <1>1, <2>4, SameForward DEF ResultLost
  <2>5. CASE \/ SiteReceive(c) \/ FanOutRefused(c) \/ PullCommit(c) \/ PullAbort(c)
             \/ PullRefused(c) \/ PullRaises(c) \/ \E v \in Verdict : PullResult(c, v)
    BY <1>1, <2>5, SameForward
    DEF SiteReceive, FanOutRefused, PullCommit, PullAbort, PullRefused, PullRaises, PullResult
  <2> QED BY <1>5, <2>1, <2>2, <2>3, <2>4, <2>5 DEF AtSite
<1> QED BY <1>2, <1>3, <1>4, <1>5, Steps

\* The states a command passes through at the site, and at the coordinator.
SiteRank(s) == IF s = "none" THEN 0 ELSE IF s = "queued" THEN 1 ELSE IF s = "in_progress" THEN 2 ELSE 3

Rank(s) == IF s = "none" THEN 0 ELSE IF s = "queued_at_site" THEN 1 ELSE IF s = "in_progress" THEN 2 ELSE 3

LEMMA InboxForward ==
  ASSUME IInv, NEW c \in Command, Next
  PROVE  /\ Reports(c) => SiteRank(inbox'[c]) >= SiteRank(inbox[c])
         /\ inbox'[c] \in {"none", "queued"} => inbox[c] \in {"none", "queued"}
<1>0. SiteRank(inbox[c]) \in 0..3
  BY DEF SiteRank
<1>1. CASE UNCHANGED inbox
  BY <1>0, <1>1
<1>2. ASSUME NEW d \in Command, AtSite(d)
      PROVE  /\ Reports(c) => SiteRank(inbox'[c]) >= SiteRank(inbox[c])
             /\ inbox'[c] \in {"none", "queued"} => inbox[c] \in {"none", "queued"}
  <2>1. (c # d => inbox'[c] = inbox[c]) /\ (Quiet(d) \/ Closing(d))
    BY <1>2, AtSiteEffect
  <2>2. CASE inbox'[c] = inbox[c]
    BY <1>0, <2>2
  <2>3. CASE c = d /\ Quiet(d) /\ inbox'[c] # inbox[c]
    BY <2>3 DEF Quiet, SiteRank, Verdict
  <2>4. CASE c = d /\ Closing(d)
    BY <2>4 DEF Closing, SiteRank, Verdict
  <2> QED BY <2>1, <2>2, <2>3, <2>4
<1> QED BY <1>1, <1>2, Steps, ElsewhereLeaves, SiteRestartEffect DEF inboxVars

LEMMA StatusForward ==
  ASSUME IInv, NEW c \in Command, Next
  PROVE  Rank(status'[c]) >= Rank(status[c])
<1>1. TypeOK
  BY DEF IInv
<1>2. Rank(status[c]) \in 0..3
  BY DEF Rank
<1>3. CASE UNCHANGED status
  BY <1>2, <1>3
<1>4. CASE AtCoordinator
  BY <1>1, <1>2, <1>4, CoordinatorEffect DEF Rank, TypeOK, Verdict
<1>5. CASE Ingest
  <2>1. CASE /\ draining.key # Rollup /\ draining # NoRow
             /\ status' = [status EXCEPT ![draining.key] = draining.value]
    <3>1. draining.value \in Verdict
      BY <1>1, <2>1, SentVerdict
    <3> QED BY <1>1, <1>2, <2>1, <3>1 DEF Rank, TypeOK, Verdict
  <2> QED BY <1>1, <1>3, <1>5, <2>1, IngestEffect
<1>6. CASE AtQueue
  BY <1>3, <1>6, QueueEffect
<1>7. CASE SiteRestart
  BY <1>3, <1>7, SiteRestartEffect
<1>8. ASSUME NEW d \in Command, AtSite(d) PROVE Rank(status'[c]) >= Rank(status[c])
  BY <1>3, <1>8, AtSiteEffect
<1> QED BY <1>4, <1>5, <1>6, <1>7, <1>8, Steps, ElsewhereSteps

\* The queue has finitely many rows: a step adds one at most.
LEMMA QueueFinite ==
  ASSUME IInv, Next, IsFiniteSet(Queued(queue))
  PROVE  IsFiniteSet(Queued(queue'))
<1>1. TypeOK /\ DOMAIN queue = Key
  BY DEF IInv, TypeOK
<1>2. ASSUME NEW k, Queued(queue') \subseteq Queued(queue) \cup {k} PROVE IsFiniteSet(Queued(queue'))
  <2>1. IsFiniteSet(Queued(queue) \cup {k})
    BY FS_AddElement
  <2> QED BY <1>2, <2>1, FS_Subset
<1>3. CASE UNCHANGED queue
  BY <1>3
<1>4. ASSUME NEW k, NEW v, NEW t, queue' = Enqueue(queue, k, v, t) PROVE IsFiniteSet(Queued(queue'))
  <2>1. Queued(queue') \subseteq Queued(queue) \cup {k}
    BY <1>4 DEF Queued, Enqueue
  <2> QED BY <1>2, <2>1
<1>5. ASSUME NEW k \in Queued(queue), queue' = MarkSent(queue, k) \/ queue' = MarkFailed(queue, k)
      PROVE  IsFiniteSet(Queued(queue'))
  <2>1. Queued(queue') \subseteq Queued(queue) \cup {k}
    BY <1>5 DEF Queued, MarkSent, MarkFailed
  <2> QED BY <1>2, <2>1
<1>6. ASSUME NEW keep, queue' = PurgeOldest(queue, keep) PROVE IsFiniteSet(Queued(queue'))
  <2>1. Queued(queue') \subseteq Queued(queue)
    BY <1>6 DEF Queued, PurgeOldest
  <2> QED BY <2>1, FS_Subset
<1>7. CASE AtQueue
  <2>1. draining # NoRow /\ draining.row => draining.key \in Queued(queue)
    BY <1>1, SentVerdict DEF IInv, SendingOK, Queued
  <2>2. CASE Snapshot
    BY <1>4, <2>2 DEF Snapshot
  <2>3. CASE \E k \in Key : DrainStart(k)
    BY <1>3, <2>3 DEF DrainStart
  <2>4. CASE DrainOk \/ DrainFail
    BY <1>3, <1>5, <2>1, <2>4 DEF DrainOk, DrainFail
  <2>5. CASE \E keep \in 0..Cardinality(Key) : Purge(keep)
    BY <1>6, <2>5 DEF Purge
  <2> QED BY <1>7, <2>2, <2>3, <2>4, <2>5 DEF AtQueue, DrainEnds
<1>8. CASE AtCoordinator
  BY <1>1, <1>3, <1>8, CoordinatorEffect DEF queueVars
<1>9. CASE Ingest \/ SiteRestart
  BY <1>1, <1>3, <1>9, IngestEffect, SiteRestartEffect
<1>10. ASSUME NEW d \in Command, AtSite(d) PROVE IsFiniteSet(Queued(queue'))
  <2>1. Quiet(d) \/ Closing(d)
    BY <1>10, AtSiteEffect
  <2> QED BY <1>3, <1>4, <2>1 DEF Quiet, Closing, Report, queueVars
<1> QED BY <1>7, <1>8, <1>9, <1>10, Steps, ElsewhereSteps

LEMMA SentAndUnreportedInvariant == Spec => [](IInv /\ SentAndUnreported)
<1>1. Init => SentAndUnreported
  <2> SUFFICES ASSUME Init PROVE SentAndUnreported
    OBVIOUS
  <2>1. Queued(queue) = {}
    BY DEF Init, Queued
  <2>2. IsFiniteSet(Queued(queue))
    BY <2>1, FS_EmptySet
  <2>3. SentRollupIsNewer /\ \A c \in Command : Unreported(c)
    BY DEF Init, SentRollupIsNewer, Unreported
  <2> QED BY <2>2, <2>3 DEF SentAndUnreported
<1>2. IInv /\ IInv' /\ SentAndUnreported /\ [Next]_vars => SentAndUnreported'
  <2> SUFFICES ASSUME IInv, IInv', SentAndUnreported, [Next]_vars PROVE SentAndUnreported'
    OBVIOUS
  <2>1. CASE UNCHANGED vars
    <3>1. Queued(queue') = Queued(queue)
      BY <2>1 DEF vars, queueVars
    <3> QED BY <2>1, <3>1
        DEF SentAndUnreported, SentRollupIsNewer, Unreported, vars, coordVars, inboxVars, queueVars
  <2>2. CASE Next
    <3>1. SentRollupIsNewer' /\ IsFiniteSet(Queued(queue'))
      BY <2>2, SentRollupStep, QueueFinite DEF SentAndUnreported
    <3>2. ASSUME NEW c \in Command PROVE Unreported(c)'
      <4>1. Unreported(c)
        BY DEF SentAndUnreported
      <4>2. /\ Forward(c)
            /\ inbox'[c] \in {"none", "queued"} => inbox[c] \in {"none", "queued"}
        BY <2>2, <4>1, ForwardStep, InboxForward
      <4> QED BY <4>1, <4>2 DEF Unreported, Forward
    <3>3. IsFiniteSet(Queued(queue))'
      BY <3>1
    <3> QED BY <3>1, <3>2, <3>3 DEF SentAndUnreported
  <2> QED BY <2>1, <2>2
<1> QED BY <1>1, <1>2, Invariant, PTL DEF Spec

\* Nothing is undone: the coordinator's rollup never gets older, a command only moves on,
\* at the coordinator and, if it is for agents, at the site; hosts get messages for it
\* only while it is queued; what was put down for it stays, and is fixed with the verdict.
OnlyForward ==
  /\ rollup' >= rollup
  /\ \A c \in Command :
       /\ Rank(status'[c]) >= Rank(status[c])
       /\ Reports(c)
            => /\ SiteRank(inbox'[c]) >= SiteRank(inbox[c])
               /\ inbox[c] \in Verdict => inbox'[c] = inbox[c]
       /\ Forward(c)

\* Retries, lost answers, late results and crashes take nothing back.
THEOREM NothingIsTakenBack == Spec => [][OnlyForward]_vars
<1>1. IInv /\ SentAndUnreported /\ [Next]_vars => [OnlyForward]_vars
  <2> SUFFICES ASSUME IInv, SentAndUnreported, Next PROVE OnlyForward
    OBVIOUS
  <2>0. TypeOK
    BY DEF IInv
  <2>1. rollup' >= rollup
    <3>1. rollup \in Nat
      BY <2>0 DEF TypeOK
    <3>2. CASE UNCHANGED rollup
      BY <3>1, <3>2
    <3>3. CASE Ingest
      <4>1. rollup' = rollup \/ (draining # NoRow /\ draining.key = Rollup /\ draining.phase = "sent"
                                 /\ rollup' = draining.value)
        BY <2>0, <3>3, IngestEffect
      <4>2. draining # NoRow /\ draining.key = Rollup => draining.value \in Nat
        BY <2>0, SentVerdict
      <4> QED BY <3>1, <4>1, <4>2 DEF SentAndUnreported, SentRollupIsNewer
    <3>4. CASE AtCoordinator \/ AtQueue \/ SiteRestart \/ \E d \in Command : AtSite(d)
      BY <2>0, <3>2, <3>4, CoordinatorEffect, QueueEffect, SiteRestartEffect, AtSiteEffect
    <3> QED BY <3>3, <3>4, Steps, ElsewhereSteps
  <2>2. ASSUME NEW c \in Command
        PROVE  /\ Rank(status'[c]) >= Rank(status[c])
               /\ Reports(c)
                    => /\ SiteRank(inbox'[c]) >= SiteRank(inbox[c])
                       /\ inbox[c] \in Verdict => inbox'[c] = inbox[c]
               /\ Forward(c)
    BY StatusForward, InboxForward, VerdictStays, ForwardStep DEF SentAndUnreported
  <2> QED BY <2>1, <2>2 DEF OnlyForward
<1> QED BY <1>1, SentAndUnreportedInvariant, PTL DEF Spec

\* What SettledIsHeard needs of every state: a verdict the coordinator has not heard is
\* queued as it is, and the coordinator would take it from an enrolled site.
VerdictsCanBeHeard ==
  \A c \in Command :
    Reports(c) /\ inbox[c] \in Verdict /\ status[c] \notin Verdict /\ c \notin dropped
      => /\ queue[c] # NoRow /\ queue[c].value = inbox[c]
         /\ draining # NoRow /\ draining.key = c => draining.value = inbox[c]
         /\ Open(c)

\* No late push, retry or replay puts the coordinator in a state that refuses a verdict
\* it has not heard.
THEOREM VerdictsAreWelcome == Spec => []VerdictsCanBeHeard
<1>1. IInv => VerdictsCanBeHeard
  <2> SUFFICES ASSUME IInv, NEW c \in Command, Reports(c), inbox[c] \in Verdict,
                      status[c] \notin Verdict, c \notin dropped
               PROVE  /\ queue[c] # NoRow /\ queue[c].value = inbox[c]
                      /\ draining # NoRow /\ draining.key = c => draining.value = inbox[c]
                      /\ Open(c)
    BY DEF VerdictsCanBeHeard
  <2>1. queue[c] # NoRow /\ queue[c].value = inbox[c]
    BY DEF IInv, SettledIsReported
  <2>2. draining # NoRow /\ draining.key = c => draining.value = inbox[c]
    BY CommandsAssumption DEF IInv, SendingOK
  <2>3. status[c] \in {"queued_at_site", "in_progress"}
    BY DEF IInv, TypeOK, Pushed, Verdict
  <2>4. Open(c)
    BY <2>3 DEF Open, Allowed
  <2> QED BY <2>1, <2>2, <2>4
<1> QED BY <1>1, Invariant, PTL

-----------------------------------------------------------------------------
(* The safety valve.                                                       *)

\* Every set of numbers that is not empty has a least element.
LEMMA Least ==
  ASSUME NEW S \in SUBSET Nat, S # {} PROVE \E x \in S : \A y \in S : x <= y
<1>1. PICK x \in S : \A y \in S : ~ (<<y, x>> \in OpToRel(<, Nat))
  BY NatLessThanWellFounded, WFMin
<1>2. \A y \in S : ~ (y < x)
  BY <1>1 DEF OpToRel
<1> QED BY <1>2

\* A purge leaves no more rows than it should, as they were, and each of them is newer
\* than each row it took.
PurgesOldest ==
  \A keep \in Nat :
    Purge(keep) =>
      /\ Cardinality(Queued(queue')) <= keep
      /\ \A k \in Queued(queue') : k \in Queued(queue) /\ queue'[k] = queue[k]
      /\ \A k \in Queued(queue'), j \in Queued(queue) \ Queued(queue') : queue[j].at < queue[k].at

LEMMA PurgeNewest ==
  ASSUME TypeOK, IsFiniteSet(Queued(queue)), NEW keep \in Nat, Purge(keep)
  PROVE  /\ Cardinality(Queued(queue')) <= keep
         /\ \A k \in Queued(queue') : k \in Queued(queue) /\ queue'[k] = queue[k]
         /\ \A k \in Queued(queue'), j \in Queued(queue) \ Queued(queue') : queue[j].at < queue[k].at
<1> DEFINE Kept == Queued(queue) \ TooMany(queue, keep)
<1>1. /\ DOMAIN queue = Key
      /\ \A k \in Queued(queue) : k \in Key /\ queue[k] # NoRow /\ queue[k].at \in Nat
  <2>1. \A k \in Queued(queue) : k \in Key /\ queue[k] \in Row(Payload(k)) /\ queue[k] # NoRow
    BY DEF TypeOK, Queued
  <2> QED BY <2>1, RowFields DEF TypeOK
<1>2. queue' = PurgeOldest(queue, keep) /\ DOMAIN queue' = Key
  BY <1>1 DEF Purge, PurgeOldest
<1>3. \A k \in Key : queue'[k] = IF k \in TooMany(queue, keep) THEN NoRow ELSE queue[k]
  BY <1>1, <1>2 DEF PurgeOldest
<1>4. Queued(queue') = Kept
  BY <1>1, <1>2, <1>3 DEF Queued
<1>5. \A k \in Queued(queue) :
        /\ IsFiniteSet(NotOlder(queue, k))
        /\ Cardinality(NotOlder(queue, k)) \in Nat
  BY FS_Subset, FS_CardinalityType DEF NotOlder
<1>6. \A k \in Kept : Cardinality(NotOlder(queue, k)) <= keep
  BY <1>5 DEF TooMany
<1>7. ASSUME NEW k \in Kept, NEW j \in Queued(queue) \ Kept PROVE queue[j].at < queue[k].at
  <2> SUFFICES ASSUME queue[j].at >= queue[k].at PROVE FALSE
    BY <1>1
  <2>1. NotOlder(queue, j) \subseteq NotOlder(queue, k)
    BY <1>1 DEF NotOlder
  <2>2. Cardinality(NotOlder(queue, j)) <= Cardinality(NotOlder(queue, k))
    BY <1>5, <2>1, FS_Subset
  <2>3. j \in TooMany(queue, keep)
    OBVIOUS
  <2> QED BY <1>5, <1>6, <2>2, <2>3 DEF TooMany
<1>8. Cardinality(Kept) <= keep
  <2>1. CASE Kept = {}
    BY <2>1, FS_EmptySet
  <2>2. CASE Kept # {}
    <3> DEFINE Instant == {queue[k].at : k \in Kept}
    <3>1. Instant \in SUBSET Nat /\ Instant # {}
      BY <1>1, <2>2
    <3> HIDE DEF Instant
    <3>2. PICK x \in Instant : \A y \in Instant : x <= y
      BY <3>1, Least
    <3>3. PICK k \in Kept : x = queue[k].at
      BY DEF Instant
    <3>4. Kept \subseteq NotOlder(queue, k)
      BY <1>1, <3>2, <3>3 DEF NotOlder, Instant
    <3>5. Cardinality(Kept) <= Cardinality(NotOlder(queue, k)) /\ IsFiniteSet(Kept)
      BY <1>5, <3>4, FS_Subset
    <3>6. Cardinality(Kept) \in Nat
      BY <3>5, FS_CardinalityType
    <3> QED BY <1>5, <1>6, <3>5, <3>6
  <2> QED BY <2>1, <2>2
<1>9. \A k \in Kept : k \in Queued(queue) /\ queue'[k] = queue[k]
  BY <1>1, <1>3
<1> QED BY <1>4, <1>7, <1>8, <1>9

\* However the rows were made, overwritten and retried, in the same instant or not.
THEOREM PurgeKeepsTheNewest == Spec => [][PurgesOldest]_vars
<1>1. IInv /\ SentAndUnreported => PurgesOldest
  BY PurgeNewest DEF IInv, SentAndUnreported, PurgesOldest
<1> QED BY <1>1, SentAndUnreportedInvariant, PTL DEF Spec
=============================================================================
