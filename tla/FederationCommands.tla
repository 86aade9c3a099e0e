------------------------- MODULE FederationCommands -------------------------
(***************************************************************************)
(* A coordinator dispatches commands to the hosts of a federation site and *)
(* learns what became of them.  Its push worker posts a command to the     *)
(* site's inbox; the site's worker fans it out to the hosts' agents and    *)
(* collects their answers; when all are in, the verdict is queued for the  *)
(* coordinator, next to the site's rollups, and its drain worker posts it. *)
(*                                                                         *)
(* Modelled code, all in backend/services: federation_dispatch_service and *)
(* the states of federation_site_service (coordinator), federation_inbox_  *)
(* service, federation_actuation_service, the pull of content views in     *)
(* content_lifecycle_federation_sync and content_lifecycle_result_handlers *)
(* and the correlations of proplus_dispatch (site).  The two workers and   *)
(* the ingest endpoint are not in this repository; they are modelled from  *)
(* the tests that drive these services the way they do.                    *)
(*                                                                         *)
(* A request is handled, if ever, before its sender gives it up.           *)
(***************************************************************************)
EXTENDS SyncQueue, Sequences, Functions

CONSTANTS
  Command,       \* commands
  Host,          \* the agents' hosts a command may name
  Mirror,        \* the site's mirror host
  Rollup,        \* the key of the host rollup in the sync queue
  Request,       \* what may be dispatched, see Kind
  MaxSnaps,      \* bound on the rollups next to each request
  MaxFaults      \* bound on restarts and failed transactions

\* "fleet" goes to agents, "unmapped" has a type no agent knows; "pull" makes the
\* mirror host fetch a content view, "badpull" is one the site cannot carry out.
Kind == {"fleet", "unmapped", "pull", "badpull"}

Key == Command \cup {Rollup}

Verdict == {"completed", "failed"}

\* What a row carries: the verdict on a command, or the rollup.
Payload(k) == IF k = Rollup THEN Nat ELSE Verdict

\* A row the drain worker is sending; `row' tells whether it is still in the queue.
Sending(k) == [key : {k}, value : Payload(k), phase : {"sent", "taken", "refused"}, row : BOOLEAN]

\* An empty list of targets stands for all hosts.
ASSUME CommandsAssumption ==
  /\ IsFiniteSet(Host)
  /\ Mirror \in Host
  /\ Rollup \notin Command
  /\ \A r \in Request : r \in [kind : Kind, targets : Seq(Host)]
  /\ MaxSnaps \in [Request -> Nat]
  /\ MaxFaults \in Nat
  /\ \A k \in Key : NoRow \notin Row(Payload(k)) \cup Sending(k)

VARIABLES
  siteStatus,  \* FederationSite.status
  request,     \* what was dispatched
  status,      \* FederationDispatchedCommand.status; "none": not dispatched
  pushes,      \* its push_attempts
  pushing,     \* the push worker's request for a command
  rollup,      \* the newest rollup the coordinator has
  inbox,       \* FederationReceivedCommand.status; "none": not received
  expected,    \* length of target_host_ids in its result_json
  results,     \* its results, per host
  awaiting,    \* _CORRELATIONS: answers of a host to a command still to be routed
  planned,     \* pulls whose plan is queued in a tick that has not committed
  queue,       \* the sync queue
  draining,    \* the row the drain worker is sending, NoRow if none
  snaps,       \* the newest rollup of the site
  faults,      \* faults so far
  ordered,     \* history: messages queued for a host on behalf of a command
  unheard,     \* history: commands an answer to which was lost or came too early
  raised,      \* history: pulls whose dispatch raised an exception
  dropped      \* history: keys whose row was deleted before its payload was sent

coordVars == <<request, status, pushes, pushing, rollup>>
inboxVars == <<inbox, expected, results, awaiting, planned, ordered, unheard, raised>>
queueVars == <<queue, draining, snaps, dropped>>
vars == <<siteStatus, coordVars, inboxVars, queueVars, faults>>

Init ==
  /\ siteStatus = "enrolled"
  /\ request \in [Command -> Request]
  /\ status = [c \in Command |-> "none"]
  /\ pushes = [c \in Command |-> 0]
  /\ pushing = [c \in Command |-> "no"]
  /\ rollup = 0
  /\ inbox = [c \in Command |-> "none"]
  /\ expected = [c \in Command |-> 0]
  /\ results = [c \in Command |-> [h \in Host |-> "none"]]
  /\ awaiting = [c \in Command |-> [h \in Host |-> 0]]
  /\ planned = {}
  /\ queue = [k \in Key |-> NoRow]
  /\ draining = NoRow
  /\ snaps = 0
  /\ faults = 0
  /\ ordered = [c \in Command |-> [h \in Host |-> 0]]
  /\ unheard = {}
  /\ raised = {}
  /\ dropped = {}

-----------------------------------------------------------------------------
(* The coordinator.                                                        *)

Suspend ==
  /\ siteStatus = "enrolled"
  /\ siteStatus' = "suspended"
  /\ UNCHANGED <<coordVars, inboxVars, queueVars, faults>>

Resume ==
  /\ siteStatus = "suspended"
  /\ siteStatus' = "enrolled"
  /\ UNCHANGED <<coordVars, inboxVars, queueVars, faults>>

Remove ==
  /\ siteStatus # "removed"
  /\ siteStatus' = "removed"
  /\ UNCHANGED <<coordVars, inboxVars, queueVars, faults>>

Dispatch(c) ==
  /\ siteStatus = "enrolled"
  /\ status[c] = "none"
  /\ status' = [status EXCEPT ![c] = "queued_at_site"]
  /\ UNCHANGED <<siteStatus, request, pushes, pushing, rollup, inboxVars, queueVars, faults>>

\* Mutation: a command that is closed may be opened again.
AllowedReopening(old) ==
  CASE old = "none"           -> {}
    [] old = "queued_at_site" -> {"in_progress", "failed"}
    [] OTHER                  -> {"in_progress"} \cup Verdict

\* _ALLOWED_TRANSITIONS; "partial" is never reported.
Allowed(old) ==
  CASE old = "queued_at_site" -> {"in_progress", "failed"}
    [] old = "in_progress"    -> Verdict
    [] OTHER                  -> {}

\* External: the push worker takes a command of a site that is enrolled.
PushStart(c) ==
  /\ siteStatus = "enrolled"
  /\ status[c] = "queued_at_site"
  /\ pushing[c] = "no"
  /\ ~ DeadLettered(pushes[c])
  /\ pushing' = [pushing EXCEPT ![c] = "sent"]
  /\ UNCHANGED <<siteStatus, request, status, pushes, rollup, inboxVars, queueVars, faults>>

\* A status that does not allow "in_progress" any more makes the update raise.
PushOk(c) ==
  /\ pushing[c] = "answered"
  /\ pushing' = [pushing EXCEPT ![c] = "no"]
  /\ status' = [status EXCEPT ![c] = IF "in_progress" \in Allowed(@) THEN "in_progress" ELSE @]
  /\ UNCHANGED <<siteStatus, request, pushes, rollup, inboxVars, queueVars, faults>>

\* The request, or the answer to it, is lost.  The last failure that is allowed
\* makes the command fail, whatever its status.
PushFail(c) ==
  /\ pushing[c] \in {"sent", "unanswered"}
  /\ pushing' = [pushing EXCEPT ![c] = "no"]
  /\ pushes' = [pushes EXCEPT ![c] = @ + 1]
  /\ status' = [status EXCEPT ![c] = IF DeadLettered(pushes'[c]) THEN "failed" ELSE @]
  /\ UNCHANGED <<siteStatus, request, rollup, inboxVars, queueVars, faults>>

\* The coordinator stops between a request and its bookkeeping.
CoordRestart ==
  /\ faults < MaxFaults
  /\ \E c \in Command : pushing[c] # "no"
  /\ faults' = faults + 1
  /\ pushing' = [c \in Command |-> "no"]
  /\ UNCHANGED <<siteStatus, request, status, pushes, rollup, inboxVars, queueVars>>

\* External: a row arrives.  Only an enrolled site is let in; a verdict passes
\* through "in_progress", and a command that is closed makes the update raise.
Open(c) == status[c] = "in_progress" \/ "in_progress" \in Allowed(status[c])

Ingest ==
  /\ draining # NoRow
  /\ draining.phase = "sent"
  /\ IF draining.key = Rollup
     THEN LET taken == siteStatus = "enrolled" IN
            /\ rollup' = IF taken THEN draining.value ELSE rollup
            /\ draining' = [draining EXCEPT !.phase = IF taken THEN "taken" ELSE "refused"]
            /\ UNCHANGED status
     ELSE LET c == draining.key
              taken == siteStatus = "enrolled" /\ Open(c)
          IN
            /\ status' = IF taken THEN [status EXCEPT ![c] = draining.value] ELSE status
            /\ draining' = [draining EXCEPT !.phase = IF taken THEN "taken" ELSE "refused"]
            /\ UNCHANGED rollup
  /\ UNCHANGED <<siteStatus, request, pushes, pushing, inboxVars, queue, snaps, dropped, faults>>

-----------------------------------------------------------------------------
(* The sync queue of the site.                                             *)

\* A new row is made after the newest one, or in the same instant.
Instants ==
  {t \in {0} \cup {queue[k].at + d : k \in Queued(queue), d \in 0..1} :
     \A k \in Queued(queue) : queue[k].at <= t}

Report(c, v) ==
  /\ \E t \in Instants : queue' = Enqueue(queue, c, v, t)
  /\ UNCHANGED <<draining, snaps, dropped>>

Snapshot ==
  /\ \A c \in Command : snaps < MaxSnaps[request[c]]
  /\ snaps' = snaps + 1
  /\ \E t \in Instants : queue' = Enqueue(queue, Rollup, snaps', t)
  /\ dropped' = dropped \ {Rollup}
  /\ UNCHANGED <<siteStatus, coordVars, inboxVars, draining, faults>>

\* External: the drain worker takes a row that is ready.
DrainStart(k) ==
  /\ draining = NoRow
  /\ k \in Ready(queue)
  /\ draining' = [key |-> k, value |-> queue[k].value, phase |-> "sent", row |-> TRUE]
  /\ UNCHANGED <<siteStatus, coordVars, inboxVars, queue, snaps, dropped, faults>>

\* The row goes although its payload may have been replaced meanwhile.
DrainOk ==
  /\ draining # NoRow
  /\ draining.phase = "taken"
  /\ draining' = NoRow
  /\ LET k == draining.key IN
       IF draining.row
       THEN /\ queue' = MarkSent(queue, k)
            /\ dropped' = IF queue[k].value = draining.value THEN dropped ELSE dropped \cup {k}
       ELSE UNCHANGED <<queue, dropped>>
  /\ UNCHANGED <<siteStatus, coordVars, inboxVars, snaps, faults>>

\* The request was lost or refused, or its answer was lost.
DrainFail ==
  /\ draining # NoRow
  /\ draining' = NoRow
  /\ queue' = IF draining.row THEN MarkFailed(queue, draining.key) ELSE queue
  /\ UNCHANGED <<siteStatus, coordVars, inboxVars, snaps, dropped, faults>>

\* The safety valve for a long outage.
Purge(keep) ==
  LET gone == TooMany(queue, keep) IN
  /\ gone # {}
  /\ queue' = PurgeOldest(queue, keep)
  /\ dropped' = dropped \cup gone
  /\ draining' = IF draining # NoRow /\ draining.key \in gone
                 THEN [draining EXCEPT !.row = FALSE] ELSE draining
  /\ UNCHANGED <<siteStatus, coordVars, inboxVars, snaps, faults>>

-----------------------------------------------------------------------------
(* The inbox and the fan-out at the site.                                  *)

\* Mutation: a command that is under way is queued again.
AcceptedAgain(old) == IF old \in {"none", "in_progress"} THEN "queued" ELSE old

\* Mutation: a command that is closed is queued again.
AcceptedAnew(old) == IF old \in {"none"} \cup Verdict THEN "queued" ELSE old

\* receive_command: a command that is known keeps its state.
Accepted(old) == IF old = "none" THEN "queued" ELSE old

SiteReceive(c) ==
  /\ pushing[c] = "sent"
  /\ \E answer \in {"answered", "unanswered"} : pushing' = [pushing EXCEPT ![c] = answer]
  /\ inbox' = [inbox EXCEPT ![c] = Accepted(@)]
  /\ UNCHANGED <<siteStatus, request, status, pushes, rollup, expected, results, awaiting,
                 planned, ordered, unheard, raised, queueVars, faults>>

\* _fail_command: nothing to wait for.
FailCommand(c) ==
  /\ inbox' = [inbox EXCEPT ![c] = "failed"]
  /\ Report(c, "failed")

Listed(c) == Range(request[c].targets)
All(c) == request[c].targets = << >>
Times(c, h) == Cardinality({i \in DOMAIN request[c].targets : request[c].targets[i] = h})

FanOutRefused(c) ==
  /\ inbox[c] = "queued"
  /\ request[c].kind = "unmapped"
  /\ FailCommand(c)
  /\ UNCHANGED <<siteStatus, coordVars, expected, results, awaiting, planned, ordered, unheard, raised, faults>>

\* _settle_if_complete counts the entries of the list and the hosts that reported.
Reported(r) == {h \in Host : r[h] # "none"}
\* Mutation: waits for one host more than there are.
CompleteLate(n, r) == n > 0 /\ Cardinality(Reported(r)) > n

Complete(n, r) == n > 0 /\ Cardinality(Reported(r)) >= n
\* Mutation: one host that succeeds is enough.
VerdictOfAny(r) == IF \E h \in Host : r[h] = "ok" THEN "completed" ELSE "failed"

VerdictOf(r) == IF \E h \in Host : r[h] = "bad" THEN "failed" ELSE "completed"

Settle(c, n, r) ==
  IF Complete(n, r)
  THEN inbox' = [inbox EXCEPT ![c] = VerdictOf(r)] /\ Report(c, VerdictOf(r))
  ELSE inbox' = [inbox EXCEPT ![c] = "in_progress"] /\ UNCHANGED queueVars

\* `here' are the hosts the site knows and has approved.  A host that is listed
\* but not here has failed already; one that is listed twice gets two messages.
FanOut(c, here) ==
  LET n == IF All(c) THEN Cardinality(here) ELSE Len(request[c].targets)
      messages == [h \in Host |-> IF h \notin here THEN 0 ELSE IF All(c) THEN 1 ELSE Times(c, h)]
      r == [h \in Host |-> IF h \in Listed(c) \ here THEN "bad" ELSE "none"]
      nobody == \A h \in Host : messages[h] = 0
  IN
  /\ inbox[c] = "queued"
  /\ request[c].kind = "fleet"
  /\ IF n = 0
     THEN FailCommand(c) /\ UNCHANGED <<expected, results, awaiting, ordered>>
     ELSE /\ expected' = [expected EXCEPT ![c] = n]
          /\ results' = [results EXCEPT ![c] = r]
          /\ awaiting' = [awaiting EXCEPT ![c] = [h \in Host |-> @[h] + messages[h]]]
          /\ ordered' = [ordered EXCEPT ![c] = [h \in Host |-> @[h] + messages[h]]]
          /\ IF nobody THEN Settle(c, n, r)
             ELSE inbox' = [inbox EXCEPT ![c] = "in_progress"] /\ UNCHANGED queueVars
  /\ UNCHANGED <<siteStatus, coordVars, planned, unheard, raised, faults>>

Heard(c, h) == awaiting' = [awaiting EXCEPT ![c][h] = @ - 1]

\* A host's answer to a fleet command is routed by its correlation.
HostResult(c, h, r) ==
  /\ request[c].kind = "fleet"
  /\ awaiting[c][h] > 0
  /\ Heard(c, h)
  /\ IF inbox[c] \in Verdict
     THEN UNCHANGED <<inbox, results, queueVars>>
     ELSE /\ results' = [results EXCEPT ![c][h] = r]
          /\ Settle(c, expected[c], results'[c])
  /\ UNCHANGED <<siteStatus, coordVars, expected, planned, ordered, unheard, raised, faults>>

\* The transaction fails after the correlation was taken: the error is logged.
ResultLost(c, h) ==
  /\ faults < MaxFaults
  /\ awaiting[c][h] > 0
  /\ faults' = faults + 1
  /\ Heard(c, h)
  /\ unheard' = unheard \cup {c}
  /\ UNCHANGED <<siteStatus, coordVars, inbox, expected, results, planned, ordered, raised, queueVars>>

\* The plan of a pull is queued, and its correlation registered, in a transaction
\* of its own; the command is still "queued" until the tick commits.
PullPlan(c) ==
  /\ inbox[c] = "queued"
  /\ c \notin planned
  /\ request[c].kind = "pull"
  /\ planned' = planned \cup {c}
  /\ awaiting' = [awaiting EXCEPT ![c][Mirror] = @ + 1]
  /\ ordered' = [ordered EXCEPT ![c][Mirror] = @ + 1]
  /\ UNCHANGED <<siteStatus, coordVars, inbox, expected, results, unheard, raised, queueVars, faults>>

\* The tick writes what it read as "queued", whatever became of it.
PullCommit(c) ==
  /\ c \in planned
  /\ planned' = planned \ {c}
  /\ inbox' = [inbox EXCEPT ![c] = "in_progress"]
  /\ UNCHANGED <<siteStatus, coordVars, expected, results, awaiting, ordered, unheard, raised, queueVars, faults>>

\* The tick fails later on, at another command.
PullAbort(c) ==
  /\ faults < MaxFaults
  /\ c \in planned
  /\ faults' = faults + 1
  /\ planned' = planned \ {c}
  /\ UNCHANGED <<siteStatus, coordVars, inbox, expected, results, awaiting, ordered, unheard, raised, queueVars>>

\* handle_content_view_sync finds that it cannot carry the pull out: nothing is queued
\* for the coordinator.
PullRefused(c) ==
  /\ inbox[c] = "queued"
  /\ request[c].kind = "badpull"
  /\ inbox' = [inbox EXCEPT ![c] = "failed"]
  /\ UNCHANGED <<siteStatus, coordVars, expected, results, awaiting, planned, ordered, unheard, raised, queueVars, faults>>

\* It raises before the plan is queued (the version is no number, the engine or the
\* queue fails): _try_content_view_sync fails the command and reports that.
PullRaises(c) ==
  /\ inbox[c] = "queued"
  /\ c \notin planned
  /\ request[c].kind \in {"pull", "badpull"}
  /\ FailCommand(c)
  /\ raised' = raised \cup {c}
  /\ UNCHANGED <<siteStatus, coordVars, expected, results, awaiting, planned, ordered, unheard, faults>>

\* _CMD_ALLOWED
SiteAllowed(old) ==
  CASE old = "queued"      -> {"in_progress", "failed"}
    [] old = "in_progress" -> Verdict
    [] OTHER               -> {}

PullResult(c, v) ==
  /\ request[c].kind = "pull"
  /\ awaiting[c][Mirror] > 0
  /\ Heard(c, Mirror)
  /\ inbox' = [inbox EXCEPT ![c] = IF v \in SiteAllowed(@) THEN v ELSE @]
  /\ unheard' = IF c \in planned THEN unheard \cup {c} ELSE unheard
  /\ UNCHANGED <<siteStatus, coordVars, expected, results, planned, ordered, raised, queueVars, faults>>

\* The correlations, the tick and the request under way are gone.
SiteRestart ==
  /\ faults < MaxFaults
  /\ faults' = faults + 1
  /\ awaiting' = [c \in Command |-> [h \in Host |-> 0]]
  /\ unheard' = unheard \cup {c \in Command : \E h \in Host : awaiting[c][h] > 0}
  /\ planned' = {}
  /\ draining' = NoRow
  /\ UNCHANGED <<siteStatus, coordVars, inbox, expected, results, ordered, raised, queue, snaps, dropped>>

-----------------------------------------------------------------------------
PushEnds(c) == PushOk(c) \/ PushFail(c)

DrainEnds == DrainOk \/ DrainFail

Next ==
  \/ Suspend \/ Resume \/ Remove
  \/ \E c \in Command :
       \/ Dispatch(c) \/ PushStart(c) \/ PushEnds(c) \/ SiteReceive(c)
       \/ FanOutRefused(c)
       \/ \E here \in SUBSET Host : FanOut(c, here)
       \/ \E h \in Host, r \in {"ok", "bad"} : HostResult(c, h, r)
       \/ \E h \in Host : ResultLost(c, h)
       \/ PullPlan(c) \/ PullCommit(c) \/ PullAbort(c)
       \/ PullRefused(c) \/ PullRaises(c)
       \/ \E v \in Verdict : PullResult(c, v)
  \/ Snapshot
  \/ \E k \in Key : DrainStart(k)
  \/ Ingest \/ DrainEnds
  \/ \E keep \in 0..Cardinality(Key) : Purge(keep)
  \/ CoordRestart \/ SiteRestart

Spec == Init /\ [][Next]_vars

\* The drain worker visits every row that is ready, tick after tick, and ends what
\* it starts; nothing is assumed of the push worker, the network, the agents or the
\* operators.
Fairness ==
  /\ \A k \in Key : WF_vars(DrainStart(k))
  /\ WF_vars(DrainEnds)

FairSpec == Spec /\ Fairness

-----------------------------------------------------------------------------
(* Properties.                                                             *)

\* The types of the variables.
TypeOK ==
  /\ siteStatus \in {"enrolled", "suspended", "removed"}
  /\ request \in [Command -> Request]
  /\ status \in [Command -> {"none", "queued_at_site", "in_progress"} \cup Verdict]
  /\ pushes \in [Command -> 0..MaxAttempts]
  /\ pushing \in [Command -> {"no", "sent", "answered", "unanswered"}]
  /\ rollup \in Nat
  /\ inbox \in [Command -> {"none", "queued", "in_progress"} \cup Verdict]
  /\ expected \in [Command -> Nat]
  /\ results \in [Command -> [Host -> {"none", "ok", "bad"}]]
  /\ awaiting \in [Command -> [Host -> Nat]]
  /\ planned \subseteq Command
  /\ DOMAIN queue = Key
  /\ \A k \in Queued(queue) : queue[k] \in Row(Payload(k))
  /\ draining # NoRow => draining.key \in Key /\ draining \in Sending(draining.key)
  /\ snaps \in Nat
  /\ faults \in 0..MaxFaults
  /\ ordered \in [Command -> [Host -> Nat]]
  /\ unheard \subseteq Command
  /\ raised \subseteq Command
  /\ dropped \subseteq Key

ForAgents(c) == request[c].kind \in {"fleet", "unmapped"}

\* Of the pulls only those whose dispatch raised are reported.
Reports(c) == ForAgents(c) \/ c \in raised

GivenUp(c) == DeadLettered(pushes[c])

\* The hosts a command was meant for: those listed, or all it was sent to.
Meant(c) == Listed(c) \cup {h \in Host : ordered[c][h] > 0}

\* The operator is told that a command is completed only if every host it was meant
\* for carried it out; that it failed only if it failed at the site or the
\* coordinator gave the site up.  The verdict crosses the results of the hosts, the
\* sync queue, its retries and the coordinator's own state machine.
VerdictHonest ==
  \A c \in Command :
    /\ status[c] = "completed" => \A h \in Meant(c) : results[c][h] = "ok"
    /\ status[c] = "failed" => GivenUp(c) \/ (Reports(c) /\ inbox[c] = "failed")

\* However often a command is pushed or ticks and processes fail, a host gets one
\* message for every time it is listed, and the mirror host one pull for every
\* tick that failed besides its first.
OneOrderPerTarget ==
  \A c \in Command, h \in Host :
    ordered[c][h] <= IF request[c].kind = "pull" THEN 1 + faults
                     ELSE IF All(c) THEN 1 ELSE Times(c, h)

\* A verdict the site reached is in the queue until the coordinator has closed the
\* command or the operator purged the row: no retry, crash or replay loses it.
SettledIsReported ==
  \A c \in Command :
    Reports(c) /\ inbox[c] \in Verdict =>
      \/ queue[c] # NoRow /\ queue[c].value = inbox[c]
      \/ status[c] \in Verdict
      \/ c \in dropped

\* A command under way has an answer to come that will be routed to it, unless one
\* was lost or came too early, or its list names a host twice: such a command
\* waits for ever.
SomeoneWillAnswer ==
  \A c \in Command :
    inbox[c] = "in_progress" =>
      \/ \E h \in Host : awaiting[c][h] > 0
      \/ c \in unheard
      \/ \E h \in Host : Times(c, h) > 1

\* The newest rollup has reached the coordinator or is still queued, unless a purge
\* took it or it replaced the one the worker was sending.
NewestRollupKept ==
  snaps > 0 =>
    \/ rollup = snaps
    \/ queue[Rollup] # NoRow /\ queue[Rollup].value = snaps
    \/ Rollup \in dropped

\* A closed command changes only when the push worker gives up, and then to failed,
\* although the transitions of a closed command are said to be none.
OnlyGivingUpOverwrites ==
  [][\A c \in Command :
       status[c] \in Verdict /\ status'[c] # status[c]
         => /\ status'[c] = "failed"
            /\ pushes'[c] = pushes[c] + 1
            /\ DeadLettered(pushes'[c])]_vars

\* A verdict of the site closes the command at the coordinator, or its row ran out
\* of attempts or was purged.
SettledIsHeard ==
  \A c \in Command :
    Reports(c) /\ inbox[c] \in Verdict
      ~> \/ status[c] \in Verdict
         \/ c \in dropped
         \/ queue[c] # NoRow /\ DeadLettered(queue[c].attempts)

-----------------------------------------------------------------------------
(* The contract, about the commands whose outcome the site reports: that   *)
(* of a pull stays at the site, unless its dispatch raised.                *)

Asked == {c \in Command : status[c] # "none"}

Outcome == [c \in Command |-> IF Reports(c) /\ inbox[c] \in Verdict THEN inbox[c] ELSE "open"]

Told == [c \in Command |-> IF GivenUp(c) THEN "given up"
                           ELSE IF status[c] \in Verdict THEN status[c] ELSE "open"]

Contract == INSTANCE CommandContract WITH asked <- Asked, outcome <- Outcome, told <- Told

\* The services implement the contract of CommandContract.tla.
KeepsContract == Contract!Spec
=============================================================================
