------------------------- MODULE RebootOrchestration -------------------------
(***************************************************************************)
(* An orchestrated reboot of a parent host: its running children are       *)
(* stopped, the parent is rebooted, and when its agent is heard of again   *)
(* the children are started.  The server drives this from what it records  *)
(* of the children; commands travel through the outbound queue.            *)
(*                                                                         *)
(* Modelled code: backend/api/reboot_orchestration.py, backend/services/   *)
(* reboot_orchestration_service.py, the heartbeat's call of it in          *)
(* backend/api/message_handlers_core.py, and the plan path of the          *)
(* children's commands: backend/api/child_host_control.py, backend/        *)
(* services/child_host_result_handlers.py and the routing of results in    *)
(* backend/services/proplus_dispatch.py and backend/api/message_           *)
(* handlers.py.  The agent is external, and so are the handlers of the     *)
(* results of plain commands and of listings, which check the progress and *)
(* are not in this repository.  Nobody else touches the children.          *)
(*                                                                         *)
(* What the agent does and what the server records of it are apart:        *)
(* answers and listings travel through the inbound queue, which keeps no   *)
(* order, may lose a message and may handle one twice.                     *)
(***************************************************************************)
EXTENDS Naturals, FiniteSets

CONSTANTS
  Child,           \* the parent's children
  Orchestration,   \* the orchestrations that may be requested, numbered in their order
  PlanChoices,     \* the sets of children whose commands may be queued as plans
  MaxTargets,      \* bound on the children of all their snapshots together
  MaxIncidents     \* bound on the listings that are made, the commands and answers that
                   \* fail, are lost or come twice, and the orchestrations that overlap

ASSUME OrchestrationAssumption == Orchestration \subseteq Nat
ASSUME PlanAssumption == PlanChoices \subseteq SUBSET Child
ASSUME BoundsAssumption == MaxTargets \in Nat /\ MaxIncidents \in Nat

VARIABLES
  parentUp,        \* the parent and its agent are up
  child,           \* what a child is: "up", "down" or "broken"
  commands,        \* <<action, orchestration, child>>: what the agent has still to do
  answers,         \* <<command, outcome>>: what it answered and the server has still to handle
  listings,        \* what it saw of the children, on its way to the server
  status,          \* HostChild.status
  phase,           \* RebootOrchestration.status, "none" before it is requested
  snapshot,        \* its child_hosts_snapshot
  restart,         \* its child_hosts_restart_status
  expired,         \* those whose shutdown timeout has passed
  planned,         \* commands that were queued as plans of an engine
  correlated,      \* _CORRELATIONS: plans whose result will be recorded
  rebooted,        \* history: those whose reboot was carried out
  early,           \* history: those whose restart began before their reboot
  overlapped,      \* history: those under way at the same time as another
  repeated,        \* history: those with a command the agent carried out and keeps, or an
                   \* answer the server handled and keeps
  unstopped,       \* history: the children recorded as running when the reboot was ordered
  misled,          \* history: <<orchestration, child>>: recorded otherwise than it was
  started,         \* history: <<orchestration, child>>: started by it, after its reboot
  hit,             \* history: <<orchestration, child>>: up when it rebooted the parent
  troubled,        \* history: those with a command that failed, or lost one or its answer
  incidents        \* how many there were of the things that MaxIncidents bounds

agent == <<parentUp, child>>
inFlight == <<commands, answers, listings>>
records == <<status, misled>>
course == <<phase, snapshot, restart, unstopped>>
plans == <<planned, correlated>>
deeds == <<rebooted, started, hit>>
mishaps == <<repeated, troubled, incidents>>
concurrence == <<early, overlapped>>
vars == <<agent, inFlight, records, course, expired, plans, deeds, mishaps, concurrence>>

Nobody == [o \in Orchestration |-> {}]

Init ==
  /\ parentUp = TRUE
  /\ child \in [Child -> {"up", "down"}]
  /\ commands = {}
  /\ answers = {}
  /\ listings = {}
  /\ status = [c \in Child |-> IF child[c] = "up" THEN "running" ELSE "stopped"]
  /\ phase = [o \in Orchestration |-> "none"]
  /\ snapshot = Nobody
  /\ restart = [o \in Orchestration |-> [c \in Child |-> "none"]]
  /\ expired = {}
  /\ planned = {}
  /\ correlated = {}
  /\ rebooted = {}
  /\ early = {}
  /\ overlapped = {}
  /\ repeated = {}
  /\ unstopped = Nobody
  /\ misled = {}
  /\ started = {}
  /\ hit = {}
  /\ troubled = {}
  /\ incidents = 0

Active(o) == phase[o] \in {"shutting_down", "rebooting", "restarting"}

\* Requested and not completed, or with commands the agent has not carried out.
UnderWay == {o \in Orchestration : Active(o) \/ \E command \in commands : command[2] = o}

\* What MaxIncidents bounds.
Incident(happens) ==
  IF happens THEN incidents < MaxIncidents /\ incidents' = incidents + 1 ELSE UNCHANGED incidents

Targets == {t \in Orchestration \X Child : t[2] \in snapshot[t[1]]}

-----------------------------------------------------------------------------
(* The server.                                                             *)

Running == {c \in Child : status[c] = "running"}

ForEach(action, o, children) == {action} \X {o} \X children

\* The reboot names no child; any member of Child stands in its place.
Reboot(o) == <<"reboot", o, CHOOSE c \in Child : TRUE>>

\* Mutation: a parent without running children is accepted.
SnapshotEmpty(o) == snapshot' = [snapshot EXCEPT ![o] = Running]

\* orchestrated_reboot: at least one child runs; an orchestration that is under way
\* is not looked for.
Snapshot(o) == Running # {} /\ snapshot' = [snapshot EXCEPT ![o] = Running]

\* The host is recorded as active, whether it is up or not.  Each command is queued as
\* a plan if an engine has one, or else as it is; the plan of a stop is correlated with
\* its child.
Initiate(o) ==
  /\ phase[o] = "none"
  /\ \A p \in Orchestration : p < o => phase[p] # "none"
  /\ Cardinality(Targets) + Cardinality(Running) <= MaxTargets
  /\ Snapshot(o)
  /\ phase' = [phase EXCEPT ![o] = "shutting_down"]
  /\ commands' = commands \cup ForEach("stop", o, Running)
  /\ \E withPlan \in PlanChoices :
       /\ planned' = planned \cup ForEach("stop", o, withPlan \cap Running)
       /\ correlated' = correlated \cup ForEach("stop", o, withPlan \cap Running)
  /\ Incident(UnderWay # {})
  /\ overlapped' = IF UnderWay = {} THEN overlapped ELSE overlapped \cup UnderWay \cup {o}
  /\ UNCHANGED <<agent, answers, listings, records, restart, expired, unstopped, early, deeds,
                 repeated, troubled>>

\* shutdown_timeout_seconds go by.
Expire(o) ==
  /\ phase[o] = "shutting_down"
  /\ expired' = expired \cup {o}
  /\ UNCHANGED <<agent, inFlight, records, course, plans, deeds, mishaps, concurrence>>

\* Mutation: one child that was stopped is enough.
StillRunningAll(o, recorded) ==
  {c \in snapshot[o] : \A d \in snapshot[o] : recorded[d] = "running"}

StillRunning(o, recorded) == {c \in snapshot[o] : recorded[c] = "running"}

\* check_shutdown_progress looks at one orchestration that is shutting down.
CheckShutdown ==
  \/ /\ \A o \in Orchestration : phase[o] # "shutting_down"
     /\ UNCHANGED <<phase, commands, unstopped>>
  \/ \E o \in Orchestration :
       /\ phase[o] = "shutting_down"
       /\ IF StillRunning(o, status') = {} \/ o \in expired
          THEN /\ phase' = [phase EXCEPT ![o] = "rebooting"]
               /\ commands' = commands \cup {Reboot(o)}
               /\ unstopped' = [unstopped EXCEPT ![o] = StillRunning(o, status')]
          ELSE UNCHANGED <<phase, commands, unstopped>>

\* handle_agent_reconnect is called by every heartbeat, one that was sent before the
\* reboot included.  The start commands carry no correlation.
Heartbeat ==
  /\ \E o \in Orchestration :
       /\ phase[o] = "rebooting"
       /\ phase' = [phase EXCEPT ![o] = "restarting"]
       /\ restart' = [restart EXCEPT ![o] =
                        [c \in Child |-> IF c \in snapshot[o] THEN "pending" ELSE "none"]]
       /\ commands' = commands \cup ForEach("start", o, snapshot[o])
       /\ \E withPlan \in PlanChoices :
            planned' = planned \cup ForEach("start", o, withPlan \cap snapshot[o])
       /\ early' = IF o \in rebooted THEN early ELSE early \cup {o}
  /\ UNCHANGED <<agent, answers, listings, records, snapshot, expired, unstopped, correlated,
                 overlapped, deeds, mishaps>>

\* Mutation: a child that is down counts as restarted.
ProgressDown(recorded, old) ==
  IF old = "none" THEN old ELSE IF recorded = "error" THEN "failed" ELSE "running"

\* Mutation: a child that was restarted is not recorded.
ProgressFailures(recorded, old) == IF old # "none" /\ recorded = "error" THEN "failed" ELSE old

Progress(recorded, old) ==
  IF old = "none" THEN old
  ELSE CASE recorded = "running" -> "running"
         [] recorded = "error"   -> "failed"
         [] OTHER                -> old

AllDone(r) == \A c \in Child : r[c] # "pending"

\* check_restart_progress; "failed" children do not keep it from "completed".
CheckRestart ==
  \/ /\ \A o \in Orchestration : phase[o] # "restarting"
     /\ UNCHANGED <<phase, restart>>
  \/ \E o \in Orchestration :
       LET r == [c \in Child |-> Progress(status'[c], restart[o][c])] IN
       /\ phase[o] = "restarting"
       /\ restart' = [restart EXCEPT ![o] = r]
       /\ phase' = [phase EXCEPT ![o] = IF AllDone(r) THEN "completed" ELSE @]

\* A record that changes, and is not what the child is, misleads the orchestrations
\* under way.
Record(recorded) ==
  LET wrong == {c \in Child : recorded[c] # status[c] /\ (recorded[c] = "running" <=> child[c] # "up")} IN
  /\ status' = recorded
  /\ misled' = misled \cup {t \in Targets : Active(t[1]) /\ t[2] \in wrong}

\* The inbound queue drops a message that was handled, or keeps it and hands it out again.
Handled(answer) ==
  \E kept \in BOOLEAN :
    /\ answers' = IF kept THEN answers ELSE answers \ {answer}
    /\ repeated' = IF kept THEN repeated \cup {answer[1][2]} ELSE repeated
    /\ Incident(kept)

\* route_proplus_command_result: a plan whose correlation is known and was not used
\* has its result recorded, and no progress is checked.
PlanAnswer(command, outcome) ==
  /\ <<command, outcome>> \in answers
  /\ command \in planned
  /\ IF command \in correlated /\ outcome = "ok"
     THEN Record([status EXCEPT ![command[3]] = "stopped"])
     ELSE UNCHANGED records
  /\ correlated' = correlated \ {command}
  /\ Handled(<<command, outcome>>)
  /\ UNCHANGED <<agent, commands, listings, course, expired, planned, deeds, troubled, concurrence>>

\* External: the handler of a plain stop records its outcome; when the child was
\* stopped it checks the progress of the shutdown.
StopAnswer(command, outcome) ==
  /\ <<command, outcome>> \in answers
  /\ command \notin planned
  /\ command[1] = "stop"
  /\ IF outcome = "ok"
     THEN Record([status EXCEPT ![command[3]] = "stopped"]) /\ CheckShutdown
     ELSE /\ \E s \in {status[command[3]], "error"} : Record([status EXCEPT ![command[3]] = s])
          /\ UNCHANGED <<phase, commands, unstopped>>
  /\ Handled(<<command, outcome>>)
  /\ UNCHANGED <<agent, listings, snapshot, restart, expired, plans, deeds, troubled, concurrence>>

\* External: the handler of a plain start, and the progress of the restart.
StartAnswer(command, outcome) ==
  /\ <<command, outcome>> \in answers
  /\ command \notin planned
  /\ command[1] = "start"
  /\ IF outcome = "ok"
     THEN Record([status EXCEPT ![command[3]] = "running"]) /\ CheckRestart
     ELSE /\ \E s \in {status[command[3]], "error"} : Record([status EXCEPT ![command[3]] = s])
          /\ UNCHANGED <<phase, restart>>
  /\ Handled(<<command, outcome>>)
  /\ UNCHANGED <<agent, commands, listings, snapshot, unstopped, expired, plans, deeds, troubled,
                 concurrence>>

HandleAnswer(command, outcome) ==
  PlanAnswer(command, outcome) \/ StopAnswer(command, outcome) \/ StartAnswer(command, outcome)

\* A listing is recorded, however old it is.  External: the progress of a restart is
\* checked, or it is not.
RecordListing(seen) ==
  /\ seen \in listings
  /\ listings' \in {listings, listings \ {seen}}
  /\ Record([c \in Child |-> CASE seen[c] = "up"   -> "running"
                               [] seen[c] = "down" -> "stopped"
                               [] OTHER            -> "error"])
  /\ CheckRestart \/ UNCHANGED <<phase, restart>>
  /\ UNCHANGED <<agent, commands, answers, snapshot, unstopped, expired, plans, deeds, mishaps,
                 concurrence>>

-----------------------------------------------------------------------------
(* The agent, which is external, and the queues in between.                *)

\* The outbound queue drops a command that was carried out, or keeps it and sends it
\* again; the agent answers either way, and says whether the command succeeded.
CarriedOut(command, kept) ==
  /\ parentUp
  /\ command \in commands
  /\ commands' = IF kept THEN commands ELSE commands \ {command}
  /\ repeated' = IF kept THEN repeated \cup {command[2]} ELSE repeated

Answer(command, outcome) ==
  /\ answers' = answers \cup {<<command, outcome>>}
  /\ troubled' = IF outcome = "ok" THEN troubled ELSE troubled \cup {command[2]}

\* A stop that fails may have stopped the child.
Stop(o, c) ==
  \E kept \in BOOLEAN, outcome \in {"ok", "failed"} :
    /\ CarriedOut(<<"stop", o, c>>, kept)
    /\ Answer(<<"stop", o, c>>, outcome)
    /\ Incident(kept \/ outcome = "failed")
    /\ \/ child' = [child EXCEPT ![c] = "down"]
       \/ outcome = "failed" /\ UNCHANGED child
    /\ UNCHANGED <<parentUp, listings, records, course, expired, plans, deeds, concurrence>>

\* The parent goes down, and with it every child.
DoReboot(o) ==
  \E kept \in BOOLEAN :
    /\ CarriedOut(Reboot(o), kept)
    /\ Incident(kept)
    /\ parentUp' = FALSE
    /\ child' = [c \in Child |-> IF child[c] = "up" THEN "down" ELSE child[c]]
    /\ rebooted' = rebooted \cup {o}
    /\ hit' = hit \cup {<<o, c>> : c \in {d \in snapshot[o] : child[d] = "up"}}
    /\ UNCHANGED <<answers, listings, records, course, expired, plans, started, troubled,
                   concurrence>>

ParentBoots ==
  /\ ~ parentUp
  /\ parentUp' = TRUE
  /\ UNCHANGED <<child, inFlight, records, course, expired, plans, deeds, mishaps, concurrence>>

Start(o, c) ==
  \E kept \in BOOLEAN, outcome \in {"ok", "failed"} :
    /\ CarriedOut(<<"start", o, c>>, kept)
    /\ Answer(<<"start", o, c>>, outcome)
    /\ Incident(kept \/ outcome = "failed")
    /\ child' = [child EXCEPT ![c] = IF outcome = "ok" THEN "up" ELSE "broken"]
    /\ started' = IF outcome = "ok" /\ o \in rebooted THEN started \cup {<<o, c>>} ELSE started
    /\ UNCHANGED <<parentUp, listings, records, course, expired, plans, rebooted, hit, concurrence>>

\* A command that expires in its queue, or an answer or its correlation that is lost.
Lose(o) ==
  /\ \/ \E command \in commands :
          command[2] = o /\ commands' = commands \ {command} /\ UNCHANGED answers
     \/ \E answer \in answers :
          answer[1][2] = o /\ answers' = answers \ {answer} /\ UNCHANGED commands
  /\ troubled' = troubled \cup {o}
  /\ Incident(TRUE)
  /\ UNCHANGED <<agent, listings, records, course, expired, plans, deeds, repeated, concurrence>>

\* The agent lists the children.
Observe ==
  /\ parentUp
  /\ Incident(TRUE)
  /\ listings' = listings \cup {child}
  /\ UNCHANGED <<agent, commands, answers, records, course, expired, plans, deeds, repeated, troubled,
                 concurrence>>

-----------------------------------------------------------------------------
Execute ==
  \/ \E o \in Orchestration, c \in Child : Stop(o, c) \/ Start(o, c)
  \/ \E o \in Orchestration : DoReboot(o)

Handle == \E command \in commands \cup {a[1] : a \in answers}, outcome \in {"ok", "failed"} :
            HandleAnswer(command, outcome)

Next ==
  \/ \E o \in Orchestration : Initiate(o) \/ Expire(o) \/ Lose(o)
  \/ Heartbeat
  \/ Execute \/ ParentBoots \/ Observe
  \/ Handle
  \/ \E seen \in listings : RecordListing(seen)

Spec == Init /\ [][Next]_vars

\* An agent that is up carries out its commands, and sends heartbeats; a parent that
\* reboots comes back; the queues hand out what they hold and are done with it in the
\* end, as the retries are limited.  Nothing is assumed of the listings.
Fairness ==
  /\ WF_vars(Execute /\ commands' # commands)
  /\ WF_vars(Handle /\ answers' # answers)
  /\ WF_vars(ParentBoots)
  /\ WF_vars(parentUp /\ Heartbeat)

FairSpec == Spec /\ Fairness

-----------------------------------------------------------------------------
(* Properties.                                                             *)

Command == {"stop", "start", "reboot"} \X Orchestration \X Child

\* The types of the variables; an orchestration is about at least one child.
TypeOK ==
  /\ parentUp \in BOOLEAN
  /\ child \in [Child -> {"up", "down", "broken"}]
  /\ commands \subseteq Command
  /\ answers \subseteq Command \X {"ok", "failed"}
  /\ listings \subseteq [Child -> {"up", "down", "broken"}]
  /\ status \in [Child -> {"running", "stopped", "error"}]
  /\ phase \in [Orchestration -> {"none", "shutting_down", "rebooting", "restarting", "completed"}]
  /\ snapshot \in [Orchestration -> SUBSET Child]
  /\ \A o \in Orchestration : phase[o] = "none" <=> snapshot[o] = {}
  /\ restart \in [Orchestration -> [Child -> {"none", "pending", "running", "failed"}]]
  /\ expired \subseteq Orchestration
  /\ planned \subseteq Command
  /\ correlated \subseteq planned
  /\ rebooted \subseteq Orchestration
  /\ early \subseteq Orchestration
  /\ overlapped \subseteq Orchestration
  /\ repeated \subseteq Orchestration
  /\ unstopped \in [Orchestration -> SUBSET Child]
  /\ misled \subseteq Orchestration \X Child
  /\ started \subseteq Orchestration \X Child
  /\ hit \subseteq Orchestration \X Child
  /\ troubled \subseteq Orchestration
  /\ incidents \in Nat

\* The reboot takes down no child of its snapshot that is up, unless the timeout
\* passed, a heartbeat that was sent before the reboot started the children again,
\* the reboot was sent twice, another orchestration was under way, or an old answer or
\* listing, or the handler of a failed stop, recorded the child as not running.
RebootSparesChildren ==
  \A o \in Orchestration, c \in Child :
    <<o, c>> \in hit => o \in expired \cup early \cup repeated \cup overlapped \/ <<o, c>> \in misled

\* A child that counts as restarted was started after the reboot, unless the restart
\* began before it or another orchestration was under way, the child was still recorded
\* as running when the reboot was ordered, or an old listing recorded it so.
RestartedWasStarted ==
  \A o \in Orchestration, c \in Child :
    restart[o][c] = "running" =>
      \/ <<o, c>> \in started
      \/ c \in unstopped[o]
      \/ <<o, c>> \in misled
      \/ o \in early \cup overlapped

\* An orchestration concludes unless a command of it took the plan path, whose answers
\* nobody follows up; a command failed or it or its answer was lost (nobody looks at the
\* timeout then); an old answer or listing recorded a child otherwise than it was; or
\* another orchestration was under way.
Concludes ==
  \A o \in Orchestration :
    phase[o] = "shutting_down"
      ~> \/ phase[o] = "completed"
         \/ \E command \in planned : command[2] = o
         \/ o \in troubled \cup overlapped
         \/ \E c \in Child : <<o, c>> \in misled
=============================================================================
