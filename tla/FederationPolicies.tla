------------------------- MODULE FederationPolicies -------------------------
(***************************************************************************)
(* A coordinator keeps versioned policies and assigns them to a federation *)
(* site; its push worker posts the current version until the site has it.  *)
(* The site keeps the newest version it was sent, and a worker of its own  *)
(* materialises it into the local tables.                                  *)
(*                                                                         *)
(* Modelled code, all in backend/services: federation_policy_service and   *)
(* the states of federation_site_service (coordinator), the policy half of *)
(* federation_inbox_service and federation_policy_apply_service (site).    *)
(* The push worker is not in this repository and is modelled from          *)
(* tests/services/test_federation_push_worker.py.  A local object carries  *)
(* the definition of one version of one policy, as a firewall role does.   *)
(*                                                                         *)
(* A request is handled, if ever, before its sender gives it up.           *)
(***************************************************************************)
EXTENDS Naturals, FiniteSets

CONSTANTS
  Policy,        \* policies
  Role,          \* names of local objects
  Names,         \* the local object a policy defines
  Flawed,        \* sets of <<policy, version>>: what may turn out not to be appliable
  None,          \* not there
  MaxAttempts,   \* retry_policy.MAX_ATTEMPTS
  Limit,         \* the rows a tick of the apply worker takes
  MaxVersion     \* bound on the versions of each policy

ASSUME PoliciesAssumption ==
  /\ Names \in [Policy -> Role]
  /\ MaxAttempts \in Nat \ {0}
  /\ Limit \in Nat \ {0}
  /\ None \notin [version : Nat, applied : BOOLEAN]
  /\ \A f \in Flawed : f \subseteq Policy \X Nat
  /\ MaxVersion \in [Policy -> Nat \ {0}]

VARIABLES
  siteStatus,   \* FederationSite.status
  version,      \* FederationPolicy.version
  active,       \* its is_active
  assignment,   \* the policy's assignment to the site: push_status, pushed_version, push_attempts
  sending,      \* the push worker's request
  flawed,       \* versions no applier can materialise, for good
  inbox,        \* the site's row for a policy
  before,       \* <<q, p>>: the row of q has the earlier received_at
  applying,     \* the version the apply worker has read
  local,        \* the policy and the version a local object was made from
  overtaken     \* history: policies whose row was renewed while the worker applied it

coordVars == <<siteStatus, version, active, assignment>>
siteVars == <<flawed, inbox, before, applying, local, overtaken>>
vars == <<coordVars, sending, siteVars>>

Init ==
  /\ siteStatus = "enrolled"
  /\ version = [p \in Policy |-> 1]
  /\ active = [p \in Policy |-> TRUE]
  /\ assignment = [p \in Policy |-> None]
  /\ sending = None
  /\ flawed \in Flawed
  /\ inbox = [p \in Policy |-> None]
  /\ before = {}
  /\ applying = None
  /\ local = [n \in Role |-> None]
  /\ overtaken = {}

-----------------------------------------------------------------------------
(* The coordinator.                                                        *)

\* A site that is removed is one that is suspended and never resumed.
Suspend ==
  /\ siteStatus = "enrolled"
  /\ siteStatus' = "suspended"
  /\ UNCHANGED <<version, active, assignment, sending, siteVars>>

Resume ==
  /\ siteStatus = "suspended"
  /\ siteStatus' = "enrolled"
  /\ UNCHANGED <<version, active, assignment, sending, siteVars>>

UpdatePolicy(p) ==
  /\ active[p]
  /\ version[p] < MaxVersion[p]
  /\ version' = [version EXCEPT ![p] = @ + 1]
  /\ UNCHANGED <<siteStatus, active, assignment, sending, siteVars>>

Deactivate(p) ==
  /\ active[p]
  /\ active' = [active EXCEPT ![p] = FALSE]
  /\ UNCHANGED <<siteStatus, version, assignment, sending, siteVars>>

Assigned == {p \in Policy : assignment[p] # None}

\* A fresh window of attempts; what was pushed before stays known.
Renewed(a) == [status |-> "pending", pushed |-> IF a = None THEN 0 ELSE a.pushed, attempts |-> 0]

Assign(p) ==
  /\ active[p]
  /\ assignment' = [assignment EXCEPT ![p] = Renewed(@)]
  /\ UNCHANGED <<siteStatus, version, active, sending, siteVars>>

Unassign(p) ==
  /\ p \in Assigned
  /\ assignment' = [assignment EXCEPT ![p] = None]
  /\ UNCHANGED <<siteStatus, version, active, sending, siteVars>>

\* "Push policies now"
Requeue ==
  /\ Assigned # {}
  /\ assignment' = [p \in Policy |-> IF p \in Assigned THEN Renewed(assignment[p]) ELSE None]
  /\ UNCHANGED <<siteStatus, version, active, sending, siteVars>>

-----------------------------------------------------------------------------
(* The push worker.                                                        *)

\* Mutation: a push that failed once is not pending again.
PendingUntried(p) ==
  /\ active[p]
  /\ p \in Assigned
  /\ assignment[p].status \notin {"dead", "error"}
  /\ assignment[p].status # "pushed" \/ assignment[p].pushed < version[p]

\* list_all_pending_pushes
Pending(p) ==
  /\ active[p]
  /\ p \in Assigned
  /\ assignment[p].status # "dead"
  /\ assignment[p].status # "pushed" \/ assignment[p].pushed < version[p]

\* External: the worker takes the version that is current now.
PushStart(p) ==
  /\ sending = None
  /\ siteStatus = "enrolled"
  /\ Pending(p)
  /\ sending' = [policy |-> p, version |-> version[p], phase |-> "sent"]
  /\ UNCHANGED <<coordVars, siteVars>>

\* What the service records of an assignment that is still there.
Recorded(a) == assignment' = [assignment EXCEPT ![sending.policy] = IF @ = None THEN None ELSE a]

\* Mutation: the version that is current when the answer comes.
PushedVersionNow(s) == version[s.policy]

\* The version the worker sent, whatever was edited since.
PushedVersion(s) == s.version

\* mark_policy_pushed leaves the attempts alone.
PushOk ==
  /\ sending # None
  /\ sending.phase = "answered"
  /\ sending' = None
  /\ Recorded([status |-> "pushed", pushed |-> PushedVersion(sending),
               attempts |-> assignment[sending.policy].attempts])
  /\ UNCHANGED <<siteStatus, version, active, siteVars>>

\* Mutation: one attempt too many.
DeadLetteredLate(attempts) == attempts > MaxAttempts

\* federation_retry_policy.is_dead_lettered
DeadLettered(attempts) == attempts >= MaxAttempts

\* The request or its answer is lost.
PushFail ==
  /\ sending # None
  /\ sending.phase \in {"sent", "unanswered"}
  /\ sending' = None
  /\ LET old == assignment[sending.policy]
         attempts == old.attempts + 1
     IN  Recorded([status |-> IF DeadLettered(attempts) THEN "dead" ELSE "error",
                   pushed |-> old.pushed, attempts |-> attempts])
  /\ UNCHANGED <<siteStatus, version, active, siteVars>>

-----------------------------------------------------------------------------
(* The site.                                                               *)

Received == {p \in Policy : inbox[p] # None}

Newer(p, v) == p \notin Received \/ v > inbox[p].version

\* Mutation: a row that was applied stays applied.
FreshApplied(p, v) == [version |-> v, applied |-> p \in Received /\ inbox[p].applied]

\* A new version is still to be applied.
Fresh(p, v) == [version |-> v, applied |-> FALSE]

\* receive_policy: an older version, or the same again, is ignored.
SiteReceive ==
  /\ sending # None
  /\ sending.phase = "sent"
  /\ \E answer \in {"answered", "unanswered"} : sending' = [sending EXCEPT !.phase = answer]
  /\ LET p == sending.policy
         v == sending.version
     IN  IF Newer(p, v)
         THEN /\ inbox' = [inbox EXCEPT ![p] = Fresh(p, v)]
              /\ before' = {t \in before : t[1] # p /\ t[2] # p} \cup ((Received \ {p}) \X {p})
              /\ overtaken' = IF applying # None /\ applying.policy = p
                              THEN overtaken \cup {p} ELSE overtaken \ {p}
         ELSE UNCHANGED <<inbox, before, overtaken>>
  /\ UNCHANGED <<coordVars, flawed, applying, local>>

Unapplied == {p \in Received : ~ inbox[p].applied}

\* The rows a tick of the apply worker takes: the first ones it has not applied.
Batch == {p \in Unapplied : Cardinality({q \in Unapplied : <<q, p>> \in before}) < Limit}

ApplyStart(p) ==
  /\ applying = None
  /\ p \in Batch
  /\ applying' = [policy |-> p, version |-> inbox[p].version]
  /\ UNCHANGED <<coordVars, sending, flawed, inbox, before, local, overtaken>>

Unappliable(p, v) == <<p, v>> \in flawed

\* The row counts as applied, whichever version it has by now.
ApplyOk ==
  /\ applying # None
  /\ ~ Unappliable(applying.policy, applying.version)
  /\ applying' = None
  /\ local' = [local EXCEPT ![Names[applying.policy]] = applying]
  /\ inbox' = [inbox EXCEPT ![applying.policy].applied = TRUE]
  /\ UNCHANGED <<coordVars, sending, flawed, before, overtaken>>

\* The applier's writes are rolled back; the row is tried again at the next tick.
ApplyFail ==
  /\ applying # None
  /\ Unappliable(applying.policy, applying.version)
  /\ applying' = None
  /\ overtaken' = overtaken \ {applying.policy}
  /\ UNCHANGED <<coordVars, sending, flawed, inbox, before, local>>

-----------------------------------------------------------------------------
PushEnds == PushOk \/ PushFail

ApplyEnds == ApplyOk \/ ApplyFail

Next ==
  \/ Suspend \/ Resume \/ Requeue
  \/ \E p \in Policy : UpdatePolicy(p) \/ Deactivate(p) \/ Assign(p) \/ Unassign(p)
  \/ \E p \in Policy : PushStart(p)
  \/ PushEnds \/ SiteReceive
  \/ \E p \in Policy : ApplyStart(p)
  \/ ApplyEnds

Spec == Init /\ [][Next]_vars

\* Both workers visit every row of their list, tick after tick, and end what they
\* start; nothing is assumed of the network or of the operators.
Fairness ==
  /\ \A p \in Policy : SF_vars(PushStart(p)) /\ SF_vars(ApplyStart(p))
  /\ WF_vars(PushEnds)
  /\ WF_vars(ApplyEnds)

FairSpec == Spec /\ Fairness

-----------------------------------------------------------------------------
(* Properties.                                                             *)

Made == [policy : Policy, version : Nat]

\* The types of the variables.
TypeOK ==
  /\ siteStatus \in {"enrolled", "suspended"}
  /\ version \in [Policy -> Nat]
  /\ active \in [Policy -> BOOLEAN]
  /\ assignment \in [Policy -> [status : {"pending", "pushed", "error", "dead"},
                                pushed : Nat, attempts : 0..MaxAttempts] \cup {None}]
  /\ sending \in [policy : Policy, version : Nat,
                  phase : {"sent", "answered", "unanswered"}] \cup {None}
  /\ flawed \in Flawed
  /\ inbox \in [Policy -> [version : Nat, applied : BOOLEAN] \cup {None}]
  /\ before \subseteq Policy \X Policy
  /\ applying \in Made \cup {None}
  /\ local \in [Role -> Made \cup {None}]
  /\ overtaken \subseteq Policy

\* A version the coordinator counts as pushed has reached the site, whatever was
\* edited, reassigned, requeued or lost on the way: it never stops pushing early.
PushedIsReceived ==
  \A p \in Assigned :
    assignment[p].pushed > 0 => p \in Received /\ inbox[p].version >= assignment[p].pushed

Sharing(p) == {q \in Policy \ {p} : Names[q] = Names[p]}

\* A row that counts as applied is what the local object was made from, unless a
\* newer version came while an older one was being applied, or another policy
\* defines the same object.
AppliedIsMirror ==
  \A p \in Received :
    inbox[p].applied =>
      \/ local[Names[p]] = [policy |-> p, version |-> inbox[p].version]
      \/ p \in overtaken
      \/ local[Names[p]].policy \in Sharing(p)

Settled(p) == p \in Received /\ inbox[p].version = version[p] /\ inbox[p].applied

\* The first rows the apply worker takes are all unappliable: it never sees another.
Starved == Batch # {} /\ \A q \in Batch : Unappliable(q, inbox[q].version)

\* The operators stop renewing the attempts at some time.
AttemptsCount == <>[][~ Requeue /\ \A p \in Policy : ~ Assign(p)]_vars

\* An assigned policy is applied at the site in its current version, if it can be,
\* unless its pushes ran out of attempts, which operators do not renew for ever, an
\* operator intervened, or rows nobody can apply fill every batch.
Converges ==
  AttemptsCount =>
    \A p \in Policy :
      p \in Assigned
        ~> \/ Settled(p)
           \/ Unappliable(p, version[p])
           \/ p \notin Assigned \/ assignment[p].status = "dead"
           \/ ~ active[p] \/ siteStatus # "enrolled"
           \/ Starved
=============================================================================
