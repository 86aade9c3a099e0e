---------------------- MODULE FederationPolicies_proofs ----------------------
(***************************************************************************)
(* Proofs about FederationPolicies for every set of policies and local     *)
(* objects, every limit of the two workers and every number of versions.   *)
(* The inductive invariant adds to the properties                          *)
(*   AttemptsLeft  only a dead assignment has no attempt left, and none    *)
(*                 that is being pushed is dead                            *)
(*   Delivered     an answered push has reached the site                   *)
(*   Applying      what the apply worker has read is still in its row, or  *)
(*                 the row was renewed; it is not applied yet              *)
(* A second part adds what holds of the order of versions and of rows:     *)
(*   VersionsFollow  made, held, sent and pushed versions ascend to the    *)
(*                   coordinator's                                         *)
(*   SentIsNewest    a push is not older than what counts as pushed        *)
(*   ReceiptOrder    the rows are finitely many and totally ordered        *)
(* It gives the safety half of Converges, PoliciesGoOn.                    *)
(***************************************************************************)
EXTENDS FederationPolicies, FiniteSetTheorems, WellFoundedInduction, TLAPS

AttemptsLeft ==
  /\ \A p \in Assigned : assignment[p].status # "dead" => assignment[p].attempts < MaxAttempts
  /\ sending # None /\ sending.policy \in Assigned => assignment[sending.policy].status # "dead"

Delivered ==
  sending # None /\ sending.phase # "sent"
    => /\ sending.policy \in Received
       /\ inbox[sending.policy].version >= sending.version

Applying ==
  applying # None
    => /\ applying.policy \in Received
       /\ ~ inbox[applying.policy].applied
       /\ inbox[applying.policy].version = applying.version \/ applying.policy \in overtaken

IInv ==
  /\ TypeOK
  /\ AttemptsLeft
  /\ PushedIsReceived
  /\ Delivered
  /\ Applying
  /\ AppliedIsMirror

\* An assignment, a row and a request, as TypeOK types them.
Assignment == [status : {"pending", "pushed", "error", "dead"}, pushed : Nat, attempts : 0..MaxAttempts]
InboxRow == [version : Nat, applied : BOOLEAN]
Sending == [policy : Policy, version : Nat, phase : {"sent", "answered", "unanswered"}]

-----------------------------------------------------------------------------
(* Types.                                                                  *)

LEMMA TypeInit == Init => TypeOK
BY PoliciesAssumption DEF Init, TypeOK, Assigned, Made

\* What TypeOK says of a single row, request or assignment.
LEMMA Typed ==
  ASSUME TypeOK
  PROVE  /\ \A p \in Assigned : assignment[p] \in Assignment
         /\ \A p \in Received : inbox[p] \in InboxRow
         /\ sending # None => sending \in Sending
         /\ applying # None => applying \in Made
BY DEF TypeOK, Assigned, Received, Assignment, InboxRow, Sending

\* The same of the next state.
LEMMA TypedNext ==
  ASSUME TypeOK'
  PROVE  /\ \A p \in Assigned' : p \in Policy /\ assignment'[p] \in Assignment
         /\ \A p \in Received' : p \in Policy /\ inbox'[p] \in InboxRow
BY DEF TypeOK, Assigned, Received, Assignment, InboxRow

LEMMA RenewedFields ==
  ASSUME NEW a
  PROVE  Renewed(a).status = "pending" /\ Renewed(a).attempts = 0
BY DEF Renewed

LEMMA RenewedType ==
  ASSUME NEW p \in Policy, TypeOK
  PROVE  Renewed(assignment[p]) \in Assignment
<1>1. CASE assignment[p] = None
  BY <1>1, PoliciesAssumption DEF Renewed, Assignment
<1>2. CASE assignment[p] # None
  BY <1>2, Typed, PoliciesAssumption DEF Renewed, Assignment, Assigned
<1> QED BY <1>1, <1>2

\* Whatever type-correct value is recorded, the assignments keep their type.
LEMMA RecordedType ==
  ASSUME TypeOK, NEW a, sending # None, sending.policy \in Assigned => a \in Assignment, Recorded(a)
  PROVE  assignment' \in [Policy -> Assignment \cup {None}]
BY Typed DEF TypeOK, Recorded, Assigned, Assignment, Sending

LEMMA TypeCoordinator ==
  ASSUME TypeOK, Suspend \/ Resume \/ Requeue \/
                 \E p \in Policy : UpdatePolicy(p) \/ Deactivate(p) \/ Assign(p) \/ Unassign(p)
  PROVE  TypeOK'
<1>1. CASE Suspend \/ Resume
  BY <1>1 DEF Suspend, Resume, TypeOK, siteVars
<1>2. CASE Requeue
  <2>1. assignment' \in [Policy -> Assignment \cup {None}]
    BY <1>2, RenewedType DEF Requeue, Assigned
  <2> QED BY <1>2, <2>1 DEF Requeue, TypeOK, siteVars, Assignment
<1>3. ASSUME NEW p \in Policy, UpdatePolicy(p) PROVE TypeOK'
  BY <1>3 DEF UpdatePolicy, TypeOK, siteVars
<1>4. ASSUME NEW p \in Policy, Deactivate(p) PROVE TypeOK'
  BY <1>4 DEF Deactivate, TypeOK, siteVars
<1>5. ASSUME NEW p \in Policy, Assign(p) PROVE TypeOK'
  <2>1. assignment' \in [Policy -> Assignment \cup {None}]
    BY <1>5, RenewedType DEF Assign, TypeOK, Assignment
  <2> QED BY <1>5, <2>1 DEF Assign, TypeOK, siteVars, Assignment
<1>6. ASSUME NEW p \in Policy, Unassign(p) PROVE TypeOK'
  BY <1>6 DEF Unassign, TypeOK, siteVars
<1> QED BY <1>1, <1>2, <1>3, <1>4, <1>5, <1>6

LEMMA TypePush ==
  ASSUME TypeOK, AttemptsLeft, PushEnds \/ \E p \in Policy : PushStart(p)
  PROVE  TypeOK'
<1>1. ASSUME NEW p \in Policy, PushStart(p) PROVE TypeOK'
  BY <1>1 DEF PushStart, TypeOK, coordVars, siteVars
<1>2. CASE PushOk
  <2>1. assignment' \in [Policy -> Assignment \cup {None}]
    BY <1>2, RecordedType, Typed DEF PushOk, PushedVersion, Assignment, Sending
  <2> QED BY <1>2, <2>1 DEF PushOk, TypeOK, siteVars, Assignment
<1>3. CASE PushFail
  <2>1. sending.policy \in Assigned =>
          /\ assignment[sending.policy] \in Assignment
          /\ assignment[sending.policy].attempts < MaxAttempts
    BY <1>3, Typed DEF PushFail, AttemptsLeft
  <2>2. assignment' \in [Policy -> Assignment \cup {None}]
    BY <1>3, <2>1, RecordedType, PoliciesAssumption DEF PushFail, Assignment
  <2> QED BY <1>3, <2>2 DEF PushFail, TypeOK, siteVars, Assignment
<1> QED BY <1>1, <1>2, <1>3 DEF PushEnds

LEMMA TypeSite ==
  ASSUME TypeOK, Applying, SiteReceive \/ ApplyEnds \/ \E p \in Policy : ApplyStart(p)
  PROVE  TypeOK'
<1>1. CASE SiteReceive
  <2>1. sending \in Sending
    BY <1>1, Typed DEF SiteReceive
  <2>2. sending' \in Sending
    BY <1>1, <2>1 DEF SiteReceive, Sending
  <2>3. inbox' \in [Policy -> InboxRow \cup {None}]
    <3>1. Fresh(sending.policy, sending.version) \in InboxRow
      BY <2>1 DEF Fresh, InboxRow, Sending
    <3>2. \/ inbox' = inbox
          \/ inbox' = [inbox EXCEPT ![sending.policy] = Fresh(sending.policy, sending.version)]
      BY <1>1 DEF SiteReceive
    <3> QED BY <3>1, <3>2 DEF TypeOK, InboxRow
  <2>4. before' \subseteq Policy \X Policy /\ overtaken' \subseteq Policy
    BY <1>1, <2>1 DEF SiteReceive, TypeOK, Sending, Received
  <2> QED BY <1>1, <2>2, <2>3, <2>4 DEF SiteReceive, TypeOK, coordVars, InboxRow, Sending
<1>2. ASSUME NEW p \in Policy, ApplyStart(p) PROVE TypeOK'
  <2>1. inbox[p] \in InboxRow
    BY <1>2, Typed DEF ApplyStart, Batch, Unapplied
  <2> QED BY <1>2, <2>1 DEF ApplyStart, TypeOK, coordVars, InboxRow, Made
<1>3. CASE ApplyOk
  <2>1. applying \in Made /\ applying.policy \in Received
    BY <1>3, Typed DEF ApplyOk, Applying
  <2>2. inbox[applying.policy] \in InboxRow
    BY <2>1, Typed
  <2>3. inbox' \in [Policy -> InboxRow \cup {None}]
    BY <1>3, <2>2 DEF ApplyOk, TypeOK, InboxRow
  <2> QED BY <1>3, <2>1, <2>3 DEF ApplyOk, TypeOK, coordVars, InboxRow
<1>4. CASE ApplyFail
  BY <1>4 DEF ApplyFail, TypeOK, coordVars
<1> QED BY <1>1, <1>2, <1>3, <1>4 DEF ApplyEnds
-----------------------------------------------------------------------------
(* The attempts.                                                           *)

LEMMA AttemptsInductive ==
  ASSUME TypeOK, AttemptsLeft, [Next]_vars
  PROVE  AttemptsLeft'
<1> USE DEF AttemptsLeft, Assigned
<1>1. CASE UNCHANGED <<assignment, sending>>
  BY <1>1
<1>2. CASE Requeue
  <2>1. \A p \in Assigned' : assignment'[p] = Renewed(assignment[p])
    BY <1>2 DEF Requeue
  <2>2. sending' = sending
    BY <1>2 DEF Requeue
  <2>3. \A p \in Assigned' : assignment'[p].status = "pending" /\ assignment'[p].attempts = 0
    BY <2>1, RenewedFields
  <2> QED BY <2>2, <2>3, PoliciesAssumption
<1>3. ASSUME NEW p \in Policy, Assign(p) PROVE AttemptsLeft'
  BY <1>3, PoliciesAssumption DEF Assign, Renewed, TypeOK
<1>4. ASSUME NEW p \in Policy, Unassign(p) PROVE AttemptsLeft'
  BY <1>4 DEF Unassign, TypeOK
<1>5. ASSUME NEW p \in Policy, PushStart(p) PROVE AttemptsLeft'
  BY <1>5 DEF PushStart, Pending, coordVars
<1>6. CASE PushOk
  <2>1. sending' = None
    BY <1>6 DEF PushOk
  <2>2. ASSUME NEW p \in Assigned', assignment'[p].status # "dead"
        PROVE  assignment'[p].attempts < MaxAttempts
    BY <1>6, <2>2, Typed DEF PushOk, Recorded, TypeOK, Sending
  <2> QED BY <2>1, <2>2
<1>7. CASE PushFail
  <2>1. sending' = None
    BY <1>7 DEF PushFail
  <2>2. ASSUME NEW p \in Assigned', assignment'[p].status # "dead"
        PROVE  assignment'[p].attempts < MaxAttempts
    BY <1>7, <2>2, Typed, PoliciesAssumption
       DEF PushFail, Recorded, DeadLettered, TypeOK, Sending, Assignment
  <2> QED BY <2>1, <2>2
<1>8. CASE SiteReceive
  BY <1>8, Typed DEF SiteReceive, coordVars, Sending
<1> QED
  BY <1>1, <1>2, <1>3, <1>4, <1>5, <1>6, <1>7, <1>8
  DEF Next, PushEnds, ApplyEnds, Suspend, Resume, UpdatePolicy, Deactivate, ApplyStart, ApplyOk,
      ApplyFail, coordVars, siteVars, vars

-----------------------------------------------------------------------------
(* What the coordinator counts as pushed has arrived.                      *)

\* No row leaves the inbox or goes back to an older version.
LEMMA InboxGrows ==
  ASSUME TypeOK, Applying, [Next]_vars
  PROVE  \A p \in Received : p \in Received' /\ inbox'[p].version >= inbox[p].version
<1> SUFFICES ASSUME NEW p \in Received
             PROVE  p \in Received' /\ inbox'[p].version >= inbox[p].version
  OBVIOUS
<1>0. inbox[p] \in InboxRow /\ p \in Policy
  BY Typed DEF Received
<1>1. CASE UNCHANGED inbox
  BY <1>0, <1>1 DEF Received, InboxRow
<1>2. CASE SiteReceive
  <2>1. sending \in Sending
    BY <1>2, Typed DEF SiteReceive
  <2>2. CASE Newer(sending.policy, sending.version) /\ sending.policy = p
    <3>1. inbox'[p] = Fresh(p, sending.version)
      BY <1>2, <2>2, <1>0 DEF SiteReceive, TypeOK
    <3>2. Fresh(p, sending.version) # None
      <4>1. Fresh(p, sending.version) \in InboxRow
        BY <2>1 DEF Fresh, InboxRow, Sending
      <4> QED BY <4>1, PoliciesAssumption DEF InboxRow
    <3> QED BY <1>0, <2>1, <2>2, <3>1, <3>2 DEF Newer, Fresh, Received, InboxRow, Sending
  <2>3. CASE ~ (Newer(sending.policy, sending.version) /\ sending.policy = p)
    BY <1>0, <1>2, <2>3 DEF SiteReceive, TypeOK, Received, InboxRow
  <2> QED BY <2>2, <2>3
<1>3. CASE ApplyOk
  <2>1. CASE applying.policy = p
    <3>1. inbox'[p] = [inbox[p] EXCEPT !.applied = TRUE]
      BY <1>3, <2>1, <1>0 DEF ApplyOk, TypeOK
    <3>2. inbox'[p] \in InboxRow /\ inbox'[p].version = inbox[p].version
      BY <3>1, <1>0 DEF InboxRow
    <3>3. inbox'[p] # None
      BY <3>2, PoliciesAssumption DEF InboxRow
    <3> QED BY <1>0, <3>2, <3>3 DEF Received, InboxRow
  <2>2. CASE applying.policy # p
    BY <1>0, <1>3, <2>2 DEF ApplyOk, TypeOK, Received, InboxRow
  <2> QED BY <2>1, <2>2
<1> QED
  BY <1>1, <1>2, <1>3
  DEF Next, PushEnds, ApplyEnds, Suspend, Resume, Requeue, UpdatePolicy, Deactivate, Assign,
      Unassign, PushStart, PushOk, PushFail, ApplyStart, ApplyFail, siteVars, vars

\* An answered push stays delivered, and what is counted as pushed was answered.
LEMMA DeliveredInductive ==
  ASSUME TypeOK, TypeOK', Applying, Delivered, [Next]_vars
  PROVE  Delivered'
<1>1. CASE UNCHANGED sending
  <2> SUFFICES ASSUME sending # None, sending.phase # "sent"
               PROVE  /\ sending.policy \in Received'
                      /\ inbox'[sending.policy].version >= sending.version
    BY <1>1 DEF Delivered
  <2>1. sending.policy \in Received /\ inbox[sending.policy].version >= sending.version
    BY DEF Delivered
  <2>2. /\ sending.policy \in Received'
        /\ inbox'[sending.policy].version >= inbox[sending.policy].version
    BY <2>1, InboxGrows
  <2>3. inbox[sending.policy].version \in Nat /\ sending.version \in Nat
    BY <2>1, Typed DEF InboxRow, Sending
  <2>4. inbox'[sending.policy].version \in Nat
    BY <2>2, TypedNext DEF InboxRow
  <2> QED BY <2>1, <2>2, <2>3, <2>4
<1>2. ASSUME NEW p \in Policy, PushStart(p) PROVE Delivered'
  BY <1>2 DEF PushStart, Delivered
<1>3. CASE PushEnds
  BY <1>3 DEF PushEnds, PushOk, PushFail, Delivered
<1>4. CASE SiteReceive
  <2>1. sending \in Sending
    BY <1>4, Typed DEF SiteReceive
  <2>2. sending'.policy = sending.policy /\ sending'.version = sending.version
    BY <1>4, <2>1 DEF SiteReceive, Sending
  <2>3. sending.policy \in Received' /\ inbox'[sending.policy].version >= sending.version
    <3>1. CASE Newer(sending.policy, sending.version)
      <4>1. Fresh(sending.policy, sending.version) \in InboxRow
        BY <2>1 DEF Fresh, InboxRow, Sending
      <4>2. inbox'[sending.policy] = Fresh(sending.policy, sending.version)
        BY <1>4, <2>1, <3>1 DEF SiteReceive, TypeOK, Sending
      <4>3. inbox'[sending.policy] # None
        BY <4>1, <4>2, PoliciesAssumption DEF InboxRow
      <4>4. inbox'[sending.policy].version = sending.version
        BY <4>2 DEF Fresh
      <4> QED BY <2>1, <4>3, <4>4 DEF Received, Sending
    <3>2. CASE ~ Newer(sending.policy, sending.version)
      <4>1. inbox[sending.policy] \in InboxRow
        BY <3>2, Typed DEF Newer
      <4> QED BY <1>4, <2>1, <3>2, <4>1 DEF SiteReceive, Newer, Received, InboxRow, Sending
    <3> QED BY <3>1, <3>2
  <2> QED BY <2>2, <2>3 DEF Delivered
<1> QED
  BY <1>1, <1>2, <1>3, <1>4
  DEF Next, ApplyEnds, Suspend, Resume, Requeue, UpdatePolicy, Deactivate, Assign, Unassign,
      ApplyStart, ApplyOk, ApplyFail, vars

\* A version that was received stays received, and no newer one is recorded than the
\* answer is about.
LEMMA PushedInductive ==
  ASSUME TypeOK, TypeOK', Applying, Delivered, PushedIsReceived, [Next]_vars
  PROVE  PushedIsReceived'
<1> SUFFICES ASSUME NEW p \in Assigned', assignment'[p].pushed > 0
             PROVE  p \in Received' /\ inbox'[p].version >= assignment'[p].pushed
  BY DEF PushedIsReceived
<1>0. p \in Policy /\ assignment'[p].pushed \in Nat
  BY TypedNext DEF Assigned, Assignment
<1>1. p \in Received /\ inbox[p].version >= assignment'[p].pushed
  <2>1. ASSUME p \in Assigned, assignment'[p].pushed = assignment[p].pushed
        PROVE  p \in Received /\ inbox[p].version >= assignment'[p].pushed
    BY <2>1 DEF PushedIsReceived
  <2>2. ASSUME assignment'[p] = Renewed(assignment[p])
        PROVE  p \in Assigned /\ assignment'[p].pushed = assignment[p].pushed
    BY <1>0, <2>2 DEF Renewed, Assigned
  <2>3. CASE UNCHANGED assignment
    BY <2>1, <2>3 DEF Assigned
  <2>4. CASE Requeue
    BY <1>0, <2>1, <2>2, <2>4 DEF Requeue, Assigned
  <2>5. ASSUME NEW q \in Policy, Assign(q) \/ Unassign(q)
        PROVE  p \in Received /\ inbox[p].version >= assignment'[p].pushed
    <3>1. CASE p = q
      BY <1>0, <2>1, <2>2, <2>5, <3>1 DEF Assign, Unassign, TypeOK, Assigned
    <3>2. CASE p # q
      BY <1>0, <2>1, <2>5, <3>2 DEF Assign, Unassign, TypeOK, Assigned
    <3> QED BY <3>1, <3>2
  <2>6. CASE PushOk
    <3>1. CASE p = sending.policy
      <4>1. assignment'[p].pushed = sending.version
        BY <1>0, <2>6, <3>1 DEF PushOk, Recorded, PushedVersion, TypeOK, Assigned
      <4> QED BY <2>6, <3>1, <4>1 DEF PushOk, Delivered
    <3>2. CASE p # sending.policy
      BY <1>0, <2>1, <2>6, <3>2 DEF PushOk, Recorded, TypeOK, Assigned
    <3> QED BY <3>1, <3>2
  <2>7. CASE PushFail
    <3>1. p \in Assigned /\ assignment'[p].pushed = assignment[p].pushed
      BY <1>0, <2>7 DEF PushFail, Recorded, TypeOK, Assigned
    <3> QED BY <2>1, <3>1
  <2> QED
    BY <2>3, <2>4, <2>5, <2>6, <2>7
    DEF Next, PushEnds, ApplyEnds, Suspend, Resume, UpdatePolicy, Deactivate, PushStart, SiteReceive,
        ApplyStart, ApplyOk, ApplyFail, coordVars, vars
<1>2. p \in Received' /\ inbox'[p].version >= inbox[p].version
  BY <1>1, InboxGrows
<1>3. inbox[p].version \in Nat /\ inbox'[p].version \in Nat
  BY <1>1, <1>2, Typed, TypedNext DEF InboxRow
<1> QED BY <1>0, <1>1, <1>2, <1>3
-----------------------------------------------------------------------------
(* What counts as applied is what the local object was made from.          *)

LEMMA ApplyingInductive ==
  ASSUME TypeOK, Applying, [Next]_vars
  PROVE  Applying'
<1>1. CASE UNCHANGED <<applying, inbox, overtaken>>
  BY <1>1 DEF Applying, Received
<1>2. CASE SiteReceive
  <2> SUFFICES ASSUME applying # None
               PROVE  /\ applying.policy \in Received'
                      /\ ~ inbox'[applying.policy].applied
                      /\ \/ inbox'[applying.policy].version = applying.version
                         \/ applying.policy \in overtaken'
    BY <1>2 DEF SiteReceive, Applying
  <2>1. sending \in Sending /\ applying \in Made
    BY <1>2, Typed DEF SiteReceive
  <2>2. CASE Newer(sending.policy, sending.version) /\ sending.policy = applying.policy
    <3>1. Fresh(sending.policy, sending.version) \in InboxRow
      BY <2>1 DEF Fresh, InboxRow, Sending
    <3>2. inbox'[applying.policy] = Fresh(sending.policy, sending.version)
      BY <1>2, <2>1, <2>2 DEF SiteReceive, TypeOK, Sending
    <3>3. inbox'[applying.policy] # None
      BY <3>1, <3>2, PoliciesAssumption DEF InboxRow
    <3>4. ~ inbox'[applying.policy].applied
      BY <3>2 DEF Fresh
    <3>5. applying.policy \in overtaken'
      BY <1>2, <2>1, <2>2 DEF SiteReceive, Sending
    <3> QED BY <2>1, <3>3, <3>4, <3>5 DEF Received, Made
  <2>3. CASE ~ (Newer(sending.policy, sending.version) /\ sending.policy = applying.policy)
    BY <1>2, <2>1, <2>3 DEF SiteReceive, TypeOK, Applying, Received, Sending, Made
  <2> QED BY <2>2, <2>3
<1>3. ASSUME NEW p \in Policy, ApplyStart(p) PROVE Applying'
  BY <1>3 DEF ApplyStart, Applying, Batch, Unapplied, Received
<1>4. CASE ApplyEnds
  BY <1>4 DEF ApplyEnds, ApplyOk, ApplyFail, Applying
<1> QED
  BY <1>1, <1>2, <1>3, <1>4
  DEF Next, PushEnds, Suspend, Resume, Requeue, UpdatePolicy, Deactivate, Assign, Unassign,
      PushStart, PushOk, PushFail, siteVars, vars

LEMMA MirrorInductive ==
  ASSUME TypeOK, Applying, AppliedIsMirror, [Next]_vars
  PROVE  AppliedIsMirror'
<1>1. CASE UNCHANGED <<inbox, local, overtaken>>
  BY <1>1 DEF AppliedIsMirror, Received, Sharing
<1> SUFFICES ASSUME NEW p \in Received', inbox'[p].applied,
                    SiteReceive \/ ApplyOk \/ ApplyFail
             PROVE  \/ local'[Names[p]] = [policy |-> p, version |-> inbox'[p].version]
                    \/ p \in overtaken'
                    \/ local'[Names[p]].policy \in Sharing(p)
  BY <1>1 DEF AppliedIsMirror, Next, PushEnds, ApplyEnds, Suspend, Resume, Requeue, UpdatePolicy,
     Deactivate, Assign, Unassign, PushStart, PushOk, PushFail, ApplyStart, siteVars, vars, Sharing
<1>0. p \in Policy /\ Names[p] \in Role
  BY PoliciesAssumption DEF Received
<1>2. CASE SiteReceive
  <2>1. sending \in Sending
    BY <1>2, Typed DEF SiteReceive
  <2>2. ~ (Newer(sending.policy, sending.version) /\ sending.policy = p)
    <3> SUFFICES ASSUME Newer(sending.policy, sending.version), sending.policy = p PROVE FALSE
      OBVIOUS
    <3>1. inbox'[p] = Fresh(p, sending.version)
      BY <1>0, <1>2 DEF SiteReceive, TypeOK
    <3> QED BY <3>1 DEF Fresh
  <2>3. inbox'[p] = inbox[p] /\ local' = local /\ (p \in overtaken => p \in overtaken')
    BY <1>0, <1>2, <2>1, <2>2 DEF SiteReceive, TypeOK
  <2> QED BY <1>0, <2>3 DEF AppliedIsMirror, Received
<1>3. CASE ApplyOk
  <2>1. applying \in Made /\ applying.policy \in Received
    BY <1>3, Typed DEF ApplyOk, Applying
  <2>2. inbox[applying.policy] \in InboxRow
    BY <2>1, Typed
  <2>3. overtaken' = overtaken
    BY <1>3 DEF ApplyOk
  <2>4. CASE p = applying.policy
    <3>1. inbox'[p] = [inbox[p] EXCEPT !.applied = TRUE]
      BY <1>0, <1>3, <2>4 DEF ApplyOk, TypeOK
    <3>2. inbox'[p].version = inbox[p].version
      BY <2>2, <2>4, <3>1 DEF InboxRow
    <3>3. local'[Names[p]] = applying
      BY <1>0, <1>3, <2>4 DEF ApplyOk, TypeOK
    <3>4. inbox[p].version = applying.version \/ p \in overtaken
      BY <1>3, <2>4 DEF ApplyOk, Applying
    <3>5. applying = [policy |-> p, version |-> applying.version]
      BY <2>1, <2>4 DEF Made
    <3> QED BY <2>3, <3>2, <3>3, <3>4, <3>5
  <2>5. CASE p # applying.policy
    <3>1. inbox'[p] = inbox[p]
      BY <1>0, <1>3, <2>5 DEF ApplyOk, TypeOK
    <3>2. CASE Names[p] = Names[applying.policy]
      <4>1. local'[Names[p]] = applying
        BY <1>0, <1>3, <3>2 DEF ApplyOk, TypeOK
      <4>2. applying.policy \in Sharing(p)
        BY <2>1, <2>5, <3>2 DEF Sharing, Made
      <4> QED BY <4>1, <4>2
    <3>3. CASE Names[p] # Names[applying.policy]
      <4>1. local'[Names[p]] = local[Names[p]]
        BY <1>0, <1>3, <3>3 DEF ApplyOk, TypeOK
      <4> QED BY <1>0, <2>3, <3>1, <4>1 DEF AppliedIsMirror, Received
    <3> QED BY <3>2, <3>3
  <2> QED BY <2>4, <2>5
<1>4. CASE ApplyFail
  <2>1. inbox' = inbox /\ local' = local
    BY <1>4 DEF ApplyFail
  <2>2. p # applying.policy
    BY <1>4, <2>1 DEF ApplyFail, Applying
  <2>3. p \in overtaken => p \in overtaken'
    BY <1>4, <2>2 DEF ApplyFail
  <2> QED BY <1>0, <2>1, <2>3 DEF AppliedIsMirror, Received
<1> QED BY <1>2, <1>3, <1>4

-----------------------------------------------------------------------------
(* The theorems.                                                           *)

\* IInv is inductive.
THEOREM Inductive == IInv /\ [Next]_vars => IInv'
<1> SUFFICES ASSUME IInv, [Next]_vars PROVE IInv'
  OBVIOUS
<1> USE DEF IInv
<1>1. TypeOK'
  <2>1. CASE UNCHANGED vars
    BY <2>1 DEF TypeOK, vars, coordVars, siteVars
  <2>2. CASE Next
    BY <2>2, TypeCoordinator, TypePush, TypeSite DEF Next
  <2> QED BY <2>1, <2>2
<1>2. AttemptsLeft'
  BY AttemptsInductive
<1>3. Delivered' /\ PushedIsReceived'
  BY <1>1, DeliveredInductive, PushedInductive
<1>4. Applying' /\ AppliedIsMirror'
  BY ApplyingInductive, MirrorInductive
<1> QED BY <1>1, <1>2, <1>3, <1>4

\* IInv holds in every reachable state.
THEOREM Invariant == Spec => []IInv
<1>1. Init => IInv
  BY TypeInit DEF Init, IInv, AttemptsLeft, PushedIsReceived, Delivered, Applying, AppliedIsMirror,
     Assigned, Received
<1> QED BY <1>1, Inductive, PTL DEF Spec

\* Every reachable state is well typed: no assignment has more attempts than are
\* allowed.
THEOREM TypeCorrect == Spec => []TypeOK
<1>1. IInv => TypeOK
  BY DEF IInv
<1> QED BY <1>1, Invariant, PTL

\* Whatever is edited, reassigned, requeued or lost while a push is under way, a
\* version that counts as pushed is at the site.
THEOREM PushedHasArrived == Spec => []PushedIsReceived
<1>1. IInv => PushedIsReceived
  BY DEF IInv
<1> QED BY <1>1, Invariant, PTL

\* A row that counts as applied is mirrored by the local object, for any number of
\* policies that share objects, with the two exceptions AppliedIsMirror names.
THEOREM AppliedIsMirrored == Spec => []AppliedIsMirror
<1>1. IInv => AppliedIsMirror
  BY DEF IInv
<1> QED BY <1>1, Invariant, PTL

-----------------------------------------------------------------------------
(* The versions.  They only grow at the coordinator, and what is sent, held *)
(* and made at the site follows them in order.                             *)

SentIsKnown ==
  /\ \A p \in Policy : version[p] >= 1
  /\ sending # None => sending.version \in 1..version[sending.policy]

PushedIsKnown == \A p \in Assigned : assignment[p].pushed <= version[p]

HeldIsKnown == \A p \in Received : inbox[p].version \in 1..version[p]

\* The local object n was made from a version of a policy for it that could be applied,
\* not newer than the site's row or than what is being applied.
MadeOf(n) ==
  local[n] # None
    => LET p == local[n].policy
           v == local[n].version
       IN  /\ Names[p] = n
           /\ ~ Unappliable(p, v)
           /\ p \in Received
           /\ v <= inbox[p].version
           /\ applying # None /\ applying.policy = p => v <= applying.version

ReadIsHeld == applying # None => applying.version <= inbox[applying.policy].version

VersionsFollow ==
  /\ SentIsKnown
  /\ PushedIsKnown
  /\ HeldIsKnown
  /\ ReadIsHeld
  /\ \A n \in Role : MadeOf(n)

\* No version is taken back.
LEMMA VersionGrows ==
  ASSUME TypeOK, [Next]_vars
  PROVE  \A p \in Policy : version[p] \in Nat /\ version'[p] \in Nat /\ version'[p] >= version[p]
<1>0. \A p \in Policy : version[p] \in Nat
  BY DEF TypeOK
<1>1. CASE UNCHANGED version
  BY <1>0, <1>1
<1>2. ASSUME NEW q \in Policy, UpdatePolicy(q)
      PROVE  \A p \in Policy : version'[p] \in Nat /\ version'[p] >= version[p]
  <2>1. version' = [version EXCEPT ![q] = @ + 1]
    BY <1>2 DEF UpdatePolicy
  <2> QED BY <1>0, <2>1 DEF TypeOK
<1> QED
  BY <1>0, <1>1, <1>2
  DEF Next, PushEnds, ApplyEnds, Suspend, Resume, Requeue, Deactivate, Assign, Unassign, PushStart,
      PushOk, PushFail, SiteReceive, ApplyStart, ApplyOk, ApplyFail, coordVars, vars

LEMMA SentInductive ==
  ASSUME TypeOK, TypeOK', SentIsKnown, [Next]_vars
  PROVE  SentIsKnown'
<1>1. \A p \in Policy : version'[p] >= 1
  BY VersionGrows DEF SentIsKnown
<1> SUFFICES ASSUME sending' # None PROVE sending'.version \in 1..version'[sending'.policy]
  BY <1>1 DEF SentIsKnown
<1>2. CASE \E p \in Policy : PushStart(p)
  <2>1. PICK p \in Policy : PushStart(p)
    BY <1>2
  <2>2. sending'.policy = p /\ sending'.version = version[p] /\ version' = version
    BY <2>1 DEF PushStart, coordVars
  <2> QED BY <2>2, VersionGrows DEF SentIsKnown
<1>3. CASE sending # None /\ sending'.policy = sending.policy /\ sending'.version = sending.version
  <2>1. sending \in Sending
    BY <1>3, Typed
  <2> QED BY <1>3, <2>1, VersionGrows DEF SentIsKnown, Sending
<1>4. CASE SiteReceive
  <2>1. sending \in Sending
    BY <1>4, Typed DEF SiteReceive
  <2> QED BY <1>3, <1>4, <2>1 DEF SiteReceive, Sending
<1>5. CASE UNCHANGED sending
  BY <1>3, <1>5
<1> QED
  BY <1>2, <1>4, <1>5
  DEF Next, PushEnds, ApplyEnds, Suspend, Resume, Requeue, UpdatePolicy, Deactivate, Assign, Unassign,
      PushOk, PushFail, ApplyStart, ApplyOk, ApplyFail, vars

LEMMA PushedKnownInductive ==
  ASSUME TypeOK, TypeOK', SentIsKnown, PushedIsKnown, [Next]_vars
  PROVE  PushedIsKnown'
<1> SUFFICES ASSUME NEW p \in Assigned' PROVE assignment'[p].pushed <= version'[p]
  BY DEF PushedIsKnown
<1>0. p \in Policy /\ assignment'[p].pushed \in Nat
  BY TypedNext DEF Assignment
<1>1. assignment'[p].pushed <= version[p]
  <2>1. ASSUME p \in Assigned, assignment'[p].pushed = assignment[p].pushed
        PROVE  assignment'[p].pushed <= version[p]
    BY <2>1 DEF PushedIsKnown
  <2>2. ASSUME assignment'[p] = Renewed(assignment[p])
        PROVE  assignment'[p].pushed <= version[p]
    <3>1. CASE p \in Assigned
      BY <2>1, <2>2, <3>1 DEF Renewed, Assigned
    <3>2. CASE p \notin Assigned
      BY <1>0, <2>2, <3>2, VersionGrows DEF Renewed, Assigned
    <3> QED BY <3>1, <3>2
  <2>3. CASE UNCHANGED assignment
    BY <2>1, <2>3 DEF Assigned
  <2>4. CASE Requeue
    BY <1>0, <2>2, <2>4 DEF Requeue, Assigned
  <2>5. ASSUME NEW q \in Policy, Assign(q) \/ Unassign(q)
        PROVE  assignment'[p].pushed <= version[p]
    <3>1. CASE p = q
      BY <1>0, <2>2, <2>5, <3>1 DEF Assign, Unassign, TypeOK, Assigned
    <3>2. CASE p # q
      BY <1>0, <2>1, <2>5, <3>2 DEF Assign, Unassign, TypeOK, Assigned
    <3> QED BY <3>1, <3>2
  <2>6. CASE PushOk
    <3>1. CASE p = sending.policy
      <4>1. assignment'[p].pushed = sending.version
        BY <1>0, <2>6, <3>1 DEF PushOk, Recorded, PushedVersion, TypeOK, Assigned
      <4> QED BY <1>0, <2>6, <3>1, <4>1, VersionGrows DEF PushOk, SentIsKnown
    <3>2. CASE p # sending.policy
      BY <1>0, <2>1, <2>6, <3>2 DEF PushOk, Recorded, TypeOK, Assigned
    <3> QED BY <3>1, <3>2
  <2>7. CASE PushFail
    BY <1>0, <2>1, <2>7 DEF PushFail, Recorded, TypeOK, Assigned
  <2> QED
    BY <2>3, <2>4, <2>5, <2>6, <2>7
    DEF Next, PushEnds, ApplyEnds, Suspend, Resume, UpdatePolicy, Deactivate, PushStart, SiteReceive,
        ApplyStart, ApplyOk, ApplyFail, coordVars, vars
<1> QED BY <1>0, <1>1, VersionGrows

\* A row of the inbox is kept as it is, marked as applied, or replaced by the version
\* that was sent.
LEMMA RowSteps ==
  ASSUME TypeOK, TypeOK', Applying, [Next]_vars, NEW p \in Received'
  PROVE  \/ p \in Received /\ inbox'[p].version = inbox[p].version
         \/ /\ SiteReceive /\ sending.policy = p
            /\ inbox'[p].version = sending.version
<1>0. p \in Policy
  BY DEF Received
<1>1. CASE UNCHANGED inbox
  BY <1>1 DEF Received
<1>2. CASE SiteReceive
  <2>1. sending \in Sending
    BY <1>2, Typed DEF SiteReceive
  <2>2. CASE Newer(sending.policy, sending.version) /\ sending.policy = p
    <3>1. inbox'[p] = Fresh(p, sending.version)
      BY <1>0, <1>2, <2>2 DEF SiteReceive, TypeOK
    <3> QED BY <1>2, <2>2, <3>1 DEF Fresh
  <2>3. CASE ~ (Newer(sending.policy, sending.version) /\ sending.policy = p)
    <3>1. inbox'[p] = inbox[p]
      BY <1>0, <1>2, <2>3 DEF SiteReceive, TypeOK
    <3> QED BY <3>1 DEF Received
  <2> QED BY <2>2, <2>3
<1>3. CASE ApplyOk
  <2>1. CASE applying.policy = p
    <3>1. p \in Received /\ inbox[p] \in InboxRow
      BY <1>3, <2>1, Typed DEF ApplyOk, Applying
    <3>2. inbox'[p] = [inbox[p] EXCEPT !.applied = TRUE]
      BY <1>0, <1>3, <2>1 DEF ApplyOk, TypeOK
    <3> QED BY <3>1, <3>2 DEF InboxRow
  <2>2. CASE applying.policy # p
    <3>1. inbox'[p] = inbox[p]
      BY <1>0, <1>3, <2>2 DEF ApplyOk, TypeOK
    <3> QED BY <3>1 DEF Received
  <2> QED BY <2>1, <2>2
<1> QED
  BY <1>1, <1>2, <1>3
  DEF Next, PushEnds, ApplyEnds, Suspend, Resume, Requeue, UpdatePolicy, Deactivate, Assign,
      Unassign, PushStart, PushOk, PushFail, ApplyStart, ApplyFail, siteVars, vars

LEMMA HeldInductive ==
  ASSUME TypeOK, TypeOK', Applying, SentIsKnown, HeldIsKnown, [Next]_vars
  PROVE  HeldIsKnown'
<1> SUFFICES ASSUME NEW p \in Received' PROVE inbox'[p].version \in 1..version'[p]
  BY DEF HeldIsKnown
<1>0. p \in Policy
  BY DEF Received
<1>1. inbox'[p].version \in 1..version[p]
  BY RowSteps DEF SiteReceive, SentIsKnown, HeldIsKnown
<1> QED BY <1>0, <1>1, VersionGrows

\* What the apply worker has read and what the local objects were made from stays behind
\* the rows, for these only grow.
LEMMA MadeInductive ==
  ASSUME TypeOK, TypeOK', Applying, ReadIsHeld, \A n \in Role : MadeOf(n), [Next]_vars
  PROVE  ReadIsHeld' /\ \A n \in Role : MadeOf(n)'
<1>0. \A p \in Received : p \in Policy /\ inbox[p].version \in Nat
  BY Typed DEF Received, InboxRow
<1>1. \A p \in Received :
        /\ p \in Received'
        /\ inbox'[p].version \in Nat
        /\ inbox'[p].version >= inbox[p].version
  <2>1. \A p \in Received : p \in Received' /\ inbox'[p].version >= inbox[p].version
    BY InboxGrows
  <2>2. \A p \in Received' : inbox'[p].version \in Nat
    BY TypedNext DEF InboxRow
  <2> QED BY <2>1, <2>2
<1>2. /\ applying # None => applying \in Made
      /\ \A n \in Role : local[n] # None => local[n] \in Made
  BY Typed DEF TypeOK
<1>3. CASE UNCHANGED <<flawed, applying, local>>
  <2>1. ReadIsHeld'
    BY <1>0, <1>1, <1>2, <1>3 DEF ReadIsHeld, Applying, Made
  <2>2. ASSUME NEW n \in Role, local[n] # None PROVE MadeOf(n)'
    <3>1. /\ local[n].policy \in Received
          /\ local[n].version <= inbox[local[n].policy].version
          /\ local[n] \in Made
      BY <1>2, <2>2 DEF MadeOf
    <3>2. local[n].version <= inbox'[local[n].policy].version
      BY <1>0, <1>1, <3>1 DEF Made
    <3> QED BY <1>1, <1>3, <2>2, <3>1, <3>2 DEF MadeOf, Unappliable
  <2> QED BY <1>3, <2>1, <2>2 DEF MadeOf
<1>4. ASSUME NEW p \in Policy, ApplyStart(p) PROVE ReadIsHeld' /\ \A n \in Role : MadeOf(n)'
  <2>1. /\ applying' = [policy |-> p, version |-> inbox[p].version]
        /\ inbox' = inbox /\ local' = local /\ flawed' = flawed /\ p \in Received
    BY <1>4 DEF ApplyStart, Batch, Unapplied
  <2>2. ReadIsHeld'
    BY <1>0, <2>1 DEF ReadIsHeld
  <2> QED BY <2>1, <2>2 DEF MadeOf, Unappliable, Received
<1>5. CASE ApplyOk
  <2>1. /\ applying # None /\ applying' = None /\ flawed' = flawed
        /\ ~ Unappliable(applying.policy, applying.version)
        /\ local' = [local EXCEPT ![Names[applying.policy]] = applying]
    BY <1>5 DEF ApplyOk
  <2>2. /\ applying \in Made /\ applying.policy \in Received
        /\ applying.version <= inbox[applying.policy].version
    BY <1>2, <2>1 DEF Applying, ReadIsHeld
  <2>3. ReadIsHeld'
    BY <2>1 DEF ReadIsHeld
  <2>4. ASSUME NEW n \in Role, local'[n] # None PROVE MadeOf(n)'
    <3>1. CASE n = Names[applying.policy]
      <4>1. local'[n] = applying
        BY <2>1, <3>1 DEF TypeOK
      <4>2. applying.version <= inbox'[applying.policy].version
        BY <1>0, <1>1, <2>2 DEF Made
      <4> QED BY <1>1, <2>1, <2>2, <3>1, <4>1, <4>2 DEF MadeOf, Unappliable
    <3>2. CASE n # Names[applying.policy]
      <4>1. local'[n] = local[n]
        BY <2>1, <3>2 DEF TypeOK
      <4>2. /\ local[n].policy \in Received
            /\ local[n].version <= inbox[local[n].policy].version
            /\ local[n] \in Made
            /\ Names[local[n].policy] = n
            /\ ~ Unappliable(local[n].policy, local[n].version)
        BY <1>2, <2>4, <4>1 DEF MadeOf
      <4>3. local[n].version <= inbox'[local[n].policy].version
        BY <1>0, <1>1, <4>2 DEF Made
      <4> QED BY <1>1, <2>1, <4>1, <4>2, <4>3 DEF MadeOf, Unappliable
    <3> QED BY <3>1, <3>2
  <2> QED BY <2>3, <2>4 DEF MadeOf
<1>6. CASE ApplyFail
  <2>1. applying' = None /\ inbox' = inbox /\ local' = local /\ flawed' = flawed
    BY <1>6 DEF ApplyFail
  <2> QED BY <2>1 DEF ReadIsHeld, MadeOf, Unappliable, Received
<1> QED
  BY <1>3, <1>4, <1>5, <1>6
  DEF Next, PushEnds, ApplyEnds, Suspend, Resume, Requeue, UpdatePolicy, Deactivate, Assign,
      Unassign, PushStart, PushOk, PushFail, SiteReceive, siteVars, vars

-----------------------------------------------------------------------------
(* The order of the rows.                                                  *)

\* Every set of numbers that is not empty has a least element.
LEMMA Least ==
  ASSUME NEW S \in SUBSET Nat, S # {} PROVE \E x \in S : \A y \in S : x <= y
<1>1. PICK x \in S : \A y \in S : ~ (<<y, x>> \in OpToRel(<, Nat))
  BY NatLessThanWellFounded, WFMin
<1>2. \A y \in S : ~ (y < x)
  BY <1>1 DEF OpToRel
<1> QED BY <1>2

\* received_at orders the rows, one after the other.
ReceiptOrder ==
  /\ IsFiniteSet(Received)
  /\ before \subseteq Received \X Received
  /\ \A p \in Received : <<p, p>> \notin before
  /\ \A p, q \in Received : p # q => <<p, q>> \in before \/ <<q, p>> \in before
  /\ \A p, q, r \in Received : <<p, q>> \in before /\ <<q, r>> \in before => <<p, r>> \in before

\* The rows that are to be applied before that of p.
Ahead(p) == {q \in Unapplied : <<q, p>> \in before}

\* A row that is renewed goes to the end.
LEMMA OrderInductive ==
  ASSUME TypeOK, TypeOK', Applying, ReceiptOrder, [Next]_vars
  PROVE  ReceiptOrder'
<1>1. \A p \in Received : p \in Received'
  BY InboxGrows
<1>2. CASE SiteReceive /\ Newer(sending.policy, sending.version)
  <2> DEFINE p == sending.policy
  <2>1. p \in Policy
    BY <1>2, Typed DEF SiteReceive, Sending
  <2>2. p \in Received'
    <3>1. Fresh(p, sending.version) \in InboxRow
      BY <1>2, Typed DEF SiteReceive, Fresh, Sending, InboxRow
    <3>2. inbox'[p] = Fresh(p, sending.version)
      BY <1>2, <2>1 DEF SiteReceive, TypeOK
    <3>3. None \notin InboxRow
      BY PoliciesAssumption DEF InboxRow
    <3> QED BY <2>1, <3>1, <3>2, <3>3 DEF Received
  <2>3. Received' = Received \cup {p}
    BY <1>1, <2>2, RowSteps DEF Received
  <2>4. before' = {t \in before : t[1] # p /\ t[2] # p} \cup ((Received \ {p}) \X {p})
    BY <1>2 DEF SiteReceive
  <2>5. \A q, r \in Policy :
          <<q, r>> \in before'
            <=> (<<q, r>> \in before /\ q # p /\ r # p) \/ (q \in Received \ {p} /\ r = p)
    <3> SUFFICES ASSUME NEW q \in Policy, NEW r \in Policy
                 PROVE  <<q, r>> \in before'
                          <=> \/ <<q, r>> \in before /\ q # p /\ r # p
                              \/ q \in Received \ {p} /\ r = p
      OBVIOUS
    <3> DEFINE t == <<q, r>>
    <3>1. t[1] = q /\ t[2] = r
      OBVIOUS
    <3>2. t \in (Received \ {p}) \X {p} <=> q \in Received \ {p} /\ r = p
      OBVIOUS
    <3> HIDE DEF t
    <3>3. t \in before' <=> (t \in before /\ t[1] # p /\ t[2] # p) \/ t \in (Received \ {p}) \X {p}
      BY <2>4
    <3>4. t \in before' <=> (t \in before /\ q # p /\ r # p) \/ (q \in Received \ {p} /\ r = p)
      BY <3>1, <3>2, <3>3
    <3> QED BY <3>4 DEF t
  <2>6. IsFiniteSet(Received')
    BY <2>3, FS_AddElement DEF ReceiptOrder
  <2>7. before' \subseteq Received' \X Received'
    BY <2>3, <2>4 DEF ReceiptOrder
  <2> HIDE DEF p
  <2>8. \A q \in Received' : q \in Policy /\ (q # p => q \in Received)
    BY <2>3 DEF Received
  <2>9. \A q \in Received' : <<q, q>> \notin before'
    <3> SUFFICES ASSUME NEW q \in Received' PROVE <<q, q>> \notin before'
      OBVIOUS
    <3>1. q \in Policy /\ (q # p => q \in Received)
      BY <2>8
    <3> QED BY <2>5, <3>1 DEF ReceiptOrder
  <2>10. \A q, r \in Received' : q # r => <<q, r>> \in before' \/ <<r, q>> \in before'
    <3> SUFFICES ASSUME NEW q \in Received', NEW r \in Received', q # r
                 PROVE  <<q, r>> \in before' \/ <<r, q>> \in before'
      OBVIOUS
    <3>1. /\ q \in Policy /\ (q # p => q \in Received)
          /\ r \in Policy /\ (r # p => r \in Received)
      BY <2>8
    <3>2. CASE r = p
      BY <2>5, <3>1, <3>2
    <3>3. CASE q = p
      BY <2>5, <3>1, <3>3
    <3>4. CASE q # p /\ r # p
      <4>1. <<q, r>> \in before \/ <<r, q>> \in before
        BY <3>1, <3>4 DEF ReceiptOrder
      <4> QED BY <2>5, <3>1, <3>4, <4>1
    <3> QED BY <3>2, <3>3, <3>4
  <2>11. \A q, r, s \in Received' :
           <<q, r>> \in before' /\ <<r, s>> \in before' => <<q, s>> \in before'
    <3> SUFFICES ASSUME NEW q \in Received', NEW r \in Received', NEW s \in Received',
                        <<q, r>> \in before', <<r, s>> \in before'
                 PROVE  <<q, s>> \in before'
      OBVIOUS
    <3>1. /\ q \in Policy /\ (q # p => q \in Received)
          /\ r \in Policy /\ (r # p => r \in Received)
          /\ s \in Policy /\ (s # p => s \in Received)
      BY <2>8
    <3>2. <<q, r>> \in before /\ q # p /\ r # p
      <4>1. r # p
        BY <2>5, <3>1
      <4> QED BY <2>5, <3>1, <4>1
    <3>3. CASE s = p
      BY <2>5, <3>1, <3>2, <3>3
    <3>4. CASE s # p
      <4>1. <<r, s>> \in before
        BY <2>5, <3>1, <3>4
      <4>2. <<q, s>> \in before
        BY <3>1, <3>2, <3>4, <4>1 DEF ReceiptOrder
      <4> QED BY <2>5, <3>1, <3>2, <3>4, <4>2
    <3> QED BY <3>3, <3>4
  <2> QED BY <2>6, <2>7, <2>9, <2>10, <2>11 DEF ReceiptOrder
<1>3. CASE UNCHANGED before /\ Received' = Received
  BY <1>3 DEF ReceiptOrder
<1>4. CASE ~ (SiteReceive /\ Newer(sending.policy, sending.version))
  <2>1. UNCHANGED before
    BY <1>4
    DEF Next, PushEnds, ApplyEnds, Suspend, Resume, Requeue, UpdatePolicy, Deactivate, Assign, Unassign,
        PushStart, PushOk, PushFail, SiteReceive, ApplyStart, ApplyOk, ApplyFail, siteVars, vars
  <2>2. Received' \subseteq Received
    BY <1>4, RowSteps DEF Newer, SiteReceive
  <2> QED BY <1>1, <1>3, <2>1, <2>2
<1> QED BY <1>2, <1>4

\* A row has fewer rows ahead than one it comes before.
LEMMA AheadGrows ==
  ASSUME ReceiptOrder
  PROVE  /\ \A p \in Unapplied : IsFiniteSet(Ahead(p)) /\ Cardinality(Ahead(p)) \in Nat
         /\ \A p, q \in Unapplied :
              <<p, q>> \in before => Cardinality(Ahead(p)) < Cardinality(Ahead(q))
<1>1. IsFiniteSet(Unapplied)
  BY FS_Subset DEF ReceiptOrder, Unapplied
<1>2. ASSUME NEW p \in Unapplied PROVE IsFiniteSet(Ahead(p)) /\ Cardinality(Ahead(p)) \in Nat
  BY <1>1, FS_Subset, FS_CardinalityType DEF Ahead
<1>3. ASSUME NEW p \in Unapplied, NEW q \in Unapplied, <<p, q>> \in before
      PROVE  Cardinality(Ahead(p)) < Cardinality(Ahead(q))
  <2>1. Ahead(p) \subseteq Ahead(q)
    BY <1>3 DEF Ahead, ReceiptOrder, Unapplied
  <2>2. p \in Ahead(q) /\ p \notin Ahead(p)
    BY <1>3 DEF Ahead, ReceiptOrder, Unapplied
  <2>3. Cardinality(Ahead(p)) <= Cardinality(Ahead(q)) /\ Cardinality(Ahead(p)) # Cardinality(Ahead(q))
    BY <1>2, <2>1, <2>2, FS_Subset
  <2> QED BY <1>2, <2>3
<1> QED BY <1>2, <1>3

\* The batch is the first rows, and as many as it may be.
BatchInTurn ==
  /\ Cardinality(Batch) <= Limit
  /\ Batch # Unapplied => Cardinality(Batch) = Limit
  /\ \A p \in Batch, q \in Unapplied \ Batch : <<p, q>> \in before

LEMMA BatchIsInTurn == ASSUME ReceiptOrder PROVE BatchInTurn
<1>0. Limit \in Nat \ {0}
  BY PoliciesAssumption
<1>1. Batch = {p \in Unapplied : Cardinality(Ahead(p)) < Limit}
  BY DEF Batch, Ahead
<1>2. \A p \in Unapplied : IsFiniteSet(Ahead(p)) /\ Cardinality(Ahead(p)) \in Nat
  BY AheadGrows
<1>3. IsFiniteSet(Batch) /\ Cardinality(Batch) \in Nat
  BY <1>1, FS_Subset, FS_CardinalityType DEF ReceiptOrder, Unapplied
<1>4. \A p \in Batch, q \in Unapplied \ Batch : <<p, q>> \in before
  <2> SUFFICES ASSUME NEW p \in Batch, NEW q \in Unapplied \ Batch PROVE <<p, q>> \in before
    OBVIOUS
  <2>1. p \in Unapplied /\ Cardinality(Ahead(p)) < Limit /\ ~ (Cardinality(Ahead(q)) < Limit)
    BY <1>1
  <2>2. ~ (<<q, p>> \in before)
    BY <1>0, <1>2, <2>1, AheadGrows
  <2> QED BY <2>1, <2>2 DEF ReceiptOrder, Unapplied
<1>5. Cardinality(Batch) <= Limit
  <2>1. CASE Batch = {}
    BY <1>0, <2>1, FS_EmptySet
  <2>2. CASE Batch # {}
    <3> DEFINE Behind == {Limit - Cardinality(Ahead(p)) : p \in Batch}
    <3>1. Behind \in SUBSET Nat /\ Behind # {}
      BY <1>0, <1>1, <1>2, <2>2
    <3> HIDE DEF Behind
    <3>2. PICK x \in Behind : \A y \in Behind : x <= y
      BY <3>1, Least
    <3>3. PICK p \in Batch : x = Limit - Cardinality(Ahead(p))
      BY DEF Behind
    <3>4. \A q \in Batch : Limit - Cardinality(Ahead(p)) <= Limit - Cardinality(Ahead(q))
      BY <3>2, <3>3 DEF Behind
    <3>5. p \in Unapplied /\ Cardinality(Ahead(p)) < Limit
      BY <1>1
    <3>6. Batch \subseteq Ahead(p) \cup {p}
      <4> SUFFICES ASSUME NEW q \in Batch, q # p PROVE q \in Ahead(p)
        OBVIOUS
      <4>1. q \in Unapplied
        BY <1>1
      <4>2. Cardinality(Ahead(q)) <= Cardinality(Ahead(p))
        BY <1>0, <1>2, <3>4, <3>5, <4>1
      <4>3. ~ (<<p, q>> \in before)
        BY <1>2, <3>5, <4>1, <4>2, AheadGrows
      <4> QED BY <3>5, <4>1, <4>3 DEF ReceiptOrder, Ahead, Unapplied
    <3>7. /\ IsFiniteSet(Ahead(p) \cup {p})
          /\ Cardinality(Ahead(p) \cup {p}) <= Cardinality(Ahead(p)) + 1
      <4>1. IsFiniteSet(Ahead(p)) /\ Cardinality(Ahead(p)) \in Nat
        BY <1>2, <3>5
      <4>2. /\ IsFiniteSet(Ahead(p) \cup {p})
            /\ \/ Cardinality(Ahead(p) \cup {p}) = Cardinality(Ahead(p))
               \/ Cardinality(Ahead(p) \cup {p}) = Cardinality(Ahead(p)) + 1
        BY <4>1, FS_AddElement
      <4> QED BY <4>1, <4>2
    <3>8. /\ Cardinality(Batch) <= Cardinality(Ahead(p) \cup {p})
          /\ Cardinality(Ahead(p) \cup {p}) \in Nat
      BY <3>6, <3>7, FS_Subset, FS_CardinalityType
    <3> QED BY <1>0, <1>2, <1>3, <3>5, <3>7, <3>8
  <2> QED BY <2>1, <2>2
<1>6. ASSUME Batch # Unapplied PROVE Cardinality(Batch) = Limit
  <2> DEFINE Late == {Cardinality(Ahead(p)) : p \in Unapplied \ Batch}
  <2>1. Late \in SUBSET Nat /\ Late # {}
    BY <1>1, <1>2, <1>6
  <2> HIDE DEF Late
  <2>2. PICK x \in Late : \A y \in Late : x <= y
    BY <2>1, Least
  <2>3. PICK p \in Unapplied \ Batch : x = Cardinality(Ahead(p))
    BY DEF Late
  <2>4. \A q \in Unapplied \ Batch : Cardinality(Ahead(p)) <= Cardinality(Ahead(q))
    BY <2>2, <2>3 DEF Late
  <2>5. Ahead(p) \subseteq Batch
    <3> SUFFICES ASSUME NEW q \in Ahead(p), q \notin Batch PROVE FALSE
      OBVIOUS
    <3>1. q \in Unapplied /\ Cardinality(Ahead(q)) < Cardinality(Ahead(p))
      BY AheadGrows DEF Ahead
    <3> QED BY <1>2, <2>4, <3>1
  <2>6. ~ (Cardinality(Ahead(p)) < Limit) /\ Cardinality(Ahead(p)) <= Cardinality(Batch)
    BY <1>1, <1>3, <2>5, FS_Subset
  <2> QED BY <1>0, <1>2, <1>3, <1>5, <2>6
<1> QED BY <1>4, <1>5, <1>6 DEF BatchInTurn

-----------------------------------------------------------------------------
(* What follows.                                                           *)

\* What is on the way is not older than what the coordinator counts as pushed.
SentIsNewest ==
  sending # None /\ sending.policy \in Assigned
    => assignment[sending.policy].pushed <= sending.version

LEMMA NewestInductive ==
  ASSUME TypeOK, TypeOK', SentIsKnown, PushedIsKnown, SentIsNewest, [Next]_vars
  PROVE  SentIsNewest'
<1> SUFFICES ASSUME sending' # None, sending'.policy \in Assigned'
             PROVE  assignment'[sending'.policy].pushed <= sending'.version
  BY DEF SentIsNewest
<1>1. CASE \E p \in Policy : PushStart(p)
  <2>1. PICK p \in Policy : PushStart(p)
    BY <1>1
  <2>2. /\ sending'.policy = p /\ sending'.version = version[p]
        /\ assignment' = assignment /\ p \in Assigned
    BY <2>1 DEF PushStart, Pending, coordVars
  <2> QED BY <2>2 DEF PushedIsKnown
<1>2. CASE SiteReceive
  <2>1. sending \in Sending /\ assignment' = assignment
    BY <1>2, Typed DEF SiteReceive, coordVars
  <2>2. sending'.policy = sending.policy /\ sending'.version = sending.version /\ sending # None
    BY <1>2, <2>1 DEF SiteReceive, Sending
  <2> QED BY <2>1, <2>2 DEF SentIsNewest, Assigned
<1>3. CASE UNCHANGED sending
  <2> DEFINE p == sending.policy
  <2>1. sending # None /\ p \in Policy /\ p \in Assigned'
    BY <1>3, Typed DEF Assigned
  <2>2. sending.version \in 1..version[p] /\ version[p] \in Nat
    BY <2>1, VersionGrows DEF SentIsKnown
  <2>3. p \in Assigned => assignment[p].pushed <= sending.version
    BY <2>1 DEF SentIsNewest
  <2>4. \/ p \in Assigned /\ assignment'[p] = assignment[p]
        \/ assignment'[p] = Renewed(assignment[p])
    <3>1. CASE UNCHANGED assignment
      BY <2>1, <3>1 DEF Assigned
    <3>2. CASE Requeue
      BY <2>1, <3>2 DEF Requeue, Assigned
    <3>3. ASSUME NEW q \in Policy, Assign(q)
          PROVE  \/ p \in Assigned /\ assignment'[p] = assignment[p]
                 \/ assignment'[p] = Renewed(assignment[p])
      BY <2>1, <3>3 DEF Assign, TypeOK, Assigned
    <3>4. ASSUME NEW q \in Policy, Unassign(q) PROVE p \in Assigned /\ assignment'[p] = assignment[p]
      BY <2>1, <3>4 DEF Unassign, TypeOK, Assigned
    <3>5. ~ PushEnds
      BY <1>3, <2>1 DEF PushEnds, PushOk, PushFail
    <3> QED
      BY <1>1, <1>2, <3>1, <3>2, <3>3, <3>4, <3>5
      DEF Next, ApplyEnds, Suspend, Resume, UpdatePolicy, Deactivate, PushStart, SiteReceive,
          ApplyStart, ApplyOk, ApplyFail, coordVars, vars
  <2>5. assignment'[p].pushed <= sending.version
    BY <2>1, <2>2, <2>3, <2>4 DEF Renewed, Assigned
  <2> QED BY <1>3, <2>5
<1> QED
  BY <1>1, <1>2, <1>3
  DEF Next, PushEnds, ApplyEnds, Suspend, Resume, Requeue, UpdatePolicy, Deactivate, Assign, Unassign,
      PushOk, PushFail, ApplyStart, ApplyOk, ApplyFail, vars

Course == IInv /\ VersionsFollow /\ SentIsNewest /\ ReceiptOrder

LEMMA CourseInvariant == Spec => []Course
<1>1. Init => Course
  <2> SUFFICES ASSUME Init PROVE Course
    OBVIOUS
  <2>1. Received = {} /\ Assigned = {} /\ before = {}
    BY DEF Init, Received, Assigned
  <2>2. IInv
    BY <2>1, TypeInit DEF Init, IInv, AttemptsLeft, PushedIsReceived, Delivered, Applying, AppliedIsMirror
  <2>3. VersionsFollow /\ SentIsNewest
    BY <2>1 DEF Init, VersionsFollow, SentIsKnown, PushedIsKnown, HeldIsKnown, ReadIsHeld, MadeOf,
       SentIsNewest
  <2>4. ReceiptOrder
    BY <2>1, FS_EmptySet DEF ReceiptOrder
  <2> QED BY <2>2, <2>3, <2>4 DEF Course
<1>2. Course /\ [Next]_vars => Course'
  <2> SUFFICES ASSUME Course, [Next]_vars PROVE Course'
    OBVIOUS
  <2>1. IInv' /\ TypeOK /\ TypeOK' /\ Applying
    BY Inductive DEF Course, IInv
  <2>2. VersionsFollow'
    BY <2>1, SentInductive, PushedKnownInductive, HeldInductive, MadeInductive
    DEF Course, VersionsFollow
  <2>3. SentIsNewest'
    BY <2>1, NewestInductive DEF Course, VersionsFollow
  <2>4. ReceiptOrder'
    BY <2>1, OrderInductive DEF Course
  <2> QED BY <2>1, <2>2, <2>3, <2>4 DEF Course
<1> QED BY <1>1, <1>2, PTL DEF Spec

\* Whatever is edited, requeued, lost or renewed: what is made, held, sent and counted as
\* pushed is a version the coordinator made, in this order, and nothing that cannot be
\* applied is ever made.
THEOREM VersionsAreFollowed == Spec => []VersionsFollow
<1>1. Course => VersionsFollow
  BY DEF Course
<1> QED BY <1>1, CourseInvariant, PTL

\* No row and no local object goes back to an older version of its policy, no push is
\* forgotten while the policy is assigned, and a policy that is applied in its current
\* version stays so until it is edited: a push that comes late or twice does no harm.
OnlyForward ==
  /\ \A p \in Received : p \in Received' /\ inbox'[p].version >= inbox[p].version
  /\ \A n \in Role :
       local[n] # None
         => /\ local'[n] # None
            /\ local'[n].policy = local[n].policy => local'[n].version >= local[n].version
  /\ \A p \in Assigned \cap Assigned' : assignment'[p].pushed >= assignment[p].pushed
  /\ \A p \in Policy : Settled(p) /\ version'[p] = version[p] => Settled(p)'

LEMMA LocalForward ==
  ASSUME Course, [Next]_vars, NEW n \in Role, local[n] # None
  PROVE  /\ local'[n] # None
         /\ local'[n].policy = local[n].policy => local'[n].version >= local[n].version
<1>0. local[n] \in Made
  BY DEF Course, IInv, TypeOK
<1>1. CASE UNCHANGED local
  BY <1>0, <1>1 DEF Made
<1>2. CASE ApplyOk
  <2>1. /\ applying # None /\ applying \in Made
        /\ local' = [local EXCEPT ![Names[applying.policy]] = applying]
    BY <1>2, Typed DEF ApplyOk, Course, IInv
  <2>2. CASE n = Names[applying.policy]
    <3>1. local'[n] = applying
      BY <2>1, <2>2 DEF Course, IInv, TypeOK
    <3>2. applying.policy = local[n].policy => local[n].version <= applying.version
      BY <2>1 DEF Course, VersionsFollow, MadeOf
    <3> QED BY <1>0, <2>1, <3>1, <3>2 DEF Made
  <2>3. CASE n # Names[applying.policy]
    <3>1. local'[n] = local[n]
      BY <2>1, <2>3 DEF Course, IInv, TypeOK
    <3> QED BY <1>0, <3>1 DEF Made
  <2> QED BY <2>2, <2>3
<1> QED
  BY <1>1, <1>2
  DEF Next, PushEnds, ApplyEnds, Suspend, Resume, Requeue, UpdatePolicy, Deactivate, Assign,
      Unassign, PushStart, PushOk, PushFail, SiteReceive, ApplyStart, ApplyFail, siteVars, vars

LEMMA PushedForward ==
  ASSUME Course, [Next]_vars, NEW p \in Assigned \cap Assigned'
  PROVE  assignment'[p].pushed >= assignment[p].pushed
<1>0. p \in Policy /\ assignment[p].pushed \in Nat
  BY Typed DEF Assigned, Assignment, Course, IInv
<1>1. CASE assignment'[p].pushed = assignment[p].pushed
  BY <1>0, <1>1
<1>2. CASE UNCHANGED assignment
  BY <1>1, <1>2
<1>3. CASE Requeue
  BY <1>0, <1>1, <1>3 DEF Requeue, Renewed, Assigned
<1>4. ASSUME NEW q \in Policy, Assign(q) PROVE assignment'[p].pushed >= assignment[p].pushed
  BY <1>0, <1>1, <1>4 DEF Assign, Renewed, Assigned, Course, IInv, TypeOK
<1>5. ASSUME NEW q \in Policy, Unassign(q) PROVE assignment'[p].pushed >= assignment[p].pushed
  BY <1>0, <1>1, <1>5 DEF Unassign, Assigned, Course, IInv, TypeOK
<1>6. CASE PushOk
  <2>1. CASE p = sending.policy
    <3>1. assignment'[p].pushed = sending.version
      BY <1>0, <1>6, <2>1 DEF PushOk, Recorded, PushedVersion, Assigned, Course, IInv, TypeOK
    <3>2. sending.version \in Nat
      BY <1>6, Typed DEF PushOk, Course, IInv, Sending
    <3> QED BY <1>0, <1>6, <2>1, <3>1, <3>2 DEF PushOk, Course, SentIsNewest
  <2>2. CASE p # sending.policy
    BY <1>0, <1>1, <1>6, <2>2 DEF PushOk, Recorded, Assigned, Course, IInv, TypeOK
  <2> QED BY <2>1, <2>2
<1>7. CASE PushFail
  BY <1>0, <1>1, <1>7 DEF PushFail, Recorded, Assigned, Course, IInv, TypeOK
<1> QED
  BY <1>2, <1>3, <1>4, <1>5, <1>6, <1>7
  DEF Next, PushEnds, ApplyEnds, Suspend, Resume, UpdatePolicy, Deactivate, PushStart, SiteReceive,
      ApplyStart, ApplyOk, ApplyFail, coordVars, vars

LEMMA SettledForward ==
  ASSUME Course, Course', [Next]_vars, NEW p \in Policy, Settled(p), version'[p] = version[p]
  PROVE  Settled(p)'
<1>0. /\ p \in Received /\ inbox[p].applied /\ inbox[p].version = version[p] /\ inbox[p] \in InboxRow
      /\ inbox \in [Policy -> InboxRow \cup {None}] /\ TypeOK /\ Applying
  BY Typed DEF Settled, Course, IInv, TypeOK, InboxRow
<1>1. p \in Received' /\ inbox'[p].version = inbox[p].version
  <2>1. p \in Received' /\ inbox'[p].version >= inbox[p].version
    BY <1>0, InboxGrows
  <2>2. inbox'[p].version \in 1..version'[p]
    BY <2>1 DEF Course, VersionsFollow, HeldIsKnown
  <2> QED BY <1>0, <2>1, <2>2 DEF InboxRow
<1>2. inbox'[p].applied
  <2>1. CASE UNCHANGED inbox
    BY <1>0, <2>1
  <2>2. CASE SiteReceive
    <3>1. CASE Newer(sending.policy, sending.version) /\ sending.policy = p
      <4>1. sending.version \in 1..version[p] /\ sending.version > inbox[p].version
        BY <1>0, <2>2, <3>1 DEF SiteReceive, Newer, Course, VersionsFollow, SentIsKnown
      <4> QED BY <1>0, <4>1 DEF InboxRow
    <3>2. CASE ~ (Newer(sending.policy, sending.version) /\ sending.policy = p)
      BY <1>0, <2>2, <3>2 DEF SiteReceive
    <3> QED BY <3>1, <3>2
  <2>3. CASE ApplyOk
    <3>1. applying.policy # p
      BY <1>0, <2>3 DEF ApplyOk, Applying
    <3> QED BY <1>0, <2>3, <3>1 DEF ApplyOk
  <2> QED
    BY <2>1, <2>2, <2>3
    DEF Next, PushEnds, ApplyEnds, Suspend, Resume, Requeue, UpdatePolicy, Deactivate, Assign,
        Unassign, PushStart, PushOk, PushFail, ApplyStart, ApplyFail, siteVars, vars
<1> QED BY <1>0, <1>1, <1>2 DEF Settled

\* The site only moves forward, whatever is lost, repeated or edited meanwhile.
THEOREM SiteOnlyMovesForward == Spec => [][OnlyForward]_vars
<1>1. Course /\ Course' /\ [Next]_vars => [OnlyForward]_vars
  <2> SUFFICES ASSUME Course, Course', [Next]_vars PROVE OnlyForward
    OBVIOUS
  <2>1. \A p \in Received : p \in Received' /\ inbox'[p].version >= inbox[p].version
    BY InboxGrows DEF Course, IInv
  <2> QED BY <2>1, LocalForward, PushedForward, SettledForward DEF OnlyForward
<1> QED BY <1>1, CourseInvariant, PTL DEF Spec

\* The batches of the apply worker are the rows that wait longest, and never empty while
\* a row waits; rows that cannot be applied are the only ones that can keep others from
\* their turn.
THEOREM RowsAreAppliedInTurn == Spec => []BatchInTurn
<1>1. Course => BatchInTurn
  BY BatchIsInTurn DEF Course
<1> QED BY <1>1, CourseInvariant, PTL

\* What Converges needs of every state: a policy that is assigned and active waits for a
\* push, or is out of attempts, or is in its current version at the site, where it is
\* applied or waits for its turn behind a batch that is not empty.
PoliciesGoOn ==
  \A p \in Assigned :
    active[p]
      => \/ Pending(p)
         \/ assignment[p].status = "dead"
         \/ Settled(p)
         \/ p \in Unapplied /\ inbox[p].version = version[p] /\ Batch # {}

\* No edit, reassignment, lost answer or late push leaves a policy nobody works on.
THEOREM PoliciesAreCarriedOn == Spec => []PoliciesGoOn
<1>1. Course => PoliciesGoOn
  <2> SUFFICES ASSUME Course, NEW p \in Assigned, active[p], ~ Pending(p), assignment[p].status # "dead"
               PROVE  Settled(p) \/ (p \in Unapplied /\ inbox[p].version = version[p] /\ Batch # {})
    BY DEF PoliciesGoOn
  <2>1. p \in Policy /\ assignment[p] \in Assignment /\ version[p] \in Nat /\ version[p] >= 1
    BY Typed DEF Course, IInv, Assigned, TypeOK, VersionsFollow, SentIsKnown
  <2>2. assignment[p].pushed >= version[p]
    BY <2>1 DEF Pending, Assignment
  <2>3. p \in Received /\ inbox[p].version >= assignment[p].pushed
    BY <2>1, <2>2 DEF Course, IInv, PushedIsReceived, Assignment
  <2>4. inbox[p].version = version[p]
    <3>1. inbox[p].version \in 1..version[p]
      BY <2>3 DEF Course, VersionsFollow, HeldIsKnown
    <3> QED BY <2>1, <2>2, <2>3, <3>1 DEF Assignment
  <2>5. CASE inbox[p].applied
    BY <2>3, <2>4, <2>5 DEF Settled
  <2>6. CASE ~ inbox[p].applied
    <3>1. p \in Unapplied
      BY <2>3, <2>6 DEF Unapplied
    <3>2. Batch # {}
      <4>1. BatchInTurn
        BY BatchIsInTurn DEF Course
      <4>2. Cardinality({}) = 0 /\ Limit # 0
        BY FS_EmptySet, PoliciesAssumption
      <4> QED BY <3>1, <4>1, <4>2 DEF BatchInTurn
    <3> QED BY <2>4, <3>1, <3>2
  <2> QED BY <2>5, <2>6
<1> QED BY <1>1, CourseInvariant, PTL
=============================================================================
