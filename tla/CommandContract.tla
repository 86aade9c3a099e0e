-------------------------- MODULE CommandContract --------------------------
(***************************************************************************)
(* What the federation promises the operator who dispatches a command to   *)
(* the hosts of a site, without requests, queues, retries or restarts: the *)
(* site reaches one outcome, after it was asked and once for all; the      *)
(* operator is told this outcome and no other, or, at any time and then    *)
(* for good, that the coordinator gave the site up.                        *)
(***************************************************************************)
CONSTANT Command

VARIABLES
  asked,     \* commands the operator has dispatched
  outcome,   \* what became of each at the site
  told       \* what the operator is told

cvars == <<asked, outcome, told>>

Outcome == {"completed", "failed"}

Init ==
  /\ asked = {}
  /\ outcome = [c \in Command |-> "open"]
  /\ told = [c \in Command |-> "open"]

Ask ==
  /\ \E c \in Command \ asked : asked' = asked \cup {c}
  /\ UNCHANGED <<outcome, told>>

Settle ==
  /\ \E c \in asked, v \in Outcome :
       outcome[c] = "open" /\ outcome' = [outcome EXCEPT ![c] = v]
  /\ UNCHANGED <<asked, told>>

Tell ==
  /\ \E c \in asked :
       /\ told[c] = "open"
       /\ outcome[c] # "open"
       /\ told' = [told EXCEPT ![c] = outcome[c]]
  /\ UNCHANGED <<asked, outcome>>

GiveUp ==
  /\ \E c \in asked : told' = [told EXCEPT ![c] = "given up"]
  /\ UNCHANGED <<asked, outcome>>

Next == Ask \/ Settle \/ Tell \/ GiveUp

Spec == Init /\ [][Next]_cvars
=============================================================================
