------------------------ MODULE MCFederationPolicies ------------------------
(* The instance of FederationPolicies for TLC; the bounds are in the .cfg.   *)
EXTENDS FederationPolicies

CONSTANTS p1, p2

\* Two policies that define the same role.
SameRole == [p \in Policy |-> CHOOSE n \in Role : TRUE]

\* One of them is edited; either its edited version or the other policy cannot be
\* applied.
Versions == [p \in Policy |-> IF p = p1 THEN 2 ELSE 1]
EitherFlawed == {{<<p1, 2>>}, {<<p2, 1>>}}
=============================================================================
