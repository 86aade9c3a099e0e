------------------------ MODULE MCFederationCommands ------------------------
(* The instance of FederationCommands for TLC; the bounds are in the .cfg.   *)
EXTENDS FederationCommands

CONSTANTS h1, h2

\* For all hosts, for two, for one that is listed twice; the other kinds.
Requests ==
  [kind : {"fleet"}, targets : {<< >>, <<h1, h2>>, <<h2, h2>>}]
    \cup [kind : Kind \ {"fleet"}, targets : {<< >>}]

\* The rollups share the queue with the verdict on an unmapped command only: what
\* a verdict says makes no difference to them.
Snaps == [r \in Requests |-> IF r.kind = "unmapped" THEN 2 ELSE 0]
=============================================================================
