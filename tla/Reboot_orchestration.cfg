SPECIFICATION FairSpec
CONSTANTS
  Child = {c1, c2}
  Orchestration = {1, 2}
  PlanChoices = {{}, {c2}}
  MaxTargets = 2
  MaxIncidents = 1
INVARIANTS
  TypeOK
  RebootSparesChildren
  RestartedWasStarted
PROPERTIES
  Concludes
CHECK_DEADLOCK FALSE
