SPECIFICATION Spec
CONSTANTS
  MaxRetries = 3
  AckTimeout = 1
  ExpireAfter = 1
  KeepCompleted = 0
  Report = {r1}
  BatchLimit = 2
  MaxAborts = 0
  Faults = FALSE
INVARIANT CompletedWasApplied
