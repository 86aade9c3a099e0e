SPECIFICATION FairSpec
CONSTANTS
  MaxRetries = 2
  AckTimeout = 1
  ExpireAfter = 1
  KeepCompleted = 0
  Report = {r1, r2}
  BatchLimit = 2
  MaxAborts = 1
  Faults = TRUE
INVARIANTS
  TypeOK
  RegisteredHasNoBuffer
  AppliedOnce
  NoLostUpdate
PROPERTIES
  Settles
