SPECIFICATION Spec
CONSTANTS
  Host = {h1, h2}
  Package <- TwoNames
  None = None
  MaxSends = 3
  MaxFaults = 1
  Faults <- AllFaults
INVARIANTS
  TypeOK
  WholeIsFaithful
PROPERTIES
  OnlyBatchesBreak
SYMMETRY HostSymmetry
CHECK_DEADLOCK FALSE
