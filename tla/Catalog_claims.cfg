SPECIFICATION Spec
CONSTANTS
  Host = {h1}
  Package <- TwoNames
  None = None
  MaxSends = 2
  MaxFaults = 1
  Faults = {"error"}
INVARIANT ClaimsWhatItHas
CHECK_DEADLOCK FALSE
