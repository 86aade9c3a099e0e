SPECIFICATION FairSpec
CONSTANTS
  p1 = p1
  p2 = p2
  Policy = {p1, p2}
  Role = {web}
  Names <- SameRole
  Flawed <- EitherFlawed
  None = None
  MaxAttempts = 2
  Limit = 1
  MaxVersion <- Versions
INVARIANTS
  TypeOK
  PushedIsReceived
  AppliedIsMirror
PROPERTIES
  Converges
