SPECIFICATION FairSpec
CONSTANTS
  h1 = h1
  h2 = h2
  Command = {c1}
  Host = {h1, h2}
  Mirror = h1
  Rollup = rollup
  Request <- Requests
  NoRow = NoRow
  MaxAttempts = 2
  MaxSnaps <- Snaps
  MaxFaults = 1
INVARIANTS
  TypeOK
  VerdictHonest
  OneOrderPerTarget
  SettledIsReported
  SomeoneWillAnswer
  NewestRollupKept
PROPERTIES
  OnlyGivingUpOverwrites
  SettledIsHeard
  KeepsContract
CHECK_DEADLOCK FALSE
