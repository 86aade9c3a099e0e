SPECIFICATION FairSpec
CONSTANTS
  MaxRetries = 2
  AckTimeout = 1
  ExpireAfter = 4
  KeepCompleted = 1
  NumMessages = 1
  Host = {h1}
  Kinds <- AllKinds
  Prios = {"normal"}
  BatchLimit = 1
  MaxAborts = 1
  Env <- AllDisturbances
  PromptDrain = TRUE
INVARIANTS
  TypeOK
  NeverStuck
  CompletedWasReceived
  SendsBounded
PROPERTIES
  TerminalStable
  RedeliverySpacing
  ImplementsContract
  Settles
