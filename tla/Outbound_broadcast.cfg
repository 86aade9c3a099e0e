SPECIFICATION Spec
CONSTANTS
  MaxRetries = 3
  AckTimeout = 1
  ExpireAfter = 4
  KeepCompleted = 1
  NumMessages = 1
  Host = {h1}
  Kinds = {"command","broadcast"}
  Prios = {"normal"}
  BatchLimit = 1
  MaxAborts = 0
  Env = {}
  PromptDrain = TRUE
INVARIANT BroadcastDelivered
