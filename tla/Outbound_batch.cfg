SPECIFICATION HealthySpec
CONSTANTS
  MaxRetries = 2
  AckTimeout = 1
  ExpireAfter = 3
  KeepCompleted = 1
  NumMessages = 2
  Host = {h1}
  Kinds = {"command", "logging_config_update"}
  Prios = {"normal", "high"}
  BatchLimit = 2
  MaxAborts = 0
  Env = {}
  PromptDrain = TRUE
INVARIANTS
  NoLostUpdate
PROPERTIES
  Delivered
