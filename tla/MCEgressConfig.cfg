CONSTANTS
  Configs = {"c1", "c2", "c3"}
  First = "c1"
  Containers <- Declared
  Allowlist = {"c1", "c2"}
  Toolbox = "t"
  None = "none"
  MaxBoots = 2
  MaxPids = 4
SPECIFICATION Spec
CHECK_DEADLOCK FALSE
INVARIANT EngineFollowsConfig
