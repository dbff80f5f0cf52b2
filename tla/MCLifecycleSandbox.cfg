CONSTANTS
  Services = {"shim", "sandbox"}
  Restart = {"shim"}
  Forking = {}
  HasPidFile = {}
  Spawning = {"sandbox"}
  Groups <- SandboxGroups
  Base = 2
  Max = 2
  MaxPid = 3
  Drainer = Drainer
  Nobody = Nobody
  Plan <- SandboxPlan
  Step = Step
  Optional = {}
  Required = {"shim", "sandbox"}
  SetMayFail = TRUE
  Debug = FALSE
SPECIFICATION LSpec
CHECK_DEADLOCK FALSE
INVARIANTS ReadyMeansServing PowerOffIsClean FileIsTruth
PROPERTIES NeverReadyAgain

