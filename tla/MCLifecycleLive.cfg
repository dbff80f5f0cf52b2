CONSTANTS
  Services = {"shim"}
  Restart = {"shim"}
  Forking = {}
  HasPidFile = {"shim"}
  Spawning = {"shim"}
  Groups <- DeviceGroups
  Base = 2
  Max = 3
  MaxPid = 2
  Drainer = Drainer
  Nobody = Nobody
  Plan <- ShimPlan
  Step = Step
  Optional = {}
  Required = {"shim"}
  SetMayFail = TRUE
  Debug = TRUE
SPECIFICATION LFairSpec
CHECK_DEADLOCK FALSE
PROPERTIES ShutdownCompletes CrashClosesGate 
