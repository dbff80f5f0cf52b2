CONSTANTS
  Keys = {k1, k2}
  NoKey = NoKey
  Modes = {"boot", "worker", "workspace"}
  MaxBoots = 3
SPECIFICATION Spec
CHECK_DEADLOCK FALSE
INVARIANTS SealNamesDiskKey OpenIsComplete FailureLeavesNothing HalfFormattedIsExcused
PROPERTIES DataNeverLost ImplementsWorkspace
