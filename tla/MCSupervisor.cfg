CONSTANTS
  Services = {"shim", "gpu"}
  Restart = {"shim","gpu"}
  Forking = {"gpu"}
  HasPidFile = {"shim"}
  Spawning = {"gpu"}
  Groups <- ShimOnly
  Base = 2
  Max = 2
  MaxPid = 2
  Drainer = Drainer
  Nobody = Nobody
SPECIFICATION Spec
CHECK_DEADLOCK FALSE
INVARIANTS OneInstance NoLostStatus NoZombieForgotten PIDFileCurrent DrainedGroupsStayEmpty
PROPERTIES NoStartWhileDraining
