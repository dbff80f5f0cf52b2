CONSTANTS
  Callers = {a, b}
  Nobody = Nobody
  Torn = Torn
  Permits = {p}
  NoPermit = NoPermit
  Keys = {k1, k2}
  NoKey = NoKey
  MaxBoots = 2
SPECIFICATION FairSpec
CHECK_DEADLOCK FALSE
INVARIANTS OwnerOpenedWorkspace SealedToOwner PermitSpentOnce
PROPERTIES OneOwnerPerBoot RequestsAnswered DoorReportedClosed
