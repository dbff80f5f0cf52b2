CONSTANTS
  Images <- TwoImages
  BootPlan <- ShortBootPlan
  WorkPlan <- ShortWorkPlan
  Artifacts <- ShimArtifacts
  Shim = "shim"
  MaxShims = 3
SPECIFICATION FairSpec
CHECK_DEADLOCK FALSE
INVARIANTS ProxyIsEarned
PROPERTIES UpgradeCompletes
