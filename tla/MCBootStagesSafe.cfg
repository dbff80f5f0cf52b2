CONSTANTS
  Images <- TwoImages
  BootPlan <- ShortBootPlan
  WorkPlan <- ShortWorkPlan
  Artifacts <- ShimArtifacts
  Shim = "shim"
  MaxShims = 3
SPECIFICATION Spec
CHECK_DEADLOCK FALSE
INVARIANTS RecordedStays
