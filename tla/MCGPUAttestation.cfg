CONSTANTS
  GPUs = {g1, g2, g3}
  Minors <- FewMinors
  CtlMinor = 2
  ModesetMinor = 5
  MaxNVSwitches = 1
  MaxReady = 2
  Arches <- BothArches
  HopperGPUs = 2
  HopperSwitches = 2
  SwitchPDIs = {s1, s2, s3}
  GPUPDIs = {p1, p2, p3}
SPECIFICATION Spec
CHECK_DEADLOCK FALSE
INVARIANTS ReadyIsEarned AcceptingIsAttested
SYMMETRY GPUSymmetry
