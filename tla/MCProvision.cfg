CONSTANTS
  Names = {"a", "k"}
  Undeclared = "u"
  Configs <- SomeConfigs
  Chunks = 2
  FirstSlot = 7
  LastSlot = 8
  SectorSize = 1
  BlockSize = 2
  MaxOffset = 9
  CryptSectors = 2
  Sizes = {3, 4}
SPECIFICATION Spec
CHECK_DEADLOCK FALSE
INVARIANTS ReadersAgree SecretsFromOneSource MountedIsVerified
