SPECIFICATION Spec
CONSTANTS
  Nics <- OneNic
  Eth0 <- OnBoard
  Hashes <- OneHash
  Peers <- TwoPeers
  Customs <- OneCustom
  Patches <- OnePatch
  Setups <- SomeSetups
  MaxFrames = 1
  MaxInits = 2
  MaxQueue = 1
CHECK_DEADLOCK FALSE
INVARIANTS
  WireSource
  RightStation
  NoEcho
  ChecksumHolds
  MappingHeld
PROPERTIES
  RepliesReach
  Stops
