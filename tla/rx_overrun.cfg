SPECIFICATION Spec
CONSTANTS
  N = 3
  MaxFrames = 5
  MaxParts = 3
  Paced = FALSE
CHECK_DEADLOCK FALSE
INVARIANTS
  TypeOK
  ExclusiveBuffers
  SidesAgree
  CountsSettled
