SPECIFICATION Spec
CONSTANTS
  N = 3
  MaxFrames = 7
  MaxParts = 2
  Paced = TRUE
CHECK_DEADLOCK FALSE
PROPERTY
  FifoSpec
