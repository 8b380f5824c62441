SPECIFICATION Spec
CONSTANTS
  N = 3
  MaxFrames = 5
  MaxParts = 3
  Cap = 3
  ChainReady = TRUE
  Collides = FALSE
  MaxExtra = 0
CHECK_DEADLOCK FALSE
INVARIANT
  StaysOn
PROPERTIES
  FifoSpec
  AllReturned
  WritesOnlyOwned
