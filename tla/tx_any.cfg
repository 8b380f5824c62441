SPECIFICATION Spec
CONSTANTS
  N = 3
  MaxFrames = 3
  MaxParts = 3
  Cap = 2
  ChainReady = FALSE
  Collides = TRUE
  MaxExtra = 1
CHECK_DEADLOCK FALSE
INVARIANTS
  CopiesOwned
  SentOnce
  CauseSettled
