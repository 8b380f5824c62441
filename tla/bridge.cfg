SPECIFICATION Spec
CONSTANTS
  Watchdog = 4
  MaxCycles = 4
  MaxLives = 3
INVARIANTS
  OwnAnswer
  ServedOnce
PROPERTY
  CyclesEnd
