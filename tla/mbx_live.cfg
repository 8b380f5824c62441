SPECIFICATION Spec
CONSTANTS
  Regs = {0, 1}
  Words <- TwoWords
  Kinds = {"rap", "put", "get"}
  MaxCycles = 3
  MaxFrames = 1
  MaxExpiries = 0
  Attempts = 2
  QueueSize = 2
  HoldIter = 1
  RefreshIter = 1
  Retries = 1
PROPERTIES
  CyclesEnd
  WritesLand
  LineFollows
