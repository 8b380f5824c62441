SPECIFICATION Spec
CONSTANTS
  Regs = {0}
  Words <- DriverWords
  MaxWrites = 2
  MaxFrames = 1
PROPERTIES
  CoherentUnlessStale
  ReasonBeforeInterrupt
  AllApplied
