SPECIFICATION Spec
CONSTANTS
  Words <- AllWords
  Halves = {0}
  Modes <- ThreeModes
  Regs = {0, 1, 2, 3, 15}
INVARIANTS
  TypeOK
  StopMeansQuiet
  IntrIsSummary
  IdonMeansInit
PROPERTIES
  StatusOnlyAcked
  ModeKept
