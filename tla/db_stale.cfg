SPECIFICATION Spec
CONSTANTS
  Regs = {0, 1}
  Words <- TwoWords
  MaxWrites = 1
  MaxFrames = 1
PROPERTY
  EventuallyCoherent
