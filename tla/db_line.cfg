SPECIFICATION Spec
CONSTANTS
  Regs = {0, 1}
  Words <- TwoWords
  MaxWrites = 2
  MaxFrames = 1
PROPERTIES
  LineSpec
  CommandsDrain
