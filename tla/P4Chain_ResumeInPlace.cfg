SPECIFICATION ChainSpec
CONSTANTS
  NWords = 1
  Quantum = 1
  PinMax = 1
  CyclePerStep = 2
  MaxCost = 1
  CycleSpan = 2
INVARIANT
  ResumeInPlace
