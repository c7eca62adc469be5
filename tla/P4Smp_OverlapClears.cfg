SPECIFICATION Spec
CONSTANTS
  NWords = 2
  Quantum = 2
  PinMax = 2
  CyclePerStep = 2
  MaxCost = 1
  CycleSpan = 2
INVARIANT
  OverlapClears
