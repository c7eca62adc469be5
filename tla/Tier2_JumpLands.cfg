SPECIFICATION Spec
CONSTANTS
  Keys = {1, 2}
  Pages = {0, 1}
  PageOf <- MCPageOf
  Succ <- NoBranch
  b1 = b1
  b2 = b2
  b3 = b3
  Blocks <- TwoBlocks
  NoBlock = NoBlock
  Capacity = 2
  Hot = {1, 2}
  FenceChanges = {{}, {0}}
  MaxLost = 1
  FlushRaces = TRUE
  SeqMod = 8
  MaxCompiles = 2
  MaxRemaps = 0
SYMMETRY AnyOfTwo
INVARIANTS
  JumpLands
