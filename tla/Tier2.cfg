SPECIFICATION Spec
CONSTANTS
  Keys = {1, 2, 3}
  Pages = {0, 1}
  PageOf <- MCPageOf
  Succ <- OverPageEnd
  b1 = b1
  b2 = b2
  b3 = b3
  Blocks <- ThreeBlocks
  NoBlock = NoBlock
  Capacity = 2
  Hot = {1, 2}
  FenceChanges = {{}, {0}}
  MaxLost = 1
  FlushRaces = FALSE
  SeqMod = 4
  MaxCompiles = 2
  MaxRemaps = 1
SYMMETRY AnyOfThree
INVARIANTS
  BlocksAccounted
  LiveCode
  JumpLands
  FreshCode
