SPECIFICATION Spec
CONSTANTS
  TotalBlocks = 11
  BitsPerBlock = 4
  BitmapBlockId = 2
INVARIANTS TypeOK BitmapAgrees
PROPERTY ImplementsBlockPool
