SPECIFICATION Spec
CONSTANTS
  NBlocks = 10
  NReserved = 4
  MaxInodes = 4
  NDirect = 1
  NIndirect = 2
  BlockSize = 1
  Types = {"FILE"}
  Cells = {0}
  Zero = 0
  Contents <- LayoutContents
  Offsets <- LayoutOffsets
  Memory = 5
  Garbage = Garbage
INVARIANTS TypeOK BlockOwnership InodeShape
PROPERTY LosesBlocksOnlyOnFailure
VIEW MCView
