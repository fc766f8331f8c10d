SPECIFICATION Spec
CONSTANTS
  NBlocks = 9
  NReserved = 4
  MaxInodes = 8
  NDirect = 1
  NIndirect = 2
  BlockSize = 1
  Types = {"FILE"}
  Cells = {0}
  Zero = 0
  Contents <- LayoutContents
  Offsets <- LayoutOffsets
  Memory = 5
  Garbage = Garbage
INVARIANT EmptyMeansFree
