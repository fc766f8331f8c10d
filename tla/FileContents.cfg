SPECIFICATION Spec
CONSTANTS
  NBlocks = 10
  NReserved = 4
  MaxInodes = 4
  NDirect = 1
  NIndirect = 1
  BlockSize = 2
  Types = {"FILE"}
  Cells = {0, 1}
  Zero = 0
  Contents <- PartialContents
  Offsets <- PartialOffsets
  Memory = 6
  Garbage = Garbage
PROPERTY ImplementsFileStore
VIEW MCView
