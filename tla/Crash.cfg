SPECIFICATION CrashSpec
CONSTANTS
  NBlocks = 11
  NReserved = 7
  MaxInodes = 4
  Requested = 3
  BitsPerBlock = 4
  EntriesPerBlock = 2
  BlockSz = 4
  KDefaultBlockCnt = 11
  Usize = 64
  Counts = {11, 14, 17}
  NDirect = 1
  NIndirect = 1
  BlockSize = 1
  Types = {"FILE"}
  Cells = {0}
  Zero = 0
  Contents <- MCContents
  Offsets = {0, 1, 4}
  Memory = 3
  Garbage = Garbage
INVARIANTS CrashTypeOK InterruptedCallsAreSafe IdsInUseAreMarked SuperblockVouches MapsTheWholeFile
PROPERTIES OnlyTheCalledFileChanges UninterruptedCallsImplement
VIEW MCView
