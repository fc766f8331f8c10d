SPECIFICATION DaemonSpec
CONSTANTS
  NBlocks = 7
  NReserved = 1
  MaxInodes = 5
  NDirect = 1
  NIndirect = 1
  BlockSize = 2
  Types = {"FILE", "Directory"}
  Zero <- MCZero
  Nul = Nul
  One = One
  x = x
  y = y
  Memory = 6
  Garbage = Garbage
  Masks = {"SIZE", "MODE"}
  Clients = {c1, c2}
  Openers = {c1}
  Cells <- MCCells
  Contents <- MCContents
  Offsets <- MCOffsets
  Names <- MCNames
PROPERTY SetattrOnlySetsSize
