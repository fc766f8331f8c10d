SPECIFICATION Spec
CONSTANTS
  InodesRequested = 5
  InodeBitsPerBlock = 3
  BlockIds = {7, 9}
INVARIANTS TypeOK TableAgrees
PROPERTY ImplementsInodePool
