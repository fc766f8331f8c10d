SPECIFICATION Spec
CONSTANTS
  Payload = 4
  KBitsPerByte = 2
  KBytesPerWord = 2
  None = None
INVARIANT TypeOK
PROPERTY ImplementsBitSet
CHECK_DEADLOCK FALSE
