SPECIFICATION Spec
CONSTANTS
  Byte = {"a", "b"}
  BlockSize = 2
  MaxChunk = 3
  MaxBlocks = 3
  MaxOffset = 8
INVARIANT CountersAgree
PROPERTY ImplementsByteQueue
