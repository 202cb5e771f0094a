SPECIFICATION Spec
CONSTANTS
  Byte = {"0", "a", "b"}
  NUL = "0"
  CharSet <- Sets
  Index <- Indexes
  ByteMap <- Upper
  MaxArg = 3
  MaxLen = 4
  Limit <- SmallLimit
  Prealloc = 4
  Garbage = "garbage"
INVARIANTS TypeOK MemorySafe KnowsCapacity
PROPERTIES Implements
VIEW Memory
