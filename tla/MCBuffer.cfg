CONSTANTS
    Chunk <- MCChunk
    Byte = {"a", "b", "c"}
    Unwritten = "unwritten"
    InitialSize = 3
    PrependSize = 1
    MaxSize = 9
SPECIFICATION BufferSpec
INVARIANT WellFormed
PROPERTY ImplementsByteQueue
CHECK_DEADLOCK FALSE
