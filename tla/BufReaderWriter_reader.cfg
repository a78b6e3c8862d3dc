\* The reader side: bypass, refill, take, consume and searches, behind a flush of the buffer, and the end of every call.
CONSTANTS
    a = a
    b = b
    Byte <- TwoBytes
    WriterCapacity = 2
    ReaderCapacity = 2
    SinkCapacity = 2
    SourceLength = 2
    MaxLen = 2
    Faults = {"err", "interrupted", "panic"}
SPECIFICATION Spec
INVARIANT TypeOK
INVARIANT FlushedBeforeRead
INVARIANT ReadInOrder
PROPERTY NoIdleTurn
PROPERTY CallReturns
PROPERTY ImplementsDuplexStream
