\* The writer side: every write, flush, failure, retry and drop.
CONSTANTS
    a = a
    b = b
    Byte <- TwoBytes
    WriterCapacity = 2
    ReaderCapacity = 1
    SinkCapacity = 4
    SourceLength = 0
    MaxLen = 3
    Faults = {"err", "interrupted", "panic"}
SPECIFICATION Spec
SYMMETRY Symmetry
INVARIANT NoRealloc
INVARIANT DropHeedsPanic
PROPERTY HonestReturns
PROPERTY FlushDelivers
PROPERTY NoIdleTurn
PROPERTY ImplementsDuplexStream
