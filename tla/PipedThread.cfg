\* A boxed reader or writer behind its thread: every call, every failure, drop.
CONSTANTS
    a = a
    b = b
    Byte <- TwoBytes
    PipeCapacity = 2
    PipeBuf = 1
    StreamLength = 4
    MaxLen = 3
    Faults = {"boxed", "panic", "spawn", "interrupted", "format"}
SPECIFICATION Spec
INVARIANT TypeOK
INVARIANT WriterNeverAborts
PROPERTY FlushReachesBoxed
PROPERTY EofIsEnd
PROPERTY NoSilentLoss
PROPERTY CallReturns
PROPERTY ImplementsDuplexStream
