\* Lines, partial lines, partial writes, failures, retries and drop.
CONSTANTS
    x = x
    Newline = nl
    Byte <- TextBytes
    WriterCapacity = 2
    ReaderCapacity = 1
    SinkCapacity = 4
    SourceLength = 0
    MaxLen = 4
    Faults = {"err", "interrupted", "panic"}
SPECIFICATION LineSpec
INVARIANT LineTypeOK
INVARIANT NewlineLast
INVARIANT NoRealloc
PROPERTY LinesGoOut
PROPERTY HonestReturns
PROPERTY LineImplementsDuplexStream
