\* What the documentation says of drop, after a panic in a direct write.
CONSTANTS
    a = a
    b = b
    Byte <- TwoBytes
    WriterCapacity = 2
    ReaderCapacity = 1
    SinkCapacity = 2
    SourceLength = 0
    MaxLen = 2
    Faults = {"panic"}
SPECIFICATION Spec
PROPERTY DropAttemptsFlush
