\* A wrapper and a peer that answers what has been flushed to it.
CONSTANTS
    a = a
    Byte <- OneByte
    WriterCapacity = 2
    ReaderCapacity = 2
    SinkCapacity = 4
    SourceLength = 4
    MaxLen = 3
    Faults = {"err", "interrupted", "panic"}
SPECIFICATION InteractiveSpec
INVARIANT NeverBothWait
PROPERTY RequestAnswered
PROPERTY FillAnsweredIfFlushed
\* An owner that reads what it has not asked for waits for ever.
CHECK_DEADLOCK FALSE
