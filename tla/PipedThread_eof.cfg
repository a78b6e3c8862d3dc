\* What map_err unwraps, with nothing failing at all.
CONSTANTS
    a = a
    b = b
    Byte <- TwoBytes
    PipeCapacity = 2
    PipeBuf = 1
    StreamLength = 2
    MaxLen = 2
    Faults = {}
SPECIFICATION Spec
INVARIANT MapErrFindsError
