\* What the documentation says of the resources of a handle, without exceptions.
CONSTANTS
    n1 = n1
    n2 = n2
    n3 = n3
    n4 = n4
    h1 = h1
    h2 = h2
    StdIn = StdIn
    StdOut = StdOut
    Nothing = Nothing
    Fd <- FourNumbers
    Slot <- TwoSlots
    Platforms = {"posish"}
SPECIFICATION Spec
SYMMETRY Symmetry
INVARIANT NoForeignIO
