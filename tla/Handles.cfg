\* Every constructor of both platforms, two handles and the application at a time.
CONSTANTS
    n1 = n1
    n2 = n2
    n3 = n3
    n4 = n4
    h1 = h1
    h2 = h2
    StdIn = StdIn
    StdOut = StdOut
    Nothing = Nothing
    Fd <- FourNumbers
    Slot <- TwoSlots
    Platforms = {"posish", "winx"}
SPECIFICATION Spec
SYMMETRY Symmetry
INVARIANT TypeOK
INVARIANT DescriptorsLive
 
PROPERTY OthersUntouched
