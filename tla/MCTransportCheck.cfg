\* A health check while the enumeration of the bus may fail.
SPECIFICATION Spec
CONSTANTS
    Workers = {w1}
    Inspectors = {i1}
    Closer = main
    UsbIDs <- MCOneID
    id1 = id1
    id2 = id2
    Handles = {h1, h2, h3}
    Nil = Nil
INVARIANTS
    CheckFailureIsError
