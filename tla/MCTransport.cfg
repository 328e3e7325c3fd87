\* Two transactions, a health check or diagnostics call and the shutdown over
\* two identities that come and go.
SPECIFICATION Spec
CONSTANTS
    Workers = {w1, w2}
    Inspectors = {i1}
    Closer = main
    UsbIDs <- MCTwoIDs
    id1 = id1
    id2 = id2
    Handles = {h1, h2, h3, h4}
    Nil = Nil
SYMMETRY Symmetry
INVARIANTS
    TypeOK
    UsedHandleIsOpen
    OneOpenHandle
    ClosedForGood
    FailedSessionDropped
