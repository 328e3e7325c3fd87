\* One transaction at a time, a health check and the shutdown, under fairness.
SPECIFICATION FairSpec
CONSTANTS
    Workers = {w1}
    Inspectors = {i1}
    Closer = main
    UsbIDs <- MCOneID
    id1 = id1
    id2 = id2
    Handles = {h1, h2, h3}
    Nil = Nil
PROPERTIES
    EveryCallReturns
    StaleSessionIsDropped
