\* A slave that refuses bytes, on a bridge that works.
SPECIFICATION Spec
CONSTANTS
    Requests <- MCRequests
    WriteLens = {0, 1}
    ReadLens = {1, 33}
    Disturbed <- MCRequests
    DisturbedWriteLens = {}
    DisturbedReadLens = {}
    Speed = 100
    Faults = {"nack"}
    MaxFaults = 1
    MaxCalls = 1
CHECK_DEADLOCK FALSE
INVARIANTS
    NackIsError
