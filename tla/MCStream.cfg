\* Every kind of request on a bridge that works: lengths on both sides of the
\* limits of a legacy stream, of a packet and of a read block.  Two of a few of
\* them in a row on a bridge with refused bytes, failing transfers, missing and
\* late answers.
SPECIFICATION Spec
CONSTANTS
    Requests <- MCRequests
    WriteLens = {0, 1, 2, 10, 11, 12, 13, 14, 15, 28, 29, 30, 31, 43, 44}
    ReadLens = {0, 1, 2, 31, 32, 33, 34, 63, 64, 65, 96, 97, 128}
    Disturbed <- MCDisturbed
    DisturbedWriteLens = {0, 1, 14}
    DisturbedReadLens = {0, 33}
    Speed = 100
    Faults = {"nack", "transfer", "mute", "late"}
    MaxFaults = 2
    MaxCalls = 2
CHECK_DEADLOCK FALSE
INVARIANTS
    BusMatches
    HealthySucceeds
    OwnAnswer
    NeverBeyond
    NackReported
