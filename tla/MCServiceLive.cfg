\* Two clients and the startup probe under weak fairness of every goroutine,
\* with a requestId that is no UUID and a challenge that is too long.
SPECIFICATION FairSpec
CONSTANTS
    Callers = {p1, p2}
    Prober = prober
    RequestIDs = {id1, idBad}
    UUIDs = {id1}
    Challenges = {c1, cLong}
    c1 = c1
    c2 = c2
    cEmpty = cEmpty
    cLong = cLong
    ChallengeLen <- MCChallengeLen
    Devices = {d1}
    Nil = Nil
    TTL = 0
    MaxTime = 1
    MaxSignings = 1
PROPERTIES
    EveryCallReturns
    GateIsReleased
