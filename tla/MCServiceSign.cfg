\* Two clients that share a requestId, the startup probe and a second chip to
\* swap in, on a clock that passes the lifetime of a signature.
SPECIFICATION Spec
CONSTANTS
    Callers = {p1, p2}
    Prober = prober
    RequestIDs = {id1}
    UUIDs = {id1}
    Challenges = {c1, c2}
    c1 = c1
    c2 = c2
    cEmpty = cEmpty
    cLong = cLong
    ChallengeLen <- MCChallengeLen
    Devices = {d1, d2}
    Nil = Nil
    TTL = 1
    MaxTime = 2
    MaxSignings = 2
SYMMETRY Symmetry
INVARIANTS
    TypeOK
    ChipExclusive
    SlotAccounted
    HolderTruthful
    SignedOncePerWindow
    SignedIsCached
    NoCrosstalk
    OneCertificate
PROPERTIES
    SignIsIdempotent
