\* Lists of up to three identities, and every other flag at its boundaries.
SPECIFICATION Spec
CONSTANTS
    CommandLines <- MCCommandLines
CHECK_DEADLOCK FALSE
INVARIANTS
    AcceptedStarts
    ServesAsWritten
