\* Three calls on the in-memory DAO, that overlap, with races and without.
SPECIFICATION MemorySpec
CONSTANTS
    c1 = c1
    c2 = c2
    c3 = c3
    Calls = {c1, c2, c3}
    LookupIds = {0, 3, 7}
INVARIANT
    MemoryTypeOK
PROPERTY
    RaceFreeImplementsDirectory
SYMMETRY CallSymmetry
\* A caller calls once; when all have returned nothing is left to do.
CHECK_DEADLOCK FALSE
