\* "User .. created" after the sequence has passed what a uint16_t holds.
SPECIFICATION DaoSpec
CONSTANTS
    c1 = c1
    c2 = c2
    c3 = c3
    Calls = {c1, c2, c3}
    LookupIds = {0, 1, 2}
    IdModulus = 2
INVARIANT
    CreatedUserIsTheOneReported
CHECK_DEADLOCK FALSE
