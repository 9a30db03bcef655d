\* Every interleaving and failure of three concurrent DAO operations; the
\* modulus of 3 is passed inside a behaviour.  Up to there the DAO implements
\* UserDirectory.
SPECIFICATION DaoSpec
CONSTANTS
    c1 = c1
    c2 = c2
    c3 = c3
    Calls = {c1, c2, c3}
    LookupIds = {0, 1, 2}
    IdModulus = 3
INVARIANTS
    DaoTypeOK
    RowsKeyed
    CreateReturnsOwnUser
    ReadsAreDurable
    DaoInv
PROPERTY
    ImplementsDirectory
SYMMETRY CallSymmetry
\* A caller calls once; when all have returned nothing is left to do.
CHECK_DEADLOCK FALSE
