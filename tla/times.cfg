\* The time of creation from the clock to the answer of the gateway.
SPECIFICATION TimesSpec
CONSTANTS
    Users = {u1, u2}
    MicrosPerMilli = 2
    MillisPerSecond = 2
    NanosPerMicro = 2
    HalfModulus = 17
    MaxClock = 40
    None = None
SYMMETRY UserSymmetry
INVARIANTS
    TimesTypeOK
    TableKeepsCreation
    ShownNearCreation
    OrderKept
CHECK_DEADLOCK FALSE
