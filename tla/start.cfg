\* Both services, from every command line and file to the first request.
SPECIFICATION StartSpec
CONSTANTS
    Files <- MCFiles
    OptionSets <- MCOptionSets
    Unreadable = Unreadable
    None = None
INVARIANTS
    StartTypeOK
    ServesAsConfigured
    InstrumentsAreReal
    PeersAsTold
PROPERTY
    ConfigurationDecides
