\* Lookups of ids that no row has.
SPECIFICATION ManagerSpec
CONSTANTS
    c1 = c1
    c2 = c2
    c3 = c3
    s1 = s1
    s2 = s2
    Calls = {c1, c2, c3}
    LookupIds = {1, 2}
    IdModulus = 4
    Servers = {s1, s2}
    NoServer = NoServer
    MaxKills = 0
INVARIANT
    LookupsKillNoReplica
