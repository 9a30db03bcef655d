\* "User is invalid!" of a user that was stored.
SPECIFICATION SystemSpec
CONSTANTS
    c1 = c1
    c2 = c2
    c3 = c3
    s1 = s1
    s2 = s2
    Calls = {c1, c2}
    LookupIds = {1}
    IdModulus = 4
    Servers = {s1}
    NoServer = NoServer
    MaxKills = 0
    Workers = 2
    Uint64Max = 5
    MaxGatewayKills = 0
INVARIANT
    InvalidIsTrue
