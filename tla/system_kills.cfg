\* Two requests on one worker and one replica, with the gateway and the replica killed from outside.
SPECIFICATION FairSystemSpec
CONSTANTS
    c1 = c1
    c2 = c2
    c3 = c3
    s1 = s1
    s2 = s2
    Calls = {c1, c2}
    LookupIds = {1}
    IdModulus = 4
    Servers = {s1}
    NoServer = NoServer
    MaxKills = 1
    Workers = 1
    Uint64Max = 5
    MaxGatewayKills = 1
INVARIANTS
    CreateAnswersOwnUser
    ListAnswersAllUsers
    RowsComeFromPosts
PROPERTIES
    SessionsEnd
    EveryCallEnds
    ImplementsApi
