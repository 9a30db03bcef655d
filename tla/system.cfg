\* Three concurrent requests, two workers, two replicas, every crash that is the program's own.
SPECIFICATION SystemSpec
CONSTANTS
    c1 = c1
    c2 = c2
    c3 = c3
    s1 = s1
    s2 = s2
    Calls = {c1, c2, c3}
    LookupIds = {1, 7}
    IdModulus = 4
    Servers = {s1, s2}
    NoServer = NoServer
    MaxKills = 0
    Workers = 2
    Uint64Max = 5
    MaxGatewayKills = 0
INVARIANTS
    SystemTypeOK
    CreateAnswersOwnUser
    ReadAnswersRequestedUser
    ListAnswersAllUsers
    RowsComeFromPosts
    CreatedIsStored
    StoredOnRequest
    CountersAgree
SYMMETRY SystemSymmetry
