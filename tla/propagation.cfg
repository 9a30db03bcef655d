\* One trace per request, through both services.
SPECIFICATION TracingSpec
CONSTANTS
    c1 = c1
    c2 = c2
    g1 = g1
    u1 = u1
    u2 = u2
    Calls = {c1, c2}
    LookupIds = {}
    GatewayThreads = {g1}
    ServerThreads = {u1, u2}
    NoCall = NoCall
    NoSpan = NoSpan
INVARIANT
    ContextPropagates
