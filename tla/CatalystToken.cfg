CONSTANTS
    Callers = {c1, c2}
    Modellers = {c1}
    Lifetime = 4
    Skew = 3
    RefreshTime = 1
    CallTime = 2
    RpcTime = 2
    MaxRetries = 1
    NoToken = NoToken
    MaxTime = 4
SPECIFICATION FairSpec
INVARIANTS
    OneRefresh
    TokenOutlivesCall
PROPERTIES
    ImplementsTokenService
    EveryCallEnds
CHECK_DEADLOCK FALSE
