CONSTANTS
    circle = circle
    station = station
    inv1 = inv1
    inv2 = inv2
    sup = sup
    pol = pol
    r1 = r1
    r2 = r2
    Requests = {r1, r2}
    Officers = {inv1, inv2, sup, pol}
    Units = {circle, station}
    Asks <- MCAsks
    Kind <- MCKind
    Role <- MCRole
    Home <- MCHome
    Reach <- MCReach
    MaxAttempts = 2
    Capacity = 1
    None = None
CONSTRAINT FirstIsPlain
SPECIFICATION FairSpec
INVARIANTS
    CallBudget
    RowsWithinReach
    EvidenceMatchesTable
    CacheSound
PROPERTIES
    EveryRequestEnds
CHECK_DEADLOCK FALSE
