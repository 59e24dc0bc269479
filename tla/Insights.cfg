CONSTANTS
    a1 = a1
    a2 = a2
    a3 = a3
    k1 = k1
    k2 = k2
    kala = kala
    ravi = ravi
    NoName = NoName
    None = None
    Accused = {a1, a2, a3}
    Cases = {k1, k2}
    Name <- NameMC
    Placements <- PlacementsMC
    Alike <- AlikeMC
    PatternLimit = 1
    Calls = {c1, c2}
    Stations = {u1}
    Commands = {u1}
    Passes = {c2}
    Slots = 1
    Late = {a2}
    Caught = {a1}
    Subjects = {a1, a2}
SPECIFICATION Spec
INVARIANTS
    GraphSound
PROPERTIES
    ScoreLostOnlyOnOverlap
    PassEnds
CHECK_DEADLOCK FALSE
