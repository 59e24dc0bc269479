CONSTANTS
    Instances = {i1, i2}
    Units = {u1}
    Quota = 1
    Headcounts = {2}
    NoCap = NoCap
    NoWindow = NoWindow
    MaxWindow = 1
    MaxRequests = 2
    MaxFaults = 1
    MaxRestarts = 1
SPECIFICATION Spec
SYMMETRY Symmetry
INVARIANTS
    OwnCounted
    CountBacked
    GracefulExitKeepsCounts
    Conservation
PROPERTIES
    AdmitWithinBudget
CHECK_DEADLOCK FALSE
