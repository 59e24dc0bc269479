CONSTANTS
    Instances = {i1, i2}
    Units = {u1}
    Quota = 1
    Headcounts = {2}
    NoCap = NoCap
    NoWindow = NoWindow
    MaxWindow = 1
    MaxRequests = 1
    MaxFaults = 1
    MaxRestarts = 1
SPECIFICATION FairSpec
PROPERTIES
    EventuallyConverged
CHECK_DEADLOCK FALSE
