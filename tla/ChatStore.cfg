CONSTANTS
    Workers = {w1, w2}
    Readers = {w1}
    s1 = s1
    t1 = t1
    t2 = t2
    o1 = o1
    Sessions = {s1}
    Turns = {t1, t2}
    Reports = {t2}
    Opens = {}
    SessionOf <- OneSession
    Absent = Absent
    MessageLimit = 3
    MaxErrors = 1
SPECIFICATION Spec
INVARIANTS
    KnownSessionExists
    CleanTurnSaved
    CountWithinErrors
    CachedIsPast
CHECK_DEADLOCK FALSE
