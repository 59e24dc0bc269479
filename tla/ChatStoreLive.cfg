CONSTANTS
    Workers = {w1, w2}
    Readers = {w1}
    s1 = s1
    t1 = t1
    t2 = t2
    o1 = o1
    Sessions = {s1}
    Turns = {t1, o1}
    Reports = {}
    Opens = {o1}
    SessionOf <- OneSession
    Absent = Absent
    MessageLimit = 3
    MaxErrors = 1
SPECIFICATION FairSpec
PROPERTIES
    EventuallyFresh
CHECK_DEADLOCK FALSE
