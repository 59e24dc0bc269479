CONSTANTS
    Processes = {w1, w2}
    Exchanges = {t1, t2, t3}
    Wordless = {t3}
    Keep = 2
    MaxBusy = 2
    None = None
    Given = Given
    MaxFaults = 1
SPECIFICATION HistorySpec
SYMMETRY Symmetry
CONSTRAINTS
    NotBetween
    ShortIfGiven
INVARIANTS
    HistoryInOrder
    NothingLostWithoutOverlap
    CountNeverOver
CHECK_DEADLOCK FALSE
