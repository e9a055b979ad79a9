SPECIFICATION LiveSpec
CONSTANTS
    Workers = {w1, w2, w3}
    Callers = {c1, c2}
    Tasks = {t1, t2}
    None = None
    MaxRuns = 2
INVARIANTS NoLostWakeup OneMoreTask StopWaits OnlyOvertakenLeft
PROPERTIES Served StopReturns
