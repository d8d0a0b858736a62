\* One worker, two sensors with names of their own.
CONSTANTS
    t1 = t1
    t2 = t2
    n1 = n1
    n2 = n2
    w1 = w1
    w2 = w2
    d1 = d1
    d2 = d2
    a1 = a1
    a2 = a2
    Things = {t1, t2}
    Names = {n1, n2}
    Name0 <- TwoNames
    Workers = {w1}
    DefIds = {d1}
    AlertIds = {a1, a2}
    Thresholds = {1}
    MaxClock = 2
    MaxPending = 1
    MaxChanges = 2
    Edits = {"config", "delete", "acknowledge", "trigger"}
SPECIFICATION ActivitySpec
PROPERTIES ImplementsAlarm
