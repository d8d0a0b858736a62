CONSTANTS
    r1 = r1
    r2 = r2
    w1 = w1
    w2 = w2
    a1 = a1
    a2 = a2
    Rules = {r1, r2}
    Kind <- QaqcAndScript
    Workers = {w1, w2}
    AlertIds = {a1, a2}
    Readings = {"none", "clear", "breach", "error"}
    MaxChanges = 3
SPECIFICATION FairSpec
INVARIANTS OneActivePerWorker NoOrphanAlert
PROPERTIES OffStaysQuiet ClearSettles BreachSettles
