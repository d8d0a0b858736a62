\* Two threads, a pool of three.
CONSTANTS
    p1 = p1
    p2 = p2
    c1 = c1
    c2 = c2
    c3 = c3
    t1 = t1
    t2 = t2
    Threads = {p1, p2}
    Conns = {c1, c2, c3}
    Things = {t1, t2}
    MaxFailures = 1
SPECIFICATION FairSpec
INVARIANTS HeldApart
PROPERTIES OnlyDeletesLeak CallsEnd
