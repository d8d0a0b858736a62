\* Two processes, one project, one thing, two schemas.
CONSTANTS
    w1 = w1
    w2 = w2
    p1 = p1
    t1 = t1
    s1 = s1
    s2 = s2
    Processes = {w1, w2}
    Projects = {p1}
    Things = {t1}
    Schemas = {s1, s2}
    MaxPolls = 2
    MaxMessages = 1
    MaxFailures = 1
CHECK_DEADLOCK FALSE \* with the project and the thing gone nobody can do anything
SPECIFICATION FairSpec
INVARIANTS OrphansAreTold SimulationsHaveThings
PROPERTIES ImplementsPromise RequestsEnd
