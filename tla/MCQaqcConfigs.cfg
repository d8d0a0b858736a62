\* Two API processes, one project of the TSM, two configurations and a test.
CONSTANTS
    p1 = p1
    p2 = p2
    j1 = j1
    l1 = l1
    l2 = l2
    t1 = t1
    q1 = q1
    Processes = {p1, p2}
    Projects = {j1}
    Locals = {l1, l2}
    Schema <- SchemaOf
    Things = {t1}
    MaxConfigs = 2
    Tests = {q1}
    MaxCrashes = 1
CHECK_DEADLOCK FALSE
SPECIFICATION FairSpec
INVARIANTS LinkedConfigsExist
PROPERTIES SoleDefault RequestsEnd
