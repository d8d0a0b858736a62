\* Two API processes, one name, four requests in all.
CONSTANTS
    p1 = p1
    p2 = p2
    n1 = n1
    j1 = j1
    j2 = j2
    Processes = {p1, p2}
    Names = {n1}
    Projects = {j1, j2}
    MaxRequests = 4
CHECK_DEADLOCK FALSE
SPECIFICATION Spec
INVARIANTS FeaturesHaveLayers
PROPERTIES OnlyOwnIsUndone
