\* Two API processes and three requests in all, of any kind.
CONSTANTS
    p1 = p1
    p2 = p2
    Processes = {p1, p2}
    Keys = {"location", "elevation"}
    MaxRequests = 3
    MaxRows = 2
CHECK_DEADLOCK FALSE
SPECIFICATION Spec
INVARIANTS LinkedSourcesExist SyncersHaveScripts ParsersAreUpserted
PROPERTIES UndisturbedChangesStay
