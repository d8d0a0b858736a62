\* Two workers, one start of the container, two runs with two faults in all.
CONSTANTS
    w1 = w1
    w2 = w2
    ApiWorkers = {w1, w2}
    MaxTries = 2
    MaxRuns = 2
    MaxFaults = 2
    MaxStarts = 1
CHECK_DEADLOCK FALSE
SPECIFICATION FairSeeding
INVARIANTS CleanRunsComplete OneOfEach HealthyHasTables
PROPERTIES RunsEnd
