\* Two API processes, one worker process, one script, two runs of it.
CONSTANTS
    p1 = p1
    p2 = p2
    r1 = r1
    s1 = s1
    j1 = j1
    j2 = j2
    Processes = {p1, p2}
    Runners = {r1}
    Scripts = {s1}
    Jobs = {j1, j2}
    MaxCrashes = 1
CHECK_DEADLOCK FALSE \* with its only script gone nobody can do anything
SPECIFICATION FairSpec
INVARIANTS JobsHaveScripts RunsAreRecorded FilelessScriptWasRun
PROPERTIES ImplementsJobLife WatchedJobsEnd
