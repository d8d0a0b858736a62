\* Two worker processes, one simulation, one upload.
CONSTANTS
    w1 = w1
    w2 = w2
    s1 = s1
    s2 = s2
    i1 = i1
    Workers = {w1, w2}
    Sims = {s1}
    Imports = {i1}
    Configs <- MCConfigs
    Default = 2
    MaxAge = 2
SPECIFICATION FairTasks
PROPERTIES Paced KeepsPublishing FilesGoAway
