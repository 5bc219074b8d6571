SPECIFICATION FairLoopSpec
CONSTANTS
    Keys = {k1}
    Versions = {v1}
    Absent = absent
    Torn = torn
    Branches = {main}
    Main = main
    NoBranch = noBranch
    Nobody = nobody
    Callers = {}
    MaxRemoteCommits = 3
    Starters = {s1, s2}
    Loop = loop
    Free = free
    ChanCap = 2
    CanWrite = TRUE
    Faults = {"deadline", "network", "cleanup"}
CHECK_DEADLOCK FALSE
INVARIANTS
    LoopTypeOK
    OneGitOperation
    CloneOnMain
    PulledIsReported
PROPERTIES
    ReportsGoForward
    ReportsOnce
    FollowsRemote
    MutexIsReleased
