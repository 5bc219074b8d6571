SPECIFICATION FairSpec
CONSTANTS
    c1 = c1
    c2 = c2
    b1 = b1
    b2 = b2
    k1 = k1
    k2 = k2
    Keys = {k1}
    Versions = {v1}
    Absent = absent
    Torn = torn
    Branches = {main, b1}
    Main = main
    NoBranch = noBranch
    Nobody = nobody
    Callers = {c1, c2}
    MaxRemoteCommits = 2
    Starters = {syncer}
    Syncer = syncer
    Loop = loop
    Free = free
    ChanCap = 1
    CanWrite = TRUE
    Faults = {}
    BranchOf <- OneBranch
    FnOps = {"delete"}
    FnResults = {"commit"}
    HasProvider = TRUE
PROPERTIES
    TransactionsEnd
    MappingsFollowRemote
