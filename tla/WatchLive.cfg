SPECIFICATION FairSpec
CONSTANTS
    Paths = {p1, p2}
    NoValue = noValue
    Cookies = {1, 2, 3}
    NoCookie = 0
    EventCap = 2
    UpdateCap = 1
    Objects = {o1}
    Nameless = nameless
    Garbage = garbage
    Junk = {nameless, garbage}
    Absent = absent
    Torn = torn
    NilKey = nilKey
    NoPath = noPath
    OutsideOps = {"write", "delete", "rename", "moveOut", "moveIn"}
    ClientOps = {"create", "update", "delete"}
    MaxOps = 1
    CanClose = TRUE
CHECK_DEADLOCK FALSE
PROPERTIES
    PipelineDrains
