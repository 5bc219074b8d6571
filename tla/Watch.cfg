SPECIFICATION Spec
CONSTANTS
    Paths = {p1, p2}
    NoValue = noValue
    Cookies = {1, 2, 3}
    NoCookie = 0
    EventCap = 2
    UpdateCap = 1
    Objects = {o1, o2}
    Nameless = nameless
    Garbage = garbage
    Junk = {}
    Absent = absent
    Torn = torn
    NilKey = nilKey
    NoPath = noPath
    OutsideOps = {"write", "delete", "rename", "moveOut", "moveIn"}
    ClientOps = {"create", "update", "delete"}
    MaxOps = 2
    CanClose = FALSE
CHECK_DEADLOCK FALSE
SYMMETRY Symmetry
INVARIANTS
    TypeOK
    QuietMappings
    QuietReader
    NoStrandedBatch
