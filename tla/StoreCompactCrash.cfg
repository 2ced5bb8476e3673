SPECIFICATION Spec
CONSTANTS
    a = a
    b = b
    c = c
    n0 = n0
    n1 = n1
    direct = direct
    join = join
    absent = absent
    torn = torn
    none = none
    Node = {a, b, c}
    Attr = {n0}
    NoAttr = n0
    EdgeAttr = {direct}
    Direct = direct
    Absent = absent
    Torn = torn
    None = none
    Requests = {"add_edge", "rm_edge", "compact"}
    NodeArgs = {n0, absent}
    EdgeArgs = {direct}
    Docs <- NoDocs
    InitGraphs <- EdgeOnly
    Faults = {}
    CrashAt = {"truncate"}
    MaxWal = 5
INVARIANT
    MemoryIsLogged
