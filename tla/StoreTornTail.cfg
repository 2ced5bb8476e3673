SPECIFICATION Spec
CONSTANTS
    a = a
    b = b
    c = c
    n0 = n0
    n1 = n1
    direct = direct
    join = join
    absent = absent
    torn = torn
    none = none
    Node = {a, b}
    Attr = {n0}
    NoAttr = n0
    EdgeAttr = {direct}
    Direct = direct
    Absent = absent
    Torn = torn
    None = none
    Requests = {"add_node", "set_attr"}
    NodeArgs = {n0, absent}
    EdgeArgs = {direct, absent}
    Docs <- NoDocs
    InitGraphs <- OnlyEmpty
    Faults = {"tear"}
    CrashAt = {"idle", "append"}
    MaxWal = 2
INVARIANT
    MemoryIsLogged
