SPECIFICATION FairSpec
CONSTANTS
    a = a
    b = b
    c = c
    n0 = n0
    n1 = n1
    direct = direct
    join = join
    absent = absent
    torn = torn
    none = none
    Node = {a, b}
    Attr = {n0, n1}
    NoAttr = n0
    EdgeAttr = {direct, join}
    Direct = direct
    Absent = absent
    Torn = torn
    None = none
    Requests = {"add_node", "set_attr", "add_edge", "rm_edge", "rm_node", "compact", "load", "close"}
    NodeArgs = {n1, absent}
    EdgeArgs = {join, absent}
    Docs <- PairDoc
    InitGraphs <- OnlyEmpty
    Faults = {"rename"}
    CrashAt = {"replay", "idle", "append", "sync", "rename", "snapwrite"}
    MaxWal = 2
INVARIANTS
    StoreInvariant
PROPERTIES
    DurableSpec
    ServesAgain
