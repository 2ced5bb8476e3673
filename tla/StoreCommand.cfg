SPECIFICATION CommandSpec
CONSTANTS
    n0 = n0
    n1 = n1
    direct = direct
    join = join
    absent = absent
    torn = torn
    none = none
    Node = {1, 2, 3}
    Attr = {n0, n1}
    NoAttr = n0
    EdgeAttr = {direct, join}
    Direct = direct
    Absent = absent
    Torn = torn
    None = none
    Requests = {"add_node", "set_attr", "add_edge", "compact", "close"}
    NodeArgs = {n0}
    EdgeArgs = {direct}
    Docs <- NoDocs
    InitGraphs <- StoredGraphs
    Faults = {"rename"}
    CrashAt = {"replay", "idle", "append", "sync", "rename", "truncate"}
    MaxWal = 18
    Commands = {"load", "compact", "show", "edit"}
    Specs <- SpecGraphs
    MaxEdits = 2
    MaxRuns = 3
INVARIANTS
    MemoryIsLogged
    LoadConverges
PROPERTY
    LoadIsAnswered
CHECK_DEADLOCK FALSE
