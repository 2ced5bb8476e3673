SPECIFICATION FairSpec
CONSTANTS
    n0 = n0
    direct = direct
    absent = absent
    r1 = r1
    Node = {1, 2, 3, 4}
    Attr = {n0}
    NoAttr = n0
    EdgeAttr = {direct}
    Direct = direct
    Absent = absent
    Dags <- AllDags
    Runner = {r1}
INVARIANTS
    TypeOK
    DependenciesDone
    ReportIsComplete
    SkipsAreExplained
    CancelledIsSuffix
PROPERTIES
    ExecutionSpec
    RunReturns
