SPECIFICATION Spec
CONSTANTS
    Node = {1, 2, 3}
    a0 = a0
    a1 = a1
    direct = direct
    join = join
    absent = absent
    Attr = {a0, a1}
    NoAttr = a0
    EdgeAttr = {direct, join}
    Direct = direct
    Absent = absent
    Docs <- AcyclicDocs
    MaxIds = 2
INVARIANTS
    DagInvariant
    OrderListsNodes
    CopyIsInduced
    RoundTrip
