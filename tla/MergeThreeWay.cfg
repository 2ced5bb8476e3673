SPECIFICATION Spec
CONSTANTS
    a = a
    b = b
    c = c
    n0 = n0
    n1 = n1
    direct = direct
    noted = noted
    join = join
    absent = absent
    Node = {a, b, c}
    Attr = {n0, n1}
    NoAttr = n0
    EdgeAttr = {direct, noted, join}
    Direct = direct
    Absent = absent
    Inputs <- ThreeWayCalls
    Transform <- Kind
INVARIANT
    OneSidedChangeKept
CHECK_DEADLOCK FALSE
