SPECIFICATION TraceSpec
CONSTANTS
    x = x
    y = y
    direct = direct
    derived = derived
    e0 = e0
    e1 = e1
    Field <- Fields
    Key <- Fields
    KeyOf <- KeyOfField
    Kind = {direct, derived}
    Expr = {e0, e1}
    Mappings <- Chain
    Others <- OtherMaps
    Faults = {"write", "rename", "remove"}
    Missing = missing
    Torn = torn
    MaxLen = 2
INVARIANTS
    IndexesAgree
    FileIsWhole
    MergeCovers
    TracesAgree
