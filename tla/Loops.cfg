SPECIFICATION LoopsSpec
CONSTANTS
    absent = absent
    Node = {1, 2, 3, 4}
    Name = {"", "staging", "dim", "fact", "report", "raw", "a", "b", "x"}
    Attr <- NodeAttrs
    NoAttr <- Unset
    EdgeAttr <- EdgeAttrs
    Direct <- Straight
    Absent = absent
    LineCap = 2
    Inputs <- GraphsOver3
    Calls <- Queries
    Plans <- Prioritized
    Texts <- Files
    Sources <- Judged
INVARIANTS
    SearchInvariant
    SortInvariant
    CycleIsReported
    OrderIsTopological
    ImpactIsReachability
    OrderIsExecutable
    ParseDecides
    SpecRoundTrip
PROPERTY
    AllTerminate
CHECK_DEADLOCK FALSE
