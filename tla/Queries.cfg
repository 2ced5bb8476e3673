SPECIFICATION ConsoleSpec
CONSTANTS
    absent = absent
    Node = {1, 2, 3, 4}
    Attr <- NodeAttrs
    NoAttr <- Unset
    EdgeAttr <- EdgeAttrs
    Direct <- Straight
    Absent = absent
    Inputs <- AllDags
    Attributed <- Judged
    Texts <- Files
    Targets <- Lists
    PathCap = 100
    Name = {"", "staging", "dim", "fact", "report", "raw", "a", "b", "x"}
    LineCap = 2
    MaxCrossTeam = 1
    MaxFanInRule = 1
    MaxFanOutRule = 1
    HealthLimit <- Limits
INVARIANTS
    PathsAreExact
    MeasuresAreRight
    AnswersAreRight
    ChecksAgree
CHECK_DEADLOCK FALSE
