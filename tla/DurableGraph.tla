---------------------------- MODULE DurableGraph ----------------------------
(***************************************************************************)
(* What internal/store promises the program that opens a store directory:  *)
(* one durable graph.  A request changes it at most once, by one operation *)
(* of the graph or by installing a whole graph; a process death changes    *)
(* nothing; and whenever the store is open and no request is running, the  *)
(* graph its readers see is the durable one.                               *)
(***************************************************************************)
EXTENDS LineageGraph

CONSTANTS
    Docs,      \* graphs a caller may install in one request
    Down       \* what readers see of a store that is not open, no graph

VARIABLES
    durable,   \* the graph a process that opens the directory obtains
    shown,     \* what Graph() returns, or Down
    status     \* "down", "serving", "busy" or "committed"

vars == <<durable, shown, status>>

Init ==
    /\ durable \in Graphs
    /\ IsDag(durable)
    /\ shown = Down
    /\ status = "down"

Recover ==
    /\ status = "down"
    /\ status' = "serving"
    /\ shown' = durable
    /\ UNCHANGED durable

Begin ==
    /\ status = "serving"
    /\ status' = "busy"
    /\ shown' = Down
    /\ UNCHANGED durable

(* One change of one node or one edge, or a new graph altogether.          *)
OneOperation(old, new) ==
    \/ \E n \in Node, a \in Attr : new = PutNode(old, n, a)
    \/ \E m, n \in Node, a \in EdgeAttr : new = PutEdge(old, m, n, a)
    \/ \E m, n \in Node : new = DropEdge(old, m, n)
    \/ \E n \in Node : new = DropNode(old, n)

Commit ==
    /\ status = "busy"
    /\ status' = "committed"
    /\ OneOperation(durable, durable') \/ durable' \in Docs
    /\ IsDag(durable')
    /\ UNCHANGED shown

Finish ==
    /\ status \in {"busy", "committed"}
    /\ status' = "serving"
    /\ shown' = durable
    /\ UNCHANGED durable

Crash ==
    /\ status # "down"
    /\ status' = "down"
    /\ shown' = Down
    /\ UNCHANGED durable

Next == Recover \/ Begin \/ Commit \/ Finish \/ Crash

Spec == Init /\ [][Next]_vars
=============================================================================
