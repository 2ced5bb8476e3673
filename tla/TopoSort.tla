------------------------------ MODULE TopoSort ------------------------------
(***************************************************************************)
(* The loop of Graph.TopoSort (internal/graph/graph.go): it counts the     *)
(* incoming edges of every node, then lists the smallest node whose count  *)
(* is zero and takes it out of the counts of its successors, until every   *)
(* node is listed or none has a zero count.                                *)
(***************************************************************************)
EXTENDS Topology

VARIABLES graph, indeg, visited, order, outcome

vars == <<graph, indeg, visited, order, outcome>>

InitOutdegree ==
    /\ graph \in Graphs
    /\ EndsPresent(graph)
    /\ indeg = [n \in Node |-> Cardinality(Successors(graph, n))]
    /\ visited = {}
    /\ order = <<>>
    /\ outcome = "none"

Init ==
    /\ graph \in Graphs
    /\ EndsPresent(graph)
    /\ indeg = [n \in Node |-> Cardinality(Predecessors(graph, n))]
    /\ visited = {}
    /\ order = <<>>
    /\ outcome = "none"

ZeroCountOrOne == {n \in Nodes(graph) \ visited : indeg[n] <= 1}

ZeroCount == {n \in Nodes(graph) \ visited : indeg[n] = 0}

ListKeepsCounts ==
    /\ outcome = "none"
    /\ visited # Nodes(graph)
    /\ ZeroCount # {}
    /\ visited' = visited \cup {Least(ZeroCount)}
    /\ order' = Append(order, Least(ZeroCount))
    /\ UNCHANGED <<graph, indeg, outcome>>

List ==
    /\ outcome = "none"
    /\ visited # Nodes(graph)
    /\ ZeroCount # {}
    /\ LET n == Least(ZeroCount)
       IN  /\ visited' = visited \cup {n}
           /\ order' = Append(order, n)
           /\ indeg' = [m \in Node |->
                IF m \in Successors(graph, n) THEN indeg[m] - 1 ELSE indeg[m]]
    /\ UNCHANGED <<graph, outcome>>

Stuck ==
    /\ outcome = "none"
    /\ visited # Nodes(graph)
    /\ ZeroCount = {}
    /\ outcome' = "cycle"
    /\ UNCHANGED <<graph, indeg, visited, order>>

Sorted ==
    /\ outcome = "none"
    /\ visited = Nodes(graph)
    /\ outcome' = "sorted"
    /\ UNCHANGED <<graph, indeg, visited, order>>

Next == List \/ Stuck \/ Sorted

Spec == Init /\ [][Next]_vars
FairSpec == Spec /\ WF_vars(Next)

-----------------------------------------------------------------------------
TypeOK ==
    /\ graph \in Graphs
    /\ indeg \in [Node -> Nat]
    /\ visited \subseteq Node
    /\ order \in Seq(Node)
    /\ outcome \in {"none", "sorted", "cycle"}

(* TopoSort reports a cycle exactly when the graph has one.                *)
CycleIsReported ==
    /\ outcome = "cycle" => ~Acyclic(graph)
    /\ outcome = "sorted" => Acyclic(graph)

(* The order it returns is the smallest-first topological order.           *)
OrderIsTopological == outcome = "sorted" => IsTopoOrder(graph, order)

(* The counts are those of the predecessors not listed yet, and what is    *)
(* listed so far is a beginning of the topological order.                  *)
SortInvariant ==
    /\ TypeOK
    /\ EndsPresent(graph)
    /\ visited = {order[k] : k \in DOMAIN order}
    /\ visited \subseteq Nodes(graph)
    /\ Cardinality(visited) = Len(order)
    /\ indeg = [n \in Node |-> Cardinality(Predecessors(graph, n) \ visited)]
    /\ \A k \in DOMAIN order :
        /\ order[k] \in Ready(graph, Before(order, k))
        /\ order[k] = Least(Ready(graph, Before(order, k)))
    /\ outcome = "sorted" => visited = Nodes(graph)
    /\ outcome = "cycle" => ~Acyclic(graph)

(* The sort has returned, with an order or an error.                       *)
SortEnded == outcome # "none"
=============================================================================
