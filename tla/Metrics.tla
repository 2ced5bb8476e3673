------------------------------ MODULE Metrics ------------------------------
(***************************************************************************)
(* internal/metrics: the measures Compute takes of a graph.  Density and   *)
(* averages are left out, being quotients of the numbers below, the       *)
(* coupling is in module Checks.                                           *)
(***************************************************************************)
EXTENDS Lineage

EdgeCount(g) == Cardinality({e \in Node \X Node : HasEdge(g, e[1], e[2])})

(* The first of the nodes with the largest degree, Absent if all are zero. *)
Widest(g, degree) ==
    FoldLeft(LAMBDA best, n : IF degree[n] > best.size
                              THEN [size |-> degree[n], node |-> n] ELSE best,
             [size |-> 0, node |-> Absent], Sorted(Nodes(g)))

MaxFanIn(g) == Widest(g, [n \in Node |-> Cardinality(Predecessors(g, n))])
MaxFanOut(g) == Widest(g, [n \in Node |-> Cardinality(Successors(g, n))])

(* computeDepth relaxes the edges as LayerOrder does; a graph that cannot  *)
(* be sorted has depth and width 0.                                        *)
Depth(g) == IF TopoOrders(g) = {} THEN 0 ELSE Max({0} \cup {Layers(g)[n] : n \in Nodes(g)})

(* computeWidth.  Only the nodes with a predecessor are written to the map *)
(* of levels and counted.                                                  *)
Width(g) ==
    LET level   == Layers(g)
        counted == {n \in Nodes(g) : Predecessors(g, n) # {}}
    IN  IF TopoOrders(g) = {} THEN 0
        ELSE Max({0} \cup {Cardinality({n \in counted : level[n] = d}) : d \in 1..Depth(g)})

Forward(g, n) == Successors(g, n)
Adjacent(g, n) == Successors(g, n) \cup Predecessors(g, n)

RECURSIVE Flood(_, _)
(* The inner loop of countComponents.                                      *)
Flood(g, seen) ==
    LET more == seen \cup UNION {Adjacent(g, n) : n \in seen}
    IN  IF more = seen THEN seen ELSE Flood(g, more)

Components(g) ==
    FoldLeft(LAMBDA acc, n :
               IF n \in acc.visited THEN acc
               ELSE [visited |-> acc.visited \cup Flood(g, {n}), count |-> acc.count + 1],
             [visited |-> {}, count |-> 0], Sorted(Nodes(g))).count

(* Compute.  A graph of at most one node has no further measures.          *)
Compute(g) ==
    LET n == Cardinality(Nodes(g))
    IN  IF n <= 1
        THEN [edges |-> EdgeCount(g), roots |-> n, leaves |-> n, components |-> n,
              depth |-> 0, width |-> 0,
              fanIn |-> [size |-> 0, node |-> Absent],
              fanOut |-> [size |-> 0, node |-> Absent]]
        ELSE [edges |-> EdgeCount(g), roots |-> Cardinality(Roots(g)),
              leaves |-> Cardinality(Leaves(g)), components |-> Components(g),
              depth |-> Depth(g), width |-> Width(g),
              fanIn |-> MaxFanIn(g), fanOut |-> MaxFanOut(g)]
=============================================================================
