------------------------------ MODULE Priority ------------------------------
(***************************************************************************)
(* internal/scheduler/priority.go: what the strategies sort the nodes of a *)
(* level by, and the estimate of the length of the critical path.  Module  *)
(* PriorityOrder has the loops that make the order.                        *)
(***************************************************************************)
EXTENDS Topology, SequencesExt

Strategies == {"critical_path", "fan_out", "fan_in", "alphabetic"}

DownstreamDepth(g, n) ==
    LET depth[m \in Node] ==
          IF Successors(g, m) = {} THEN 0 ELSE 1 + Max({depth[k] : k \in Successors(g, m)})
    IN  depth[n]

(* The closure dfs of fanOut: what it has marked when it returns.          *)
FanOut(g, n) ==
    LET dfs[v \in [node : Node, marked : SUBSET Node]] ==
          FoldLeft(LAMBDA marked, m :
                     IF m \in marked THEN marked
                     ELSE dfs[[node |-> m, marked |-> marked \cup {m}]],
                   v.marked, SetToSortSeq(Successors(g, v.node), <))
    IN  Cardinality(dfs[[node |-> n, marked |-> {}]])

Key(g, strategy, n) ==
    CASE strategy = "critical_path" -> DownstreamDepth(g, n)
      [] strategy = "fan_out"       -> FanOut(g, n)
      [] strategy = "fan_in"        -> Cardinality(Predecessors(g, n))
      [] strategy = "alphabetic"    -> 0

(* The order of sortByStrategy: the greatest key first, ties by id.        *)
ComesFirst(g, strategy, m, n) ==
    \/ Key(g, strategy, m) > Key(g, strategy, n)
    \/ Key(g, strategy, m) = Key(g, strategy, n) /\ m < n

(* EstimateCriticalPathLength relaxes the edges in topological order.      *)
EstimateCriticalPathLength(g) ==
    LET relax(dist, n) == [m \in Node |->
            IF m \in Successors(g, n) /\ dist[n] + 1 > dist[m] THEN dist[n] + 1 ELSE dist[m]]
        dist == FoldLeft(relax, [n \in Node |-> 0], CHOOSE order \in TopoOrders(g) : TRUE)
    IN  Max({0} \cup {dist[n] : n \in Nodes(g)})
=============================================================================
