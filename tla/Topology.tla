------------------------------ MODULE Topology ------------------------------
(***************************************************************************)
(* What graph.TopoSort returns for an acyclic graph, stated without its    *)
(* loop: every node once, each time the smallest of those whose            *)
(* predecessors have all been listed.  Module TopoSort models the loop and *)
(* shows that it computes this; the scheduler and the level computations   *)
(* start from it.  Ids are numbers that compare as the strings do.         *)
(***************************************************************************)
EXTENDS LineageGraph, Naturals, FiniteSets, Sequences

ASSUME NodeAssumption == Node \subseteq Nat
ASSUME NodeIsFinite == IsFiniteSet(Node)

(* Nodes that may come next once those in placed have been listed.         *)
Ready(g, placed) == {n \in Nodes(g) \ placed : Predecessors(g, n) \subseteq placed}

Before(order, k) == {order[i] : i \in 1..(k - 1)}

Least(S) == CHOOSE n \in S : \A m \in S : n <= m

IsTopoOrder(g, order) ==
    /\ DOMAIN order = 1..Cardinality(Nodes(g))
    /\ \A k \in DOMAIN order :
        /\ order[k] \in Ready(g, Before(order, k))
        /\ order[k] = Least(Ready(g, Before(order, k)))

TopoOrders(g) ==
    {order \in [1..Cardinality(Nodes(g)) -> Nodes(g)] :
        /\ \A i, k \in DOMAIN order : order[i] = order[k] => i = k
        /\ IsTopoOrder(g, order)}

(* n depends on m, directly or through other nodes.                        *)
DependsOn(g, n, m) == \E p \in Successors(g, m) : Reaches(g, p, n)
=============================================================================
