------------------------------ MODULE Lineage ------------------------------
(***************************************************************************)
(* internal/lineage: the queries about a graph.  Each operator is the      *)
(* algorithm of the function of the same name for nodes the graph has (an  *)
(* unknown node is an error and no answer), but for the impact queries,    *)
(* whose algorithm is module Impact; lists that the code sorts are sets    *)
(* where only their members matter.  Module Queries asks them and says     *)
(* what the answers mean.                                                  *)
(***************************************************************************)
EXTENDS Topology, SequencesExt

CONSTANT PathCap    \* the cap CriticalPath gives AllPaths

ASSUME PathCapAssumption == PathCap \in Nat \ {0}

Sorted(S) == SetToSortSeq(S, <)

(* What the walks of module Impact return.                                 *)
Upstream(g, id) == {n \in Nodes(g) \ {id} : Reaches(g, n, id)}
Downstream(g, id) == {n \in Nodes(g) \ {id} : Reaches(g, id, n)}

BatchImpact(g, changed) ==
    UNION {Downstream(g, changed[i]) : i \in DOMAIN changed} \ ToSet(changed)

RECURSIVE Bfs(_, _, _, _)
Bfs(g, dst, visited, queue) ==
    IF queue = <<>> THEN -1
    ELSE LET cur   == Head(queue)
             fresh == Successors(g, cur.node) \ visited
         IN  IF dst \in Successors(g, cur.node) THEN cur.dist + 1
             ELSE Bfs(g, dst, visited \cup fresh,
                      Tail(queue) \o
                      [i \in 1..Cardinality(fresh) |->
                         [node |-> Sorted(fresh)[i], dist |-> cur.dist + 1]])

Distance(g, src, dst) ==
    IF src = dst THEN 0 ELSE Bfs(g, dst, {src}, <<[node |-> src, dist |-> 0]>>)

RECURSIVE PathsFrom(_, _, _, _, _)
(* The closure dfs of AllPaths: path so far, paths found, cap 0 for none.  *)
PathsFrom(g, dst, cap, path, paths) ==
    IF cap > 0 /\ Len(paths) >= cap THEN paths
    ELSE IF Last(path) = dst THEN Append(paths, path)
    ELSE FoldLeft(LAMBDA found, n : PathsFrom(g, dst, cap, Append(path, n), found),
                  paths, Sorted(Successors(g, Last(path)) \ ToSet(path)))

AllPaths(g, src, dst, maxPaths) == PathsFrom(g, dst, maxPaths, <<src>>, <<>>)

RECURSIVE Deepest(_, _, _, _)
(* The closure dfs of LongestPath: depth of cur, best depth of dst so far. *)
Deepest(g, dst, cur, depth) ==
    IF cur = dst THEN depth
    ELSE Max({-1} \cup {Deepest(g, dst, n, depth + 1) : n \in Successors(g, cur)})

LongestPath(g, src, dst) == Deepest(g, dst, src, 0)

Roots(g) == {n \in Nodes(g) : Predecessors(g, n) = {}}
Leaves(g) == {n \in Nodes(g) : Successors(g, n) = {}}

CriticalPathFirst(g) ==
    LET found == FlattenSeq([i \in 1..Cardinality(Roots(g)) |->
                   FlattenSeq([j \in 1..Cardinality(Leaves(g)) |->
                     AllPaths(g, Sorted(Roots(g))[i], Sorted(Leaves(g))[j], 1)])])
    IN  FoldLeft(LAMBDA best, p : IF Len(p) > Len(best) THEN p ELSE best, <<>>, found)

(* The first of the longest paths found, for roots and leaves in order.    *)
CriticalPath(g) ==
    LET found == FlattenSeq([i \in 1..Cardinality(Roots(g)) |->
                   FlattenSeq([j \in 1..Cardinality(Leaves(g)) |->
                     AllPaths(g, Sorted(Roots(g))[i], Sorted(Leaves(g))[j], PathCap)])])
    IN  FoldLeft(LAMBDA best, p : IF Len(p) > Len(best) THEN p ELSE best, <<>>, found)

(* The layer of every node: the loop relaxes the edges in topological      *)
(* order.                                                                  *)
Layers(g) ==
    LET relax(dist, n) == [m \in Node |->
            IF m \in Successors(g, n) /\ dist[n] + 1 > dist[m] THEN dist[n] + 1 ELSE dist[m]]
    IN  FoldLeft(relax, [n \in Node |-> 0], CHOOSE order \in TopoOrders(g) : TRUE)

LayerOrder(g) ==
    LET dist == Layers(g)
        deep == Max({0} \cup {dist[n] : n \in Nodes(g)})
    IN  IF Nodes(g) = {} \/ TopoOrders(g) = {} THEN <<>>
        ELSE [d \in 1..(deep + 1) |-> {n \in Nodes(g) : dist[n] = d - 1}]
=============================================================================
