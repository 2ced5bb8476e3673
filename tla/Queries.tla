------------------------------ MODULE Queries ------------------------------
(***************************************************************************)
(* The read-only questions about a graph, put to it the way the command    *)
(* line and the server put them: one call, one answer.  The calls are the  *)
(* algorithms of modules Lineage (internal/lineage), Priority              *)
(* (internal/scheduler/priority.go) and Metrics (internal/metrics); the    *)
(* properties compare every answer with what the question means.           *)
(***************************************************************************)
EXTENDS Lineage, Priority, Metrics

CONSTANT Inputs    \* the graphs asked about

ASSUME InputsAssumption == \A g \in Inputs : g \in Graphs /\ IsDag(g)

VARIABLES graph, answer

vars == <<graph, answer>>

About(topic) == answer = [query |-> topic]

Answer(q, args, value) == answer' = [query |-> q, args |-> args, value |-> value]

Init == graph \in Inputs /\ About("question")

QueryDistance == \E src, dst \in Nodes(graph) :
    Answer("distance", <<src, dst>>, Distance(graph, src, dst))
QueryLongest == \E src, dst \in Nodes(graph) :
    Answer("longest", <<src, dst>>, LongestPath(graph, src, dst))
QueryPaths == \E src, dst \in Nodes(graph), cap \in 0..2 :
    Answer("paths", <<src, dst, cap>>, AllPaths(graph, src, dst, cap))
QueryCritical == Answer("critical", <<>>, CriticalPath(graph))
QueryLayers == Answer("layers", <<>>, LayerOrder(graph))

Weigh == \E strategy \in Strategies, n \in Nodes(graph) :
    Answer("key", <<strategy, n>>, Key(graph, strategy, n))
Estimate == Answer("estimate", <<>>, EstimateCriticalPathLength(graph))
Measure == Answer("metrics", <<>>, Compute(graph))

Next ==
    /\ About("question")
    /\ \/ QueryDistance \/ QueryLongest \/ QueryPaths \/ QueryCritical \/ QueryLayers
       \/ Weigh \/ Estimate \/ Measure
    /\ UNCHANGED graph

Spec == Init /\ [][Next]_vars

-----------------------------------------------------------------------------
(* Reference definitions: what the queries mean.                           *)

Descendants(n) == {m \in Nodes(graph) : m # n /\ Reaches(graph, n, m)}

SimplePaths(src, dst) ==
    {p \in UNION {[1..k -> Node] : k \in 1..Cardinality(Node)} :
        /\ p[1] = src /\ p[Len(p)] = dst /\ IsInjective(p)
        /\ \A i \in 1..(Len(p) - 1) : HasEdge(graph, p[i], p[i + 1])}

Lengths(src, dst) == {Len(p) - 1 : p \in SimplePaths(src, dst)}

(* AllPaths lists each simple path once, with a cap that many of them;     *)
(* Distance is the length of a shortest one and LongestPath of a longest   *)
(* one, -1 when there is none; CriticalPath returns a longest path of the  *)
(* graph and the estimate is its length.                                   *)
PathsAreExact ==
    LET paths   == SimplePaths(answer.args[1], answer.args[2])
        lengths == Lengths(answer.args[1], answer.args[2])
        all     == UNION {Lengths(m, n) : m, n \in Nodes(graph)}
        number  == Cardinality(paths)
    IN  /\ answer.query = "distance" =>
             answer.value = IF lengths = {} THEN -1 ELSE Min(lengths)
        /\ answer.query = "longest" =>
             answer.value = IF lengths = {} THEN -1 ELSE Max(lengths)
        /\ answer.query = "estimate" => answer.value = Max({0} \cup all)
        /\ answer.query = "critical" => \A k \in all : Len(answer.value) > k
        /\ answer.query = "paths" =>
             /\ IsInjective(answer.value)
             /\ ToSet(answer.value) \subseteq paths
             /\ Len(answer.value) = IF answer.args[3] = 0 THEN number ELSE Min({answer.args[3], number})

(* A node is in the first layer its predecessors allow.  Compute counts    *)
(* the classes of nodes joined by edges in whatever direction; its depth   *)
(* is the longest path and its width the size of the largest level below   *)
(* the roots, a level being the nodes whose longest path from above has    *)
(* the same length: roots themselves are never counted.  What a strategy   *)
(* sorts a node by is its longest path downwards or the number of its      *)
(* descendants.                                                            *)
MeasuresAreRight ==
    LET layer(n) == CHOOSE d \in DOMAIN answer.value : n \in answer.value[d]
        joined(S) == S # {} /\ \A m \in S, n \in Node :
                       HasEdge(graph, m, n) \/ HasEdge(graph, n, m) => n \in S
        classes   == {S \in SUBSET Nodes(graph) :
                        joined(S) /\ \A T \in SUBSET S : joined(T) => T = S}
        height(n) == Max(UNION {Lengths(m, n) : m \in Nodes(graph)})
        level(d)  == {n \in Nodes(graph) : height(n) = d}
        sizes     == {Cardinality(level(d)) : d \in 1..Cardinality(Node)}
    IN  /\ answer.query = "layers" =>
             /\ UNION {answer.value[d] : d \in DOMAIN answer.value} = Nodes(graph)
             /\ \A n \in Nodes(graph) :
                  layer(n) = Max({0} \cup {layer(m) : m \in Predecessors(graph, n)}) + 1
        /\ answer.query = "key" =>
             LET n == answer.args[2]
             IN  /\ answer.args[1] = "fan_out" => answer.value = Cardinality(Descendants(n))
                 /\ answer.args[1] = "critical_path" =>
                      answer.value = Max(UNION {Lengths(n, m) : m \in Nodes(graph)})
        /\ answer.query = "metrics" /\ Cardinality(Nodes(graph)) > 1 =>
             /\ answer.value.components = Cardinality(classes)
             /\ answer.value.width = Max(sizes)
             /\ answer.value.depth = Max({height(n) : n \in Nodes(graph)})
=============================================================================
