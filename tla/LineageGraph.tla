---------------------------- MODULE LineageGraph ----------------------------
(***************************************************************************)
(* The value a graph.Graph holds and the effect of its operations on it    *)
(* (internal/graph/graph.go).  `nodes` is a map from ids to attributes and *)
(* `edges` a map of maps; here both are total functions in which Absent    *)
(* stands for a missing key, so an inner map emptied by a removal and one  *)
(* deleted from `edges` are the same value.  nodeOrder is not part of the  *)
(* value: it belongs to the object modelled in module Graph.               *)
(***************************************************************************)
EXTENDS Naturals, FiniteSets

CONSTANTS
    Node,      \* node ids
    Attr,      \* values of NodeAttr (layer and owner)
    NoAttr,    \* the zero value NodeAttr{}
    EdgeAttr,  \* values of EdgeAttr (transform and comment)
    Direct,    \* EdgeAttr{Transform: TransformDirect}
    Absent     \* a key that is not in the map

ASSUME AttrAssumption == NoAttr \in Attr /\ Absent \notin Attr
ASSUME EdgeAttrAssumption == Direct \in EdgeAttr /\ Absent \notin EdgeAttr

Graphs == [attr : [Node -> Attr \cup {Absent}],
           edge : [Node -> [Node -> EdgeAttr \cup {Absent}]]]

EmptyGraph == [attr |-> [n \in Node |-> Absent],
               edge |-> [m \in Node |-> [n \in Node |-> Absent]]]

HasNode(g, n) == g.attr[n] # Absent
HasEdge(g, m, n) == g.edge[m][n] # Absent

Nodes(g) == {n \in Node : HasNode(g, n)}
Successors(g, n) == {m \in Node : HasEdge(g, n, m)}
Predecessors(g, n) == {m \in Node : HasEdge(g, m, n)}
EdgeSet(g) == {e \in Node \X Node : HasEdge(g, e[1], e[2])}

(* Nodes() and Edges() list in ascending order, where ids are numbers that  *)
(* compare as the strings do (sort.Strings, sort.Slice).                   *)
EdgeBefore(e, f) == e[1] < f[1] \/ (e[1] = f[1] /\ e[2] < f[2])

Ascending(S, Before(_, _)) ==
    CHOOSE s \in [1..Cardinality(S) -> S] :
        \A i, j \in 1..Cardinality(S) : i < j => Before(s[i], s[j])

(* What IsValidTransform accepts; nothing in the graph itself asks it.     *)
ValidTransforms == {"direct", "filter", "aggregate", "join", "lookup", "union"}

-----------------------------------------------------------------------------
(* What the search loop `reaches` decides: target belongs to every set of  *)
(* nodes that contains from and is closed under the edges.                 *)

Closed(g, S) == \A m \in S, n \in Node : HasEdge(g, m, n) => n \in S

Reaches(g, from, target) ==
    \A S \in SUBSET Node : from \in S /\ Closed(g, S) => target \in S

(* A graph is acyclic when every non-empty set of nodes has a member with   *)
(* no predecessor inside the set.                                          *)
Acyclic(g) ==
    \A S \in SUBSET Node :
        S # {} => \E n \in S : \A m \in S : ~HasEdge(g, m, n)

(* Both ends of every edge are nodes of the graph.                         *)
EndsPresent(g) ==
    \A m, n \in Node : HasEdge(g, m, n) => HasNode(g, m) /\ HasNode(g, n)

(* The invariant every consumer of a Graph relies on.                      *)
IsDag(g) == Acyclic(g) /\ EndsPresent(g)

-----------------------------------------------------------------------------
(* The effect of the mutators, when their guards let them change anything. *)

PutNode(g, n, a) == [g EXCEPT !.attr[n] = a]

(* Defective variants (here and in the other modules): each is a slip that *)
(* is easy to make in the definition it precedes, and a property of the    *)
(* runs fails when it takes that definition's place.                       *)
EdgeAllowedUnchecked(g, from, to) ==
    HasNode(g, from) /\ HasNode(g, to) /\ from # to

EdgeAllowedReversed(g, from, to) ==
    /\ HasNode(g, from)
    /\ HasNode(g, to)
    /\ from # to
    /\ ~Reaches(g, from, to)

EdgeAllowed(g, from, to) ==
    /\ HasNode(g, from)
    /\ HasNode(g, to)
    /\ from # to
    /\ ~Reaches(g, to, from)

PutEdge(g, from, to, a) == [g EXCEPT !.edge[from][to] = a]

DropEdge(g, from, to) == [g EXCEPT !.edge[from][to] = Absent]

DropNode(g, id) ==
    [attr |-> [g.attr EXCEPT ![id] = Absent],
     edge |-> [m \in Node |-> [n \in Node |->
                 IF id \in {m, n} THEN Absent ELSE g.edge[m][n]]]]

(* The part of g induced by the nodes in keep.                             *)
Induced(g, keep) ==
    [attr |-> [n \in Node |-> IF n \in keep THEN g.attr[n] ELSE Absent],
     edge |-> [m \in Node |-> [n \in Node |->
                 IF {m, n} \subseteq keep THEN g.edge[m][n] ELSE Absent]]]
=============================================================================
