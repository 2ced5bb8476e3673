------------------------- MODULE LineageGraphProofs -------------------------
(***************************************************************************)
(* Facts about the values and operations of LineageGraph: reachability,    *)
(* the types of the operations, and that each of them keeps a DAG a DAG.   *)
(***************************************************************************)
EXTENDS LineageGraph, Sequences, FiniteSetTheorems, TLAPS, WellFoundedInduction

(* A node reaches itself.                                                  *)
LEMMA ReachesReflexive ==
    ASSUME NEW g, NEW n \in Node
    PROVE  Reaches(g, n, n)
BY DEF Reaches

(* What is reached is reached one edge further.                            *)
LEMMA ReachesStep ==
    ASSUME NEW g, NEW k \in Node, NEW m \in Node, NEW n \in Node,
           Reaches(g, k, m), HasEdge(g, m, n)
    PROVE  Reaches(g, k, n)
BY DEF Reaches, Closed

(* A closed set that contains the source and not the target is a proof     *)
(* that the target is not reached.                                         *)
LEMMA ClosedSeparates ==
    ASSUME NEW g, NEW k, NEW n, NEW S \in SUBSET Node,
           k \in S, n \notin S, Closed(g, S)
    PROVE  ~Reaches(g, k, n)
BY DEF Reaches

(* More edges reach further.                                               *)
LEMMA MoreEdgesReach ==
    ASSUME NEW g, NEW h, NEW k, NEW n, Reaches(g, k, n),
           \A a, b \in Node : HasEdge(g, a, b) => HasEdge(h, a, b)
    PROVE  Reaches(h, k, n)
BY DEF Reaches, Closed

(* A non-empty set of numbers has a least member.                          *)
LEMMA LeastExists ==
    ASSUME NEW T \in SUBSET Nat, T # {}
    PROVE  \E n \in T : \A m \in T : n <= m
<1> DEFINE Less == {p \in Nat \X Nat : p[1] < p[2]}
<1>1. IsWellFoundedOn(Less, Nat)
    BY NatLessThanWellFounded, Zenon DEF OpToRel
<1> HIDE DEF Less
<1>2. PICK n \in T : \A m \in T : ~(<<m, n>> \in Less)
    BY <1>1, WFMin
<1>3. \A m \in T : ~(m < n)
    BY <1>2 DEF Less
<1> QED
    BY <1>3

(* No path leads back along an edge of an acyclic graph: the nodes on the  *)
(* way back would each have a predecessor among them.                      *)
LEMMA NoWayBack ==
    ASSUME NEW g, Acyclic(g), NEW m \in Node, NEW n \in Node, HasEdge(g, m, n)
    PROVE  ~Reaches(g, n, m)
<1> SUFFICES ASSUME Reaches(g, n, m) PROVE FALSE
    OBVIOUS
<1> DEFINE R == {k \in Node : Reaches(g, n, k)}
           S == {k \in R : Reaches(g, k, m)}
<1>1. m \in S /\ n \in R
    BY ReachesReflexive
<1>2. ASSUME NEW k \in S PROVE \E j \in S : HasEdge(g, j, k)
    <2>1. CASE k = n
        BY <1>1, <2>1
    <2>2. CASE k # n
        <3>1. PICK j \in R \ {k} : HasEdge(g, j, k)
            <4> SUFFICES ASSUME \A j \in R \ {k} : ~HasEdge(g, j, k) PROVE FALSE
                OBVIOUS
            <4>1. Closed(g, R \ {k})
                BY ReachesStep DEF Closed
            <4> QED
                BY <1>1, <2>2, <4>1, ClosedSeparates
        <3>2. Reaches(g, j, m)
            BY <3>1 DEF Reaches, Closed
        <3> QED
            BY <3>1, <3>2
    <2> QED
        BY <2>1, <2>2
<1>3. S \in SUBSET Node
    OBVIOUS
<1> QED
    BY <1>1, <1>2, <1>3 DEF Acyclic

(* A node of an acyclic graph has no edge to itself.                       *)
LEMMA NoSelfLoop ==
    ASSUME NEW g, Acyclic(g), NEW n \in Node
    PROVE  ~HasEdge(g, n, n)
BY {n} \in SUBSET Node DEF Acyclic

-----------------------------------------------------------------------------
(* Every operation maps graphs to graphs.                                  *)

LEMMA EmptyGraphType == EmptyGraph \in Graphs
BY DEF EmptyGraph, Graphs

LEMMA PutNodeType ==
    ASSUME NEW g \in Graphs, NEW n \in Node, NEW a \in Attr
    PROVE  PutNode(g, n, a) \in Graphs
BY DEF PutNode, Graphs

LEMMA PutEdgeType ==
    ASSUME NEW g \in Graphs, NEW m \in Node, NEW n \in Node, NEW a \in EdgeAttr
    PROVE  PutEdge(g, m, n, a) \in Graphs
BY DEF PutEdge, Graphs

LEMMA DropEdgeType ==
    ASSUME NEW g \in Graphs, NEW m \in Node, NEW n \in Node
    PROVE  DropEdge(g, m, n) \in Graphs
BY DEF DropEdge, Graphs

LEMMA DropNodeType ==
    ASSUME NEW g \in Graphs, NEW id \in Node
    PROVE  DropNode(g, id) \in Graphs
BY DEF DropNode, Graphs

-----------------------------------------------------------------------------
(* What the operations do to the edges and the nodes.                      *)

LEMMA PutNodeEffect ==
    ASSUME NEW g \in Graphs, NEW k \in Node, NEW a \in Attr
    PROVE  /\ \A m, n \in Node : HasEdge(PutNode(g, k, a), m, n) <=> HasEdge(g, m, n)
           /\ \A n \in Node : HasNode(PutNode(g, k, a), n) <=> HasNode(g, n) \/ n = k
BY AttrAssumption DEF PutNode, HasEdge, HasNode, Graphs

LEMMA PutEdgeEffect ==
    ASSUME NEW g \in Graphs, NEW from \in Node, NEW to \in Node, NEW a \in EdgeAttr
    PROVE  /\ \A m, n \in Node : HasEdge(PutEdge(g, from, to, a), m, n) <=>
                                   HasEdge(g, m, n) \/ (m = from /\ n = to)
           /\ \A n \in Node : HasNode(PutEdge(g, from, to, a), n) <=> HasNode(g, n)
BY EdgeAttrAssumption DEF PutEdge, HasEdge, HasNode, Graphs

LEMMA DropEdgeEffect ==
    ASSUME NEW g \in Graphs, NEW from \in Node, NEW to \in Node
    PROVE  /\ \A m, n \in Node : HasEdge(DropEdge(g, from, to), m, n) <=>
                                   HasEdge(g, m, n) /\ ~(m = from /\ n = to)
           /\ \A n \in Node : HasNode(DropEdge(g, from, to), n) <=> HasNode(g, n)
BY DEF DropEdge, HasEdge, HasNode, Graphs

LEMMA DropNodeEffect ==
    ASSUME NEW g \in Graphs, NEW id \in Node
    PROVE  /\ \A m, n \in Node : HasEdge(DropNode(g, id), m, n) <=>
                                   HasEdge(g, m, n) /\ m # id /\ n # id
           /\ \A n \in Node : HasNode(DropNode(g, id), n) <=> HasNode(g, n) /\ n # id
BY DEF DropNode, HasEdge, HasNode, Graphs

(* Fewer edges make no cycle.                                              *)
LEMMA FewerEdgesAcyclic ==
    ASSUME NEW g, NEW h, Acyclic(g),
           \A m, n \in Node : HasEdge(h, m, n) => HasEdge(g, m, n)
    PROVE  Acyclic(h)
<1> SUFFICES ASSUME NEW S \in SUBSET Node, S # {}
             PROVE  \E n \in S : \A m \in S : ~HasEdge(h, m, n)
    BY DEF Acyclic
<1>1. PICK n \in S : \A m \in S : ~HasEdge(g, m, n)
    BY DEF Acyclic
<1> QED
    BY <1>1

(* The edge AddEdgeWithAttr inserts closes no cycle: the set of nodes that *)
(* `to` reaches does not contain `from`.  A set of nodes either leaves that *)
(* set, and then the part outside it has a first node, or lies inside it,  *)
(* and then the new edge is not between its members.                       *)
LEMMA PutEdgeAcyclic ==
    ASSUME NEW g \in Graphs, NEW from \in Node, NEW to \in Node, NEW a \in EdgeAttr,
           Acyclic(g), EdgeAllowed(g, from, to)
    PROVE  Acyclic(PutEdge(g, from, to, a))
<1> DEFINE h == PutEdge(g, from, to, a)
<1>1. PICK R \in SUBSET Node : to \in R /\ Closed(g, R) /\ from \notin R
    BY DEF EdgeAllowed, Reaches
<1>2. \A m, n \in Node : HasEdge(h, m, n) <=> HasEdge(g, m, n) \/ (m = from /\ n = to)
    BY PutEdgeEffect
<1> HIDE DEF h
<1> SUFFICES ASSUME NEW S \in SUBSET Node, S # {}
             PROVE  \E n \in S : \A m \in S : ~HasEdge(h, m, n)
    BY DEF Acyclic, h
<1>3. CASE S \ R # {}
    <2>1. PICK n \in S \ R : \A m \in S \ R : ~HasEdge(g, m, n)
        BY <1>3 DEF Acyclic
    <2>2. \A m \in S \cap R : ~HasEdge(g, m, n)
        BY <1>1, <2>1 DEF Closed
    <2> QED
        BY <1>1, <1>2, <2>1, <2>2
<1>4. CASE S \subseteq R
    <2>1. PICK n \in S : \A m \in S : ~HasEdge(g, m, n)
        BY DEF Acyclic
    <2> QED
        BY <1>1, <1>2, <1>4, <2>1
<1> QED
    BY <1>3, <1>4

-----------------------------------------------------------------------------
(* No operation of the graph, made under its guard, ends the invariant     *)
(* every consumer of a Graph relies on.                                    *)

LEMMA EmptyGraphDag == IsDag(EmptyGraph)
<1>1. \A m, n \in Node : ~HasEdge(EmptyGraph, m, n)
    BY DEF EmptyGraph, HasEdge
<1> QED
    BY <1>1 DEF IsDag, Acyclic, EndsPresent

LEMMA PutNodeDag ==
    ASSUME NEW g \in Graphs, NEW k \in Node, NEW a \in Attr, IsDag(g)
    PROVE  IsDag(PutNode(g, k, a))
<1>1. Acyclic(PutNode(g, k, a))
    BY PutNodeEffect, FewerEdgesAcyclic DEF IsDag
<1>2. EndsPresent(PutNode(g, k, a))
    BY PutNodeEffect DEF IsDag, EndsPresent
<1> QED
    BY <1>1, <1>2 DEF IsDag

LEMMA PutEdgeDag ==
    ASSUME NEW g \in Graphs, NEW from \in Node, NEW to \in Node, NEW a \in EdgeAttr,
           IsDag(g), EdgeAllowed(g, from, to)
    PROVE  IsDag(PutEdge(g, from, to, a))
<1>1. Acyclic(PutEdge(g, from, to, a))
    BY PutEdgeAcyclic DEF IsDag
<1>2. EndsPresent(PutEdge(g, from, to, a))
    BY PutEdgeEffect DEF IsDag, EndsPresent, EdgeAllowed
<1> QED
    BY <1>1, <1>2 DEF IsDag

LEMMA DropEdgeDag ==
    ASSUME NEW g \in Graphs, NEW from \in Node, NEW to \in Node, IsDag(g)
    PROVE  IsDag(DropEdge(g, from, to))
<1>1. Acyclic(DropEdge(g, from, to))
    BY DropEdgeEffect, FewerEdgesAcyclic DEF IsDag
<1>2. EndsPresent(DropEdge(g, from, to))
    BY DropEdgeEffect DEF IsDag, EndsPresent
<1> QED
    BY <1>1, <1>2 DEF IsDag

LEMMA DropNodeDag ==
    ASSUME NEW g \in Graphs, NEW id \in Node, IsDag(g)
    PROVE  IsDag(DropNode(g, id))
<1>1. Acyclic(DropNode(g, id))
    BY DropNodeEffect, FewerEdgesAcyclic DEF IsDag
<1>2. EndsPresent(DropNode(g, id))
    BY DropNodeEffect DEF IsDag, EndsPresent
<1> QED
    BY <1>1, <1>2 DEF IsDag

-----------------------------------------------------------------------------
(* Sorting.                                                                *)

(* A finite set in which every part has a first member can be listed.      *)
LEMMA ListingExists ==
    ASSUME NEW S, IsFiniteSet(S), NEW R,
           \A T \in SUBSET S : T # {} => \E x \in T : \A y \in T \ {x} : <<x, y>> \in R
    PROVE  \E s \in [1..Cardinality(S) -> S] :
               \A i, j \in 1..Cardinality(S) : i < j => <<s[i], s[j]>> \in R
<1> DEFINE Listing(T) == {s \in [1..Cardinality(T) -> T] :
               \A i, j \in 1..Cardinality(T) : i < j => <<s[i], s[j]>> \in R}
           Sizes == {k \in Nat : \E T \in SUBSET S : Cardinality(T) = k /\ Listing(T) = {}}
<1> SUFFICES ASSUME Listing(S) = {} PROVE FALSE
    OBVIOUS
<1>1. \A T \in SUBSET S : IsFiniteSet(T) /\ Cardinality(T) \in Nat
    BY FS_Subset, FS_CardinalityType
<1>2. PICK k \in Sizes : \A n \in Sizes : k <= n
    <2>1. Cardinality(S) \in Sizes
        BY <1>1
    <2> HIDE DEF Sizes
    <2>2. Sizes \in SUBSET Nat
        BY DEF Sizes
    <2> QED
        BY <2>1, <2>2, LeastExists
<1>3. PICK T \in SUBSET S : Cardinality(T) = k /\ Listing(T) = {}
    BY <1>2
<1>4. T # {}
    <2> SUFFICES ASSUME T = {} PROVE FALSE
        OBVIOUS
    <2>1. Cardinality(T) = 0
        BY FS_EmptySet
    <2>2. [i \in 1..0 |-> i] \in Listing(T)
        BY <2>1
    <2> QED
        BY <1>3, <2>2
<1>5. PICK x \in T : \A y \in T \ {x} : <<x, y>> \in R
    BY <1>4
<1>6. Cardinality(T \ {x}) = k - 1 /\ k - 1 \in Nat
    <2>1. Cardinality(T \ {x}) = k - 1
        BY <1>1, <1>3, FS_RemoveElement
    <2> QED
        BY <1>1, <2>1
<1>7. PICK r \in [1..(k - 1) -> T \ {x}] :
        \A i, j \in 1..(k - 1) : i < j => <<r[i], r[j]>> \in R
    <2>1. k - 1 \notin Sizes
        <3> HIDE DEF Sizes
        <3>1. k \in Nat
            BY <1>2 DEF Sizes
        <3> QED
            BY <1>2, <3>1
    <2>2. T \ {x} \in SUBSET S
        OBVIOUS
    <2>3. Listing(T \ {x}) # {}
        <3> HIDE DEF Listing
        <3> QED
            BY <1>6, <2>1, <2>2
    <2> QED
        BY <1>6, <2>3
<1> DEFINE s == [i \in 1..k |-> IF i = 1 THEN x ELSE r[i - 1]]
<1>8. k \in Nat /\ \A i \in 1..k : i = 1 \/ i - 1 \in 1..(k - 1)
    BY <1>6
<1>9. s \in [1..k -> T]
    BY <1>7, <1>8
<1>10. ASSUME NEW i \in 1..k, NEW j \in 1..k, i < j PROVE <<s[i], s[j]>> \in R
    <2>1. j - 1 \in 1..(k - 1) /\ s[j] = r[j - 1] /\ r[j - 1] \in T \ {x}
        BY <1>7, <1>8, <1>10
    <2>2. CASE i = 1
        BY <1>5, <2>1, <2>2
    <2>3. CASE i # 1
        <3>1. i - 1 \in 1..(k - 1) /\ i - 1 < j - 1 /\ s[i] = r[i - 1]
            BY <1>8, <1>10, <2>3
        <3> QED
            BY <1>7, <2>1, <3>1
    <2> QED
        BY <2>2, <2>3
<1> HIDE DEF s
<1> QED
    BY <1>3, <1>9, <1>10

(* A sequence that has every member of S once.                             *)
Lists(s, S) ==
    /\ s \in Seq(S)
    /\ \A x \in S : \E i \in 1..Len(s) : s[i] = x
    /\ \A i, j \in 1..Len(s) : s[i] = s[j] => i = j

(* A listing in a strict order has every member once.                      *)
LEMMA ListingIsComplete ==
    ASSUME NEW S, IsFiniteSet(S), NEW s \in [1..Cardinality(S) -> S],
           \A i, j \in 1..Cardinality(S) : i < j => s[i] # s[j]
    PROVE  Lists(s, S)
<1>1. Cardinality(S) \in Nat
    BY FS_CardinalityType
<1>2. \A i, j \in 1..Cardinality(S) : s[i] = s[j] => i = j
    BY <1>1
<1>3. s \in Injection(1..Cardinality(S), S)
    BY <1>2 DEF Injection, IsInjective
<1>4. Cardinality(1..Cardinality(S)) = Cardinality(S)
    BY <1>1, FS_Interval
<1>5. s \in Surjection(1..Cardinality(S), S)
    BY <1>3, <1>4, FS_Injection
<1>6. s \in Seq(S) /\ Len(s) = Cardinality(S)
    BY <1>1
<1>7. \A x \in S : \E i \in 1..Len(s) : s[i] = x
    BY <1>5, <1>6 DEF Surjection
<1> QED
    BY <1>2, <1>6, <1>7 DEF Lists

(* A set of nodes in ascending order.                                      *)
LEMMA MembersAscend ==
    ASSUME Node \subseteq Nat, IsFiniteSet(Node), NEW S \in SUBSET Node
    PROVE  /\ Lists(Ascending(S, <), S)
           /\ Len(Ascending(S, <)) = Cardinality(S) /\ Cardinality(S) \in Nat
<1> DEFINE R == {p \in Node \X Node : p[1] < p[2]}
           s == CHOOSE s \in [1..Cardinality(S) -> S] :
                    \A i, j \in 1..Cardinality(S) : i < j => s[i] < s[j]
<1>1. S \in SUBSET Node /\ IsFiniteSet(S) /\ Cardinality(S) \in Nat
    BY FS_Subset, FS_CardinalityType
<1>2. \A T \in SUBSET S : T # {} => \E x \in T : \A y \in T \ {x} : <<x, y>> \in R
    <2> SUFFICES ASSUME NEW T \in SUBSET S, T # {}
                 PROVE  \E x \in T : \A y \in T \ {x} : <<x, y>> \in R
        OBVIOUS
    <2>1. T \in SUBSET Nat
        BY <1>1
    <2>2. PICK x \in T : \A y \in T : x <= y
        BY <2>1, LeastExists
    <2> QED
        BY <1>1, <2>1, <2>2
<1>3. \E t \in [1..Cardinality(S) -> S] :
        \A i, j \in 1..Cardinality(S) : i < j => <<t[i], t[j]>> \in R
    <2> HIDE DEF R
    <2> QED
        BY <1>1, <1>2, ListingExists
<1>4. /\ s \in [1..Cardinality(S) -> S]
      /\ \A i, j \in 1..Cardinality(S) : i < j => s[i] < s[j]
    <2>1. \E t \in [1..Cardinality(S) -> S] :
            \A i, j \in 1..Cardinality(S) : i < j => t[i] < t[j]
        BY <1>1, <1>3
    <2> QED
        BY <2>1
<1>5. s = Ascending(S, <)
    BY DEF Ascending
<1> HIDE DEF s
<1>6. ASSUME NEW i \in 1..Cardinality(S), NEW j \in 1..Cardinality(S), i < j
      PROVE  s[i] # s[j]
    <2>1. s[i] \in Nat /\ s[i] < s[j]
        BY <1>1, <1>4, <1>6
    <2> QED
        BY <2>1
<1>7. Lists(s, S)
    BY <1>1, <1>4, <1>6, ListingIsComplete
<1>8. Len(s) = Cardinality(S)
    BY <1>1, <1>4
<1> QED
    BY <1>1, <1>5, <1>7, <1>8

(* Nodes() and Edges() return every node, and every edge, once.            *)
LEMMA NamesAscend ==
    ASSUME Node \subseteq Nat, IsFiniteSet(Node), NEW g
    PROVE  Lists(Ascending(Nodes(g), <), Nodes(g))
<1>1. Nodes(g) \in SUBSET Node
    BY DEF Nodes
<1> QED
    BY <1>1, MembersAscend

LEMMA PairsAscend ==
    ASSUME Node \subseteq Nat, IsFiniteSet(Node), NEW g
    PROVE  Lists(Ascending(EdgeSet(g), EdgeBefore), EdgeSet(g))
<1> DEFINE S == EdgeSet(g)
           R == {p \in (Node \X Node) \X (Node \X Node) : EdgeBefore(p[1], p[2])}
           s == CHOOSE s \in [1..Cardinality(S) -> S] :
                    \A i, j \in 1..Cardinality(S) : i < j => EdgeBefore(s[i], s[j])
<1>1. S \in SUBSET (Node \X Node) /\ IsFiniteSet(S) /\ Cardinality(S) \in Nat
    BY FS_Product, FS_Subset, FS_CardinalityType DEF EdgeSet
<1>2. \A T \in SUBSET S : T # {} => \E x \in T : \A y \in T \ {x} : <<x, y>> \in R
    <2> SUFFICES ASSUME NEW T \in SUBSET S, T # {}
                 PROVE  \E x \in T : \A y \in T \ {x} : <<x, y>> \in R
        OBVIOUS
    <2> DEFINE A == {e[1] : e \in T}
    <2>1. A \in SUBSET Nat /\ A # {}
        BY <1>1
    <2> HIDE DEF A
    <2>2. PICK a \in A : \A y \in A : a <= y
        BY <2>1, LeastExists
    <2> DEFINE B == {e[2] : e \in {e \in T : e[1] = a}}
    <2>3. B \in SUBSET Nat /\ B # {}
        BY <1>1 DEF A
    <2> HIDE DEF B
    <2>4. PICK b \in B : \A y \in B : b <= y
        BY <2>3, LeastExists
    <2>5. PICK x \in T : x[1] = a /\ x[2] = b
        BY <2>4 DEF B
    <2>6. ASSUME NEW y \in T \ {x} PROVE EdgeBefore(x, y)
        <3>1. x \in Node \X Node /\ y \in Node \X Node
            BY <1>1
        <3>2. a <= y[1]
            BY <2>2 DEF A
        <3>3. y[1] = a => b <= y[2]
            BY <2>4 DEF B
        <3>4. y[1] = a => y[2] # b
            BY <2>5, <2>6, <3>1
        <3>5. {a, b, y[1], y[2]} \subseteq Nat
            BY <2>1, <2>2, <2>3, <2>4, <3>1
        <3>6. a < y[1] \/ (a = y[1] /\ b < y[2])
            BY <3>2, <3>3, <3>4, <3>5
        <3> QED
            BY <2>5, <3>6 DEF EdgeBefore
    <2> QED
        BY <1>1, <2>6
<1>3. \E t \in [1..Cardinality(S) -> S] :
        \A i, j \in 1..Cardinality(S) : i < j => <<t[i], t[j]>> \in R
    <2> HIDE DEF S, R
    <2> QED
        BY <1>1, <1>2, ListingExists
<1>4. /\ s \in [1..Cardinality(S) -> S]
      /\ \A i, j \in 1..Cardinality(S) : i < j => EdgeBefore(s[i], s[j])
    <2> HIDE DEF S
    <2>1. \E t \in [1..Cardinality(S) -> S] :
            \A i, j \in 1..Cardinality(S) : i < j => EdgeBefore(t[i], t[j])
        BY <1>1, <1>3
    <2> QED
        BY <2>1
<1>5. s = Ascending(EdgeSet(g), EdgeBefore)
    BY DEF Ascending
<1> HIDE DEF S, s
<1>6. ASSUME NEW i \in 1..Cardinality(S), NEW j \in 1..Cardinality(S), i < j
      PROVE  s[i] # s[j]
    <2>1. s[i] \in Node \X Node /\ EdgeBefore(s[i], s[j])
        BY <1>1, <1>4, <1>6
    <2>2. s[i][1] \in Nat /\ s[i][2] \in Nat
        BY <2>1
    <2> QED
        BY <2>1, <2>2 DEF EdgeBefore
<1>7. Lists(s, S)
    BY <1>1, <1>4, <1>6, ListingIsComplete
<1> QED
    BY <1>5, <1>7 DEF S
=============================================================================
