----------------------------- MODULE GraphProofs -----------------------------
(***************************************************************************)
(* For every finite set of nodes, every attributes and every length of the *)
(* calls' arguments: the object of module Graph stays a DAG, its nodeOrder *)
(* lists its nodes, its copies are faithful and its documents read back.   *)
(***************************************************************************)
EXTENDS Graph, LineageGraphProofs, SequenceTheorems

-----------------------------------------------------------------------------
(* Sorting.                                                                *)

(* Nodes() and Edges() list the keys of the two maps.                      *)
LEMMA NamesAreListed ==
    ASSUME IsFiniteSet(Node), NEW g
    PROVE  /\ Ascending(Nodes(g), <) \in Seq(Node)
           /\ IsInjective(Ascending(Nodes(g), <))
           /\ ToSet(Ascending(Nodes(g), <)) = Nodes(g)
<1>1. PICK s : s = Ascending(Nodes(g), <)
    OBVIOUS
<1>2. Lists(Ascending(Nodes(g), <), Nodes(g))
    BY NodeAssumption, NamesAscend
<1>3. Lists(s, Nodes(g)) /\ Nodes(g) \subseteq Node
    BY <1>1, <1>2, Zenon DEF Nodes
<1>4. s \in Seq(Node) /\ DOMAIN s = 1..Len(s)
    BY <1>3 DEF Lists
<1>5. IsInjective(s) /\ ToSet(s) = Nodes(g)
    BY <1>3, <1>4 DEF Lists, IsInjective, ToSet
<1> QED
    BY <1>1, <1>4, <1>5, Zenon

LEMMA PairsAreListed ==
    ASSUME IsFiniteSet(Node), NEW g
    PROVE  /\ Ascending(EdgeSet(g), EdgeBefore) \in Seq(Node \X Node)
           /\ ToSet(Ascending(EdgeSet(g), EdgeBefore)) = EdgeSet(g)
<1>1. PICK s : s = Ascending(EdgeSet(g), EdgeBefore)
    OBVIOUS
<1>2. Lists(Ascending(EdgeSet(g), EdgeBefore), EdgeSet(g))
    BY NodeAssumption, PairsAscend
<1>3. Lists(s, EdgeSet(g)) /\ EdgeSet(g) \subseteq Node \X Node
    BY <1>1, <1>2, Zenon DEF EdgeSet
<1>4. s \in Seq(Node \X Node) /\ DOMAIN s = 1..Len(s)
    BY <1>3 DEF Lists
<1>5. ToSet(s) = EdgeSet(g)
    BY <1>3, <1>4 DEF Lists, ToSet
<1> QED
    BY <1>1, <1>4, <1>5, Zenon

(* A non-empty set of positions has a last one.                            *)
LEMMA LastExists ==
    ASSUME NEW n \in Nat, NEW T \in SUBSET (1..n), T # {}
    PROVE  Max(T) \in T
<1> DEFINE U == {n - t : t \in T}
<1>1. \A t \in T : t \in Nat /\ n - t \in Nat
    OBVIOUS
<1>2. U \in SUBSET Nat /\ U # {}
    BY <1>1
<1> HIDE DEF U
<1>3. PICK u \in U : \A v \in U : u <= v
    BY <1>2, LeastExists
<1>4. PICK x \in T : u = n - x
    BY <1>3 DEF U
<1>5. \A y \in T : x >= y
    <2>1. \A y \in T : n - x <= n - y
        BY <1>3, <1>4 DEF U
    <2> QED
        BY <1>1, <2>1
<1> QED
    BY <1>4, <1>5 DEF Max

-----------------------------------------------------------------------------
(* Documents.                                                              *)

(* What UnmarshalJSON makes of a document: a node for every id listed, and *)
(* no edge without its ends.                                               *)
LEMMA DecodeType ==
    ASSUME NEW doc \in Documents
    PROVE  /\ Decode(doc) \in Graphs
           /\ Nodes(Decode(doc)) = Ids(doc)
           /\ EndsPresent(Decode(doc))
<1> DEFINE At(n) == {i \in DOMAIN doc.nodes : doc.nodes[i].id = n}
           AtEdge(m, n) == {i \in Loaded(doc) : doc.edges[i].from = m /\ doc.edges[i].to = n}
<1>1. /\ doc.nodes \in Seq([id : Node, attr : Attr])
      /\ doc.edges \in Seq([from : Node, to : Node, attr : EdgeAttr])
    BY DEF Documents
<1>2. ASSUME NEW n, At(n) # {} PROVE Max(At(n)) \in At(n)
    <2>1. At(n) \in SUBSET (1..Len(doc.nodes)) /\ Len(doc.nodes) \in Nat
        BY <1>1
    <2> HIDE DEF At
    <2> QED
        BY <1>2, <2>1, LastExists
<1>3. ASSUME NEW m, NEW n, AtEdge(m, n) # {} PROVE Max(AtEdge(m, n)) \in AtEdge(m, n)
    <2>1. AtEdge(m, n) \in SUBSET (1..Len(doc.edges)) /\ Len(doc.edges) \in Nat
        BY <1>1 DEF Loaded
    <2> HIDE DEF AtEdge
    <2> QED
        BY <1>3, <2>1, LastExists
<1>4. \A i \in DOMAIN doc.nodes : doc.nodes[i] \in [id : Node, attr : Attr]
    BY <1>1, ElementOfSeq, LenProperties
<1>5. \A i \in Loaded(doc) : doc.edges[i] \in [from : Node, to : Node, attr : EdgeAttr]
    BY <1>1, ElementOfSeq, LenProperties DEF Loaded
<1>6. ASSUME NEW n \in Node
      PROVE  /\ Decode(doc).attr[n] = IF At(n) = {} THEN Absent ELSE doc.nodes[Max(At(n))].attr
             /\ Decode(doc).attr[n] \in Attr \cup {Absent}
             /\ HasNode(Decode(doc), n) <=> n \in Ids(doc)
    <2>1. Decode(doc).attr[n] = IF At(n) = {} THEN Absent ELSE doc.nodes[Max(At(n))].attr
        BY DEF Decode
    <2>2. At(n) # {} => doc.nodes[Max(At(n))].attr \in Attr
        BY <1>2, <1>4
    <2>3. At(n) # {} <=> n \in Ids(doc)
        BY DEF Ids
    <2> HIDE DEF At
    <2> QED
        BY <2>1, <2>2, <2>3, AttrAssumption DEF HasNode
<1>7. ASSUME NEW m \in Node, NEW n \in Node
      PROVE  /\ Decode(doc).edge[m][n] \in EdgeAttr \cup {Absent}
             /\ HasEdge(Decode(doc), m, n) => {m, n} \subseteq Ids(doc)
    <2>1. Decode(doc).edge[m][n] =
            IF AtEdge(m, n) = {} THEN Absent ELSE doc.edges[Max(AtEdge(m, n))].attr
        BY DEF Decode
    <2>2. AtEdge(m, n) # {} => doc.edges[Max(AtEdge(m, n))].attr \in EdgeAttr
        <3>1. \A i \in AtEdge(m, n) : doc.edges[i].attr \in EdgeAttr
            BY <1>5
        <3> HIDE DEF AtEdge
        <3> QED
            BY <1>3, <3>1
    <2>3. AtEdge(m, n) # {} => {m, n} \subseteq Ids(doc)
        <3>1. ASSUME NEW i \in AtEdge(m, n) PROVE {m, n} \subseteq Ids(doc)
            <4>1. i \in 1..i
                BY <1>1 DEF Loaded
            <4> QED
                BY <4>1 DEF Loaded
        <3> QED
            BY <3>1
    <2> HIDE DEF AtEdge
    <2> QED
        BY <2>1, <2>2, <2>3 DEF HasEdge
<1>8. Decode(doc) \in Graphs
    BY <1>6, <1>7 DEF Decode, Graphs
<1>9. Ids(doc) \subseteq Node
    BY <1>4 DEF Ids
<1> QED
    BY <1>6, <1>7, <1>8, <1>9 DEF Nodes, EndsPresent

LEMMA MarshalType ==
    ASSUME IsFiniteSet(Node), NEW g \in Graphs
    PROVE  /\ MarshalJSON(g) \in Documents
           /\ Ids(MarshalJSON(g)) = Nodes(g)
           /\ [i \in DOMAIN MarshalJSON(g).nodes |-> MarshalJSON(g).nodes[i].id]
                = Ascending(Nodes(g), <)
<1> DEFINE names == Ascending(Nodes(g), <)
           pairs == Ascending(EdgeSet(g), EdgeBefore)
           nodes == [i \in DOMAIN names |-> [id |-> names[i], attr |-> g.attr[names[i]]]]
           edges == [i \in DOMAIN pairs |->
                       [from |-> pairs[i][1], to |-> pairs[i][2],
                        attr |-> g.edge[pairs[i][1]][pairs[i][2]]]]
<1>1. MarshalJSON(g) = [nodes |-> nodes, edges |-> edges]
    BY DEF MarshalJSON
<1>2. names \in Seq(Node) /\ ToSet(names) = Nodes(g)
    BY NamesAreListed
<1>3. pairs \in Seq(Node \X Node) /\ ToSet(pairs) = EdgeSet(g)
    BY PairsAreListed
<1> HIDE DEF names, pairs
<1>4. \A i \in DOMAIN names : names[i] \in Node /\ g.attr[names[i]] \in Attr
    BY <1>2 DEF ToSet, Nodes, HasNode, Graphs
<1>5. \A i \in DOMAIN pairs : pairs[i] \in Node \X Node
    BY <1>3
<1>6. \A i \in DOMAIN pairs : g.edge[pairs[i][1]][pairs[i][2]] \in EdgeAttr
    <2>1. \A i \in DOMAIN pairs : pairs[i] \in EdgeSet(g)
        BY <1>3 DEF ToSet
    <2> QED
        BY <1>5, <2>1 DEF EdgeSet, HasEdge, Graphs
<1>7. nodes \in Seq([id : Node, attr : Attr])
    <2>1. nodes \in [1..Len(names) -> [id : Node, attr : Attr]] /\ Len(names) \in Nat
        BY <1>2, <1>4
    <2> QED
        BY <2>1, SeqDef
<1>8. edges \in Seq([from : Node, to : Node, attr : EdgeAttr])
    <2>1. edges \in [1..Len(pairs) -> [from : Node, to : Node, attr : EdgeAttr]] /\ Len(pairs) \in Nat
        BY <1>3, <1>5, <1>6
    <2> QED
        BY <2>1, SeqDef
<1>9. MarshalJSON(g) \in Documents
    BY <1>1, <1>7, <1>8 DEF Documents
<1>10. Ids(MarshalJSON(g)) = Nodes(g)
    BY <1>1, <1>2 DEF Ids, ToSet
<1>11. DOMAIN names = 1..Len(names)
    BY <1>2
<1>12. [i \in DOMAIN nodes |-> nodes[i].id] = names
    BY <1>2, <1>11
<1>13. MarshalJSON(g).nodes = nodes
    BY <1>1
<1> HIDE DEF nodes
<1>14. [i \in DOMAIN MarshalJSON(g).nodes |-> MarshalJSON(g).nodes[i].id] = names
    BY <1>12, <1>13
<1> QED
    BY <1>9, <1>10, <1>14 DEF names

(* What MarshalJSON writes UnmarshalJSON reads back.                       *)
LEMMA RoundTrips ==
    ASSUME IsFiniteSet(Node), NEW g \in Graphs, EndsPresent(g)
    PROVE  Decode(MarshalJSON(g)) = g
<1> DEFINE doc == MarshalJSON(g)
           names == Ascending(Nodes(g), <)
           pairs == Ascending(EdgeSet(g), EdgeBefore)
           At(n) == {i \in DOMAIN doc.nodes : doc.nodes[i].id = n}
           AtEdge(m, n) == {i \in Loaded(doc) : doc.edges[i].from = m /\ doc.edges[i].to = n}
<1>1. /\ doc.nodes = [i \in DOMAIN names |-> [id |-> names[i], attr |-> g.attr[names[i]]]]
      /\ doc.edges = [i \in DOMAIN pairs |->
                       [from |-> pairs[i][1], to |-> pairs[i][2],
                        attr |-> g.edge[pairs[i][1]][pairs[i][2]]]]
    BY DEF MarshalJSON
<1>2. doc \in Documents /\ Ids(doc) = Nodes(g) /\ Decode(doc) \in Graphs
    BY MarshalType, DecodeType
<1>3. names \in Seq(Node) /\ ToSet(names) = Nodes(g)
    BY NamesAreListed
<1>4. pairs \in Seq(Node \X Node) /\ ToSet(pairs) = EdgeSet(g)
    BY PairsAreListed
<1>5. /\ Len(doc.nodes) \in Nat /\ DOMAIN doc.nodes = 1..Len(doc.nodes)
      /\ Len(doc.edges) \in Nat /\ DOMAIN doc.edges = 1..Len(doc.edges)
    BY <1>2 DEF Documents
<1> HIDE DEF doc, names, pairs
<1>6. Loaded(doc) = DOMAIN doc.edges
    <2>1. ASSUME NEW i \in DOMAIN doc.edges PROVE {doc.edges[i].from, doc.edges[i].to} \subseteq Ids(doc)
        <3>1. pairs[i] \in EdgeSet(g) /\ pairs[i] \in Node \X Node
            BY <1>1, <1>4, <2>1 DEF ToSet
        <3>2. HasNode(g, pairs[i][1]) /\ HasNode(g, pairs[i][2])
            BY <3>1 DEF EdgeSet, EndsPresent
        <3> QED
            BY <1>1, <1>2, <3>1, <3>2 DEF Nodes
    <2> QED
        BY <1>5, <2>1 DEF Loaded
<1>7. ASSUME NEW n \in Node PROVE Decode(doc).attr[n] = g.attr[n]
    <2>1. Decode(doc).attr[n] = IF At(n) = {} THEN Absent ELSE doc.nodes[Max(At(n))].attr
        BY DEF Decode
    <2>2. \A i \in At(n) : doc.nodes[i].attr = g.attr[n]
        BY <1>1
    <2>3. At(n) = {} => g.attr[n] = Absent
        BY <1>2 DEF Ids, Nodes, HasNode
    <2>4. At(n) \in SUBSET (1..Len(doc.nodes))
        BY <1>5
    <2> HIDE DEF At
    <2> QED
        BY <1>5, <2>1, <2>2, <2>3, <2>4, LastExists
<1>8. ASSUME NEW m \in Node, NEW n \in Node PROVE Decode(doc).edge[m][n] = g.edge[m][n]
    <2>1. Decode(doc).edge[m][n] =
            IF AtEdge(m, n) = {} THEN Absent ELSE doc.edges[Max(AtEdge(m, n))].attr
        BY DEF Decode
    <2>2. \A i \in AtEdge(m, n) : doc.edges[i].attr = g.edge[m][n]
        BY <1>1, <1>6
    <2>3. AtEdge(m, n) = {} => g.edge[m][n] = Absent
        <3> SUFFICES ASSUME g.edge[m][n] # Absent PROVE AtEdge(m, n) # {}
            OBVIOUS
        <3>1. <<m, n>> \in ToSet(pairs)
            BY <1>4 DEF EdgeSet, HasEdge
        <3>2. PICK i \in DOMAIN pairs : pairs[i] = <<m, n>>
            BY <3>1 DEF ToSet
        <3>3. i \in AtEdge(m, n)
            BY <1>1, <1>6, <3>2
        <3> QED
            BY <3>3
    <2>4. AtEdge(m, n) \in SUBSET (1..Len(doc.edges))
        BY <1>5, <1>6
    <2> HIDE DEF AtEdge
    <2> QED
        BY <1>5, <2>1, <2>2, <2>3, <2>4, LastExists
<1>9. Decode(doc) = g
    BY <1>2, <1>7, <1>8 DEF Graphs
<1> QED
    BY <1>9 DEF doc

-----------------------------------------------------------------------------
(* Enumerations.                                                           *)

LEMMA AppendEnumerates ==
    ASSUME NEW order \in Seq(Node), NEW S, NEW n \in Node, n \notin S, Enumerates(order, S)
    PROVE  /\ Append(order, n) \in Seq(Node)
           /\ Enumerates(Append(order, n), S \cup {n})
<1> DEFINE s == Append(order, n)
<1>1. /\ s \in Seq(Node) /\ Len(order) \in Nat /\ Len(s) = Len(order) + 1
      /\ DOMAIN s = 1..Len(s) /\ DOMAIN order = 1..Len(order)
      /\ \A i \in 1..Len(order) : s[i] = order[i]
      /\ s[Len(s)] = n
    OBVIOUS
<1> HIDE DEF s
<1>2. \A i \in DOMAIN s : i \in DOMAIN order \/ i = Len(s)
    BY <1>1
<1>3. \A i \in DOMAIN order : order[i] \in S
    BY DEF Enumerates, ToSet
<1>4. IsInjective(s)
    BY <1>1, <1>2, <1>3 DEF Enumerates, IsInjective
<1>5. ToSet(s) = S \cup {n}
    <2>1. \A x \in ToSet(s) : x \in S \cup {n}
        BY <1>1, <1>2, <1>3 DEF ToSet
    <2>2. \A x \in S : \E i \in DOMAIN order : order[i] = x
        BY DEF Enumerates, ToSet
    <2>3. \A i \in DOMAIN order : i \in DOMAIN s /\ s[i] = order[i]
        BY <1>1
    <2>4. Len(s) \in DOMAIN s
        BY <1>1
    <2> QED
        BY <1>1, <2>1, <2>2, <2>3, <2>4 DEF ToSet
<1> QED
    BY <1>1, <1>4, <1>5 DEF s, Enumerates

(* RemoveNode takes the only occurrence of the id out of the order.        *)
LEMMA RemoveEnumerates ==
    ASSUME NEW order \in Seq(Node), NEW S, NEW n \in S, Enumerates(order, S)
    PROVE  /\ RemoveFirst(order, n) \in Seq(Node)
           /\ Enumerates(RemoveFirst(order, n), S \ {n})
<1>1. /\ order \in [1..Len(order) -> Node] /\ Len(order) \in Nat
      /\ DOMAIN order = 1..Len(order)
    OBVIOUS
<1>2. PICK k \in 1..Len(order) : order[k] = n
    BY <1>1 DEF Enumerates, ToSet
<1>3. {i \in 1..Len(order) : order[i] = n} = {k}
    BY <1>1, <1>2 DEF Enumerates, IsInjective
<1>4. RemoveFirst(order, n) = RemoveAt(order, k)
    <2>1. Min({k}) = k
        BY <1>2 DEF Min
    <2>2. SelectInSeq(order, LAMBDA v : v = n) = k
        BY <1>3, <2>1 DEF SelectInSeq
    <2> QED
        BY <1>2, <2>2 DEF RemoveFirst
<1> DEFINE a == SubSeq(order, 1, k - 1)
           b == SubSeq(order, k + 1, Len(order))
           s == a \o b
<1>5. /\ a \in Seq(Node) /\ Len(a) = k - 1
      /\ \A i \in 1..(k - 1) : a[i] = order[i]
    BY <1>1, <1>2, SubSeqProperties
<1>6. /\ b \in Seq(Node) /\ Len(b) = Len(order) - k
      /\ \A i \in 1..(Len(order) - k) : b[i] = order[k + i]
    <2>1. k + 1 \in Int /\ Len(order) \in Int /\ \A i \in (k + 1)..Len(order) : order[i] \in Node
        BY <1>1, <1>2
    <2>2. /\ b \in Seq(Node)
          /\ Len(b) = IF k + 1 <= Len(order) THEN Len(order) - (k + 1) + 1 ELSE 0
          /\ \A i \in 1..(Len(order) - (k + 1) + 1) : b[i] = order[(k + 1) + i - 1]
        BY <2>1, SubSeqProperties
    <2> HIDE DEF b
    <2>3. Len(b) = Len(order) - k
        <3>1. k \in Nat /\ Len(order) \in Nat /\ k <= Len(order)
            BY <1>1, <1>2
        <3>2. CASE k + 1 <= Len(order)
            BY <2>2, <3>1, <3>2
        <3>3. CASE k = Len(order)
            BY <2>2, <3>1, <3>3
        <3> QED
            BY <3>1, <3>2, <3>3
    <2>4. ASSUME NEW i \in 1..(Len(order) - k) PROVE b[i] = order[k + i]
        <3>1. i \in 1..(Len(order) - (k + 1) + 1) /\ (k + 1) + i - 1 = k + i
            BY <1>1, <1>2
        <3> QED
            BY <2>2, <3>1
    <2> QED
        BY <2>2, <2>3, <2>4
<1> HIDE DEF a, b
<1>7. /\ s \in Seq(Node) /\ Len(s) = Len(order) - 1
      /\ \A i \in 1..(Len(order) - 1) : s[i] = IF i < k THEN order[i] ELSE order[i + 1]
    <2>1. s \in Seq(Node) /\ Len(s) = Len(order) - 1
        <3>1. s \in Seq(Node) /\ Len(s) = Len(a) + Len(b)
            BY <1>5, <1>6, ConcatProperties
        <3> QED
            BY <1>1, <1>2, <1>5, <1>6, <3>1
    <2>2. ASSUME NEW i \in 1..(Len(order) - 1)
          PROVE  s[i] = IF i < k THEN order[i] ELSE order[i + 1]
        <3>1. s[i] = IF i <= k - 1 THEN a[i] ELSE b[i - (k - 1)]
            BY <1>1, <1>2, <1>5, <1>6, ConcatProperties
        <3> QED
            BY <1>1, <1>2, <1>5, <1>6, <3>1
    <2> QED
        BY <2>1, <2>2
<1>8. s = RemoveFirst(order, n)
    BY <1>4 DEF RemoveAt, a, b
<1> HIDE DEF s
<1>9. DOMAIN s = 1..(Len(order) - 1)
    BY <1>7
<1>10. IsInjective(s)
    <2> SUFFICES ASSUME NEW i \in DOMAIN s, NEW j \in DOMAIN s, s[i] = s[j] PROVE i = j
        BY DEF IsInjective
    <2>1. \A p, q \in 1..Len(order) : order[p] = order[q] => p = q
        BY <1>1 DEF Enumerates, IsInjective
    <2> QED
        BY <1>1, <1>2, <1>7, <1>9, <2>1
<1>11. ToSet(s) = S \ {n}
    <2>1. \A p \in 1..Len(order) : order[p] = n => p = k
        BY <1>3
    <2>2. \A i \in DOMAIN s : s[i] \in S \ {n}
        BY <1>1, <1>2, <1>7, <1>9, <2>1 DEF Enumerates, ToSet
    <2>3. ASSUME NEW x \in S \ {n} PROVE \E i \in DOMAIN s : s[i] = x
        <3>1. PICK p \in 1..Len(order) : order[p] = x
            BY <1>1 DEF Enumerates, ToSet
        <3>2. CASE p < k
            BY <1>1, <1>2, <1>7, <1>9, <3>1, <3>2
        <3>3. CASE p > k
            <4>1. p - 1 \in DOMAIN s /\ ~(p - 1 < k) /\ (p - 1) + 1 = p
                BY <1>1, <1>2, <1>9, <3>3
            <4> QED
                BY <1>7, <1>9, <3>1, <4>1
        <3> QED
            BY <1>2, <3>1, <3>2, <3>3
    <2> QED
        BY <2>2, <2>3 DEF ToSet
<1> QED
    BY <1>7, <1>8, <1>10, <1>11 DEF Enumerates

-----------------------------------------------------------------------------
(* The inductive invariant.  While a copy is made, what it holds and what  *)
(* its loop has still to read make up the part that was asked for.         *)

InNodeLoop == pc \in {"clone", "subgraph"}

NodesSoFar ==
    InNodeLoop =>
        /\ asked = Nodes(copy) \cup (Nodes(graph) \cap ToSet(ids))
        /\ \A n \in Nodes(copy) : copy.attr[n] = graph.attr[n]
        /\ copy.edge = EmptyGraph.edge
        /\ pc = "clone" => asked = Nodes(graph) /\ ToSet(ids) \subseteq Nodes(graph)

EdgesSoFar ==
    pc = "edges" =>
        /\ \A e \in todo : HasEdge(graph, e[1], e[2]) /\ {e[1], e[2]} \subseteq asked
        /\ copy.attr = Induced(graph, asked).attr
        /\ \A m, n \in Node :
             copy.edge[m][n] = IF <<m, n>> \in todo THEN Absent
                               ELSE Induced(graph, asked).edge[m][n]

GraphInvariant ==
    /\ TypeOK
    /\ IsDag(graph)
    /\ OrderListsNodes
    /\ pc # "panicked"
    /\ pc = "idle" => copy = EmptyGraph /\ copyOrder = <<>> /\ asked = {}
    /\ asked \subseteq Nodes(graph)
    /\ NodesSoFar
    /\ EdgesSoFar
    /\ CopyIsInduced

(* What the documents a caller hands over must be: the code looks neither  *)
(* for cycles nor for repeated ids.                                        *)
IdsOf(doc) == [i \in DOMAIN doc.nodes |-> doc.nodes[i].id]

ProperDocs == \A doc \in Docs : IsDag(Decode(doc)) /\ IsInjective(IdsOf(doc))

-----------------------------------------------------------------------------
(* The mutators: no copy is in progress, so they only have to keep a DAG   *)
(* and its order.                                                          *)
LEMMA MutatorKeeps ==
    ASSUME GraphInvariant, Mutator,
           graph' \in Graphs, IsDag(graph'),
           nodeOrder' \in Seq(Node), Enumerates(nodeOrder', Nodes(graph'))
    PROVE  GraphInvariant'
<1>1. pc = "idle" /\ pc' = "idle" /\ UNCHANGED copying
    BY DEF Mutator
<1>2. copy' = EmptyGraph /\ copyOrder' = <<>> /\ asked' = {}
    BY <1>1 DEF GraphInvariant, copying
<1> QED
    BY <1>1, <1>2
    DEF GraphInvariant, TypeOK, OrderListsNodes, NodesSoFar, InNodeLoop, EdgesSoFar,
        CopyIsInduced, copying

(* The mutators, one by one.                                               *)
LEMMA MutatorSteps ==
    ASSUME IsFiniteSet(Node), ProperDocs, GraphInvariant
    PROVE  /\ \A id \in Node : AddNode(id) => GraphInvariant'
           /\ \A id \in Node, a \in Attr : AddNodeWithAttr(id, a) => GraphInvariant'
           /\ \A id \in Node, a \in Attr : SetNodeAttr(id, a) => GraphInvariant'
           /\ \A m, n \in Node, a \in EdgeAttr : AddEdgeWithAttr(m, n, a) => GraphInvariant'
           /\ \A m, n \in Node : RemoveEdge(m, n) => GraphInvariant'
           /\ \A id \in Node : RemoveNode(id) => GraphInvariant'
           /\ \A doc \in Docs : UnmarshalJSON(doc) => GraphInvariant'
           /\ UnmarshalJSON(MarshalJSON(graph)) => GraphInvariant'
<1>1. /\ graph \in Graphs /\ IsDag(graph)
      /\ nodeOrder \in Seq(Node) /\ Enumerates(nodeOrder, Nodes(graph))
    BY DEF GraphInvariant, TypeOK, OrderListsNodes
<1>2. ASSUME NEW id \in Node, NEW a \in Attr
      PROVE  /\ PutNode(graph, id, a) \in Graphs /\ IsDag(PutNode(graph, id, a))
             /\ Nodes(PutNode(graph, id, a)) = Nodes(graph) \cup {id}
    <2>1. Nodes(PutNode(graph, id, a)) = Nodes(graph) \cup {id}
        BY <1>1, PutNodeEffect DEF Nodes
    <2> QED
        BY <1>1, <2>1, PutNodeType, PutNodeDag
<1>3. ASSUME NEW id \in Node, ~HasNode(graph, id)
      PROVE  /\ Append(nodeOrder, id) \in Seq(Node)
             /\ Enumerates(Append(nodeOrder, id), Nodes(graph) \cup {id})
    BY <1>1, <1>3, AppendEnumerates DEF Nodes
<1>4. \A id \in Node : HasNode(graph, id) => Nodes(graph) \cup {id} = Nodes(graph)
    BY DEF Nodes
<1>5. ASSUME NEW id \in Node, AddNode(id) PROVE GraphInvariant'
    BY <1>2, <1>3, <1>5, AttrAssumption, MutatorKeeps DEF AddNode
<1>6. ASSUME NEW id \in Node, NEW a \in Attr, AddNodeWithAttr(id, a) PROVE GraphInvariant'
    <2>1. graph' = PutNode(graph, id, a) /\ Mutator
        BY <1>6 DEF AddNodeWithAttr
    <2>2. nodeOrder' \in Seq(Node) /\ Enumerates(nodeOrder', Nodes(graph) \cup {id})
        BY <1>1, <1>3, <1>4, <1>6 DEF AddNodeWithAttr
    <2> QED
        BY <1>2, <2>1, <2>2, MutatorKeeps
<1>7. ASSUME NEW id \in Node, NEW a \in Attr, SetNodeAttr(id, a) PROVE GraphInvariant'
    BY <1>1, <1>2, <1>4, <1>7, MutatorKeeps DEF SetNodeAttr
<1>8. ASSUME NEW m \in Node, NEW n \in Node, NEW a \in EdgeAttr, AddEdgeWithAttr(m, n, a)
      PROVE  GraphInvariant'
    <2>1. graph' \in Graphs /\ IsDag(graph') /\ Mutator /\ nodeOrder' = nodeOrder
        BY <1>1, <1>8, PutEdgeType, PutEdgeDag DEF AddEdgeWithAttr
    <2>2. Nodes(graph') = Nodes(graph)
        BY <1>1, <1>8, PutEdgeEffect DEF AddEdgeWithAttr, Nodes
    <2> QED
        BY <1>1, <2>1, <2>2, MutatorKeeps
<1>9. ASSUME NEW m \in Node, NEW n \in Node, RemoveEdge(m, n) PROVE GraphInvariant'
    <2>1. graph' \in Graphs /\ IsDag(graph') /\ Mutator /\ nodeOrder' = nodeOrder
        BY <1>1, <1>9, DropEdgeType, DropEdgeDag DEF RemoveEdge
    <2>2. Nodes(graph') = Nodes(graph)
        BY <1>1, <1>9, DropEdgeEffect DEF RemoveEdge, Nodes
    <2> QED
        BY <1>1, <2>1, <2>2, MutatorKeeps
<1>10. ASSUME NEW id \in Node, RemoveNode(id) PROVE GraphInvariant'
    <2>1. graph' \in Graphs /\ IsDag(graph') /\ Mutator
        BY <1>1, <1>10, DropNodeType, DropNodeDag DEF RemoveNode
    <2>2. Nodes(graph') = Nodes(graph) \ {id} /\ id \in Nodes(graph)
        BY <1>1, <1>10, DropNodeEffect DEF RemoveNode, Nodes
    <2>3. nodeOrder' \in Seq(Node) /\ Enumerates(nodeOrder', Nodes(graph) \ {id})
        BY <1>1, <1>10, <2>2, RemoveEnumerates DEF RemoveNode
    <2> QED
        BY <2>1, <2>2, <2>3, MutatorKeeps
<1>11. ASSUME NEW doc \in Documents, IsDag(Decode(doc)), IsInjective(IdsOf(doc)),
              UnmarshalJSON(doc)
       PROVE  GraphInvariant'
    <2>1. Decode(doc) \in Graphs /\ Nodes(Decode(doc)) = Ids(doc)
        BY DecodeType
    <2>2. doc.nodes \in Seq([id : Node, attr : Attr])
        BY DEF Documents
    <2>3. /\ Len(doc.nodes) \in Nat /\ DOMAIN doc.nodes = 1..Len(doc.nodes)
          /\ \A i \in 1..Len(doc.nodes) : doc.nodes[i].id \in Node
        <3>1. Len(doc.nodes) \in Nat /\ DOMAIN doc.nodes = 1..Len(doc.nodes)
            BY <2>2, LenProperties
        <3>2. \A i \in 1..Len(doc.nodes) : doc.nodes[i] \in [id : Node, attr : Attr]
            BY <2>2, ElementOfSeq
        <3> QED
            BY <3>1, <3>2
    <2>4. IdsOf(doc) \in Seq(Node)
        BY <2>3, SeqDef DEF IdsOf
    <2>5. ToSet(IdsOf(doc)) = Ids(doc)
        BY DEF IdsOf, Ids, ToSet
    <2>6. graph' = Decode(doc) /\ nodeOrder' = IdsOf(doc) /\ Mutator
        BY <1>11 DEF UnmarshalJSON, IdsOf
    <2> QED
        BY <1>11, <2>1, <2>4, <2>5, <2>6, MutatorKeeps DEF Enumerates
<1>12. ASSUME NEW doc \in Docs, UnmarshalJSON(doc) PROVE GraphInvariant'
    BY <1>11, <1>12, DocsAssumption DEF ProperDocs
<1>13. ASSUME UnmarshalJSON(MarshalJSON(graph)) PROVE GraphInvariant'
    <2>1. MarshalJSON(graph) \in Documents
        BY <1>1, MarshalType
    <2>2. Decode(MarshalJSON(graph)) = graph
        BY <1>1, RoundTrips DEF IsDag
    <2>3. IsInjective(IdsOf(MarshalJSON(graph)))
        <3>1. IdsOf(MarshalJSON(graph)) = Ascending(Nodes(graph), <)
            BY <1>1, MarshalType, Zenon DEF IdsOf
        <3> QED
            BY <3>1, NamesAreListed, Zenon
    <2> QED
        BY <1>1, <1>11, <1>13, <2>1, <2>2, <2>3
<1> QED
    BY <1>5, <1>6, <1>7, <1>8, <1>9, <1>10, <1>12, <1>13

-----------------------------------------------------------------------------
(* The node loop.                                                          *)

LEMMA HeadAndTail ==
    ASSUME NEW s \in Seq(Node), s # <<>>
    PROVE  /\ Head(s) \in Node /\ Tail(s) \in Seq(Node)
           /\ ToSet(s) = {Head(s)} \cup ToSet(Tail(s))
<1>1. /\ Len(s) \in Nat \ {0} /\ DOMAIN s = 1..Len(s) /\ Head(s) = s[1]
      /\ Head(s) \in Node
    OBVIOUS
<1>2. /\ Tail(s) \in Seq(Node) /\ DOMAIN Tail(s) = 1..(Len(s) - 1)
      /\ \A i \in 1..(Len(s) - 1) : Tail(s)[i] = s[i + 1]
    BY HeadTailProperties, LenProperties
<1>3. \A i \in DOMAIN s : i = 1 \/ (i - 1 \in DOMAIN Tail(s) /\ s[i] = Tail(s)[i - 1])
    BY <1>1, <1>2
<1>4. 1 \in DOMAIN s /\ \A i \in DOMAIN Tail(s) : i + 1 \in DOMAIN s /\ Tail(s)[i] = s[i + 1]
    BY <1>1, <1>2
<1>5. ToSet(s) \subseteq {Head(s)} \cup ToSet(Tail(s))
    <2> SUFFICES ASSUME NEW i \in DOMAIN s, i # 1
                 PROVE  s[i] \in ToSet(Tail(s))
        BY <1>1 DEF ToSet
    <2> QED
        BY <1>3 DEF ToSet
<1>6. Head(s) \in ToSet(s)
    BY <1>1, <1>4 DEF ToSet
<1>7. ToSet(Tail(s)) \subseteq ToSet(s)
    BY <1>4 DEF ToSet
<1> QED
    BY <1>1, <1>2, <1>5, <1>6, <1>7

LEMMA StartSteps ==
    ASSUME GraphInvariant
    PROVE  /\ Clone => GraphInvariant'
           /\ \A nodeIDs \in Seq(Node) : SubGraph(nodeIDs) => GraphInvariant'
<1>1. /\ Nodes(EmptyGraph) = {} /\ Nodes(graph) \subseteq Node
      /\ ToSet(nodeOrder) = Nodes(graph)
    BY DEF Nodes, HasNode, EmptyGraph, GraphInvariant, OrderListsNodes, Enumerates
<1>2. ASSUME Clone PROVE GraphInvariant'
    BY <1>1, <1>2
    DEF Clone, object, GraphInvariant, TypeOK, OrderListsNodes, NodesSoFar, InNodeLoop,
        EdgesSoFar, CopyIsInduced
<1>3. ASSUME NEW nodeIDs \in Seq(Node), SubGraph(nodeIDs) PROVE GraphInvariant'
    BY <1>1, <1>3
    DEF SubGraph, object, GraphInvariant, TypeOK, OrderListsNodes, NodesSoFar, InNodeLoop,
        EdgesSoFar, CopyIsInduced
<1> QED
    BY <1>2, <1>3

LEMMA CopyNodeStep ==
    ASSUME GraphInvariant, CopyNode
    PROVE  GraphInvariant'
<1> DEFINE n == Head(ids)
<1>1. /\ n \in Node /\ Tail(ids) \in Seq(Node) /\ ToSet(ids) = {n} \cup ToSet(Tail(ids))
    BY HeadAndTail DEF CopyNode, GraphInvariant, TypeOK
<1>2. /\ graph \in Graphs /\ copy \in Graphs /\ HasNode(graph, n) /\ graph.attr[n] \in Attr
      /\ copy' = PutNode(copy, n, graph.attr[n])
    BY <1>1 DEF CopyNode, GraphInvariant, TypeOK, HasNode, Graphs
<1>3. /\ UNCHANGED <<graph, nodeOrder, pc, asked, todo>> /\ ids' = Tail(ids)
      /\ pc \in {"clone", "subgraph"}
    BY DEF CopyNode, object
<1>4. copy' \in Graphs /\ Nodes(copy') = Nodes(copy) \cup {n}
    BY <1>1, <1>2, PutNodeType, PutNodeEffect DEF Nodes
<1>5. copyOrder' \in Seq(Node) /\ Enumerates(copyOrder', Nodes(copy'))
    <2>1. copyOrder \in Seq(Node) /\ Enumerates(copyOrder, Nodes(copy))
        BY DEF GraphInvariant, TypeOK, OrderListsNodes
    <2>2. CASE HasNode(copy, n)
        <3>1. Nodes(copy') = Nodes(copy) /\ copyOrder' = copyOrder
            BY <1>1, <1>4, <2>2 DEF Nodes, CopyNode
        <3> QED
            BY <2>1, <3>1
    <2>3. CASE ~HasNode(copy, n)
        <3>1. n \notin Nodes(copy) /\ copyOrder' = Append(copyOrder, n)
            BY <2>3 DEF Nodes, CopyNode
        <3> QED
            BY <1>1, <1>4, <2>1, <3>1, AppendEnumerates
    <2> QED
        BY <2>2, <2>3
<1>6. TypeOK' /\ OrderListsNodes'
    BY <1>1, <1>3, <1>4, <1>5 DEF GraphInvariant, TypeOK, OrderListsNodes
<1>7. NodesSoFar'
    <2>1. /\ asked = Nodes(copy) \cup (Nodes(graph) \cap ToSet(ids))
          /\ \A k \in Nodes(copy) : copy.attr[k] = graph.attr[k]
          /\ copy.edge = EmptyGraph.edge
          /\ pc = "clone" => asked = Nodes(graph) /\ ToSet(ids) \subseteq Nodes(graph)
        BY <1>3 DEF GraphInvariant, NodesSoFar, InNodeLoop
    <2>2. n \in Nodes(graph)
        BY <1>1, <1>2 DEF Nodes
    <2>3. /\ copy'.edge = copy.edge
          /\ \A k \in Node : copy'.attr[k] = IF k = n THEN graph.attr[n] ELSE copy.attr[k]
        BY <1>1, <1>2 DEF PutNode, Graphs
    <2>4. \A k \in Nodes(copy') : copy'.attr[k] = graph.attr[k]
        BY <1>4, <2>1, <2>3 DEF Nodes
    <2>5. asked = Nodes(copy') \cup (Nodes(graph) \cap ToSet(ids'))
        BY <1>1, <1>3, <1>4, <2>1, <2>2
    <2> QED
        BY <1>1, <1>3, <2>1, <2>3, <2>4, <2>5 DEF NodesSoFar, InNodeLoop
<1> QED
    BY <1>3, <1>6, <1>7 DEF GraphInvariant, EdgesSoFar, CopyIsInduced

LEMMA UnknownNodeStep ==
    ASSUME GraphInvariant, UnknownNode
    PROVE  GraphInvariant'
<1>1. /\ Head(ids) \in Node /\ Tail(ids) \in Seq(Node)
      /\ ToSet(ids) = {Head(ids)} \cup ToSet(Tail(ids))
    BY HeadAndTail DEF UnknownNode, GraphInvariant, TypeOK
<1>2. Head(ids) \notin Nodes(graph)
    BY DEF UnknownNode, Nodes
<1>3. pc = "subgraph" /\ pc' = "subgraph"
    BY <1>1, <1>2 DEF UnknownNode, GraphInvariant, NodesSoFar, InNodeLoop
<1> QED
    BY <1>1, <1>2, <1>3
    DEF UnknownNode, object, GraphInvariant, TypeOK, OrderListsNodes, NodesSoFar,
        InNodeLoop, EdgesSoFar, CopyIsInduced

LEMMA NodesCopiedStep ==
    ASSUME GraphInvariant, NodesCopied
    PROVE  GraphInvariant'
<1>1. /\ graph \in Graphs /\ copy \in Graphs /\ EndsPresent(graph)
      /\ asked \subseteq Nodes(graph) /\ Nodes(graph) \subseteq Node
    BY DEF GraphInvariant, TypeOK, IsDag, Nodes
<1>2. /\ asked = Nodes(copy)
      /\ \A n \in Nodes(copy) : copy.attr[n] = graph.attr[n]
      /\ copy.edge = EmptyGraph.edge
      /\ pc = "clone" => asked = Nodes(graph)
    <2>1. ToSet(ids) = {}
        BY DEF NodesCopied, ToSet
    <2> QED
        BY <2>1 DEF NodesCopied, GraphInvariant, NodesSoFar, InNodeLoop
<1>3. /\ UNCHANGED <<graph, nodeOrder, copy, copyOrder, asked, ids>> /\ pc' = "edges"
    BY DEF NodesCopied, object
<1>4. todo' = {e \in EdgeSet(graph) : {e[1], e[2]} \subseteq asked}
    <2>1. \A e \in EdgeSet(graph) : {e[1], e[2]} \subseteq Nodes(graph)
        BY DEF GraphInvariant, IsDag, EndsPresent, EdgeSet, Nodes
    <2> QED
        BY <1>2, <2>1 DEF NodesCopied
<1>5. copy.attr = Induced(graph, asked).attr
    <2>1. \A n \in Node : copy.attr[n] = IF n \in asked THEN graph.attr[n] ELSE Absent
        BY <1>2 DEF Nodes, HasNode
    <2> QED
        BY <1>1, <2>1 DEF Induced, Graphs
<1>6. ASSUME NEW m \in Node, NEW n \in Node
      PROVE  copy.edge[m][n] = IF <<m, n>> \in todo' THEN Absent
                               ELSE Induced(graph, asked).edge[m][n]
    <2>1. copy.edge[m][n] = Absent
        BY <1>2 DEF EmptyGraph
    <2>2. Induced(graph, asked).edge[m][n] = IF {m, n} \subseteq asked THEN graph.edge[m][n] ELSE Absent
        BY DEF Induced
    <2>3. <<m, n>> \in todo' <=> HasEdge(graph, m, n) /\ {m, n} \subseteq asked
        BY <1>4 DEF EdgeSet
    <2> QED
        BY <2>1, <2>2, <2>3 DEF HasEdge
<1>7. TypeOK'
    BY <1>3, <1>4 DEF GraphInvariant, TypeOK, EdgeSet
<1>8. EdgesSoFar'
    <2>1. \A e \in todo' : HasEdge(graph, e[1], e[2]) /\ {e[1], e[2]} \subseteq asked
        BY <1>4 DEF EdgeSet
    <2> QED
        BY <1>3, <1>5, <1>6, <2>1 DEF EdgesSoFar
<1> QED
    BY <1>3, <1>7, <1>8 DEF GraphInvariant, OrderListsNodes, NodesSoFar, InNodeLoop, CopyIsInduced

-----------------------------------------------------------------------------
(* The edge loop.                                                          *)

(* Whatever the loop has reached, the copy has no edge the source has not, *)
(* and every node it was asked for.                                        *)
LEMMA CopyIsPart ==
    ASSUME GraphInvariant
    PROVE  /\ \A m, n \in Node : HasEdge(copy, m, n) => HasEdge(graph, m, n)
           /\ EndsPresent(copy)
           /\ pc = "edges" => Nodes(copy) = asked
<1>1. /\ pc \in {"idle", "clone", "subgraph", "edges", "copied"}
      /\ asked \subseteq Nodes(graph)
    BY DEF GraphInvariant, TypeOK
<1>2. CASE pc \in {"idle", "clone", "subgraph"}
    <2>1. copy.edge = EmptyGraph.edge
        BY <1>2 DEF GraphInvariant, NodesSoFar, InNodeLoop
    <2>2. \A m, n \in Node : ~HasEdge(copy, m, n)
        BY <2>1 DEF EmptyGraph, HasEdge
    <2> QED
        BY <1>2, <2>2 DEF EndsPresent
<1>3. CASE pc \in {"edges", "copied"}
    <2>1. \A m, n \in Node : HasEdge(copy, m, n) => HasEdge(graph, m, n) /\ {m, n} \subseteq asked
        <3> SUFFICES ASSUME NEW m \in Node, NEW n \in Node, HasEdge(copy, m, n)
                     PROVE  HasEdge(graph, m, n) /\ {m, n} \subseteq asked
            OBVIOUS
        <3>1. copy.edge[m][n] = Induced(graph, asked).edge[m][n]
            BY <1>3 DEF GraphInvariant, EdgesSoFar, CopyIsInduced, HasEdge
        <3>2. Induced(graph, asked).edge[m][n] =
                IF {m, n} \subseteq asked THEN graph.edge[m][n] ELSE Absent
            BY DEF Induced
        <3> QED
            BY <3>1, <3>2 DEF HasEdge
    <2>2. \A n \in Node : copy.attr[n] = IF n \in asked THEN graph.attr[n] ELSE Absent
        <3>1. copy.attr = Induced(graph, asked).attr
            BY <1>3 DEF GraphInvariant, EdgesSoFar, CopyIsInduced
        <3> QED
            BY <3>1 DEF Induced
    <2>3. Nodes(copy) = asked
        BY <1>1, <2>2 DEF Nodes, HasNode
    <2> QED
        BY <2>1, <2>3 DEF EndsPresent, Nodes
<1> QED
    BY <1>1, <1>2, <1>3

(* So it is a DAG, and AddEdgeWithAttr never refuses an edge of the source *)
(* although the loop drops what it returns.                                *)
LEMMA CopyIsDag ==
    ASSUME GraphInvariant
    PROVE  IsDag(copy)
BY CopyIsPart, FewerEdgesAcyclic DEF IsDag, GraphInvariant

LEMMA EdgeIsAllowed ==
    ASSUME GraphInvariant, pc = "edges", NEW e \in todo
    PROVE  EdgeAllowed(copy, e[1], e[2])
<1>1. e[1] \in Node /\ e[2] \in Node /\ Acyclic(graph)
    BY DEF GraphInvariant, TypeOK, IsDag
<1>2. HasEdge(graph, e[1], e[2]) /\ e[1] \in Nodes(copy) /\ e[2] \in Nodes(copy)
    BY CopyIsPart DEF GraphInvariant, EdgesSoFar
<1>3. e[1] # e[2]
    BY <1>1, <1>2, NoSelfLoop
<1>4. ~Reaches(graph, e[2], e[1])
    BY <1>1, <1>2, NoWayBack
<1>5. ~Reaches(copy, e[2], e[1])
    BY <1>4, CopyIsPart, MoreEdgesReach
<1> QED
    BY <1>2, <1>3, <1>5 DEF EdgeAllowed, Nodes

LEMMA CopyEdgeStep ==
    ASSUME GraphInvariant, CopyEdge
    PROVE  GraphInvariant'
<1>1. pc = "edges" /\ UNCHANGED <<graph, nodeOrder, pc, copyOrder, asked, ids>>
    BY DEF CopyEdge, object
<1>2. PICK e \in todo :
        /\ todo' = todo \ {e}
        /\ copy' = PutEdge(copy, e[1], e[2], graph.edge[e[1]][e[2]])
    BY <1>1, EdgeIsAllowed DEF CopyEdge
<1>3. /\ e \in Node \X Node /\ graph \in Graphs /\ copy \in Graphs
      /\ HasEdge(graph, e[1], e[2]) /\ {e[1], e[2]} \subseteq asked
      /\ graph.edge[e[1]][e[2]] \in EdgeAttr
    BY <1>1 DEF GraphInvariant, TypeOK, EdgesSoFar, HasEdge, Graphs
<1>4. copy' \in Graphs /\ Nodes(copy') = Nodes(copy)
    BY <1>2, <1>3, PutEdgeType, PutEdgeEffect DEF Nodes
<1>5. /\ copy'.attr = copy.attr
      /\ \A m, n \in Node : copy'.edge[m][n] =
             IF m = e[1] /\ n = e[2] THEN graph.edge[e[1]][e[2]] ELSE copy.edge[m][n]
    BY <1>2, <1>3 DEF PutEdge, Graphs
<1>6. ASSUME NEW m \in Node, NEW n \in Node
      PROVE  copy'.edge[m][n] = IF <<m, n>> \in todo' THEN Absent
                                ELSE Induced(graph, asked).edge[m][n]
    <2>1. CASE <<m, n>> = e
        <3>1. copy'.edge[m][n] = graph.edge[m][n]
            BY <1>5, <2>1
        <3>2. Induced(graph, asked).edge[m][n] = graph.edge[m][n]
            BY <1>3, <2>1 DEF Induced
        <3> QED
            BY <1>2, <2>1, <3>1, <3>2
    <2>2. CASE <<m, n>> # e
        <3>1. copy'.edge[m][n] = copy.edge[m][n]
            BY <1>3, <1>5, <2>2
        <3>2. <<m, n>> \in todo' <=> <<m, n>> \in todo
            BY <1>2, <2>2
        <3> QED
            BY <1>1, <3>1, <3>2 DEF GraphInvariant, EdgesSoFar
    <2> QED
        BY <2>1, <2>2
<1>7. TypeOK' /\ OrderListsNodes'
    BY <1>1, <1>2, <1>4 DEF GraphInvariant, TypeOK, OrderListsNodes
<1>8. EdgesSoFar'
    <2>1. /\ \A d \in todo : HasEdge(graph, d[1], d[2]) /\ {d[1], d[2]} \subseteq asked
          /\ copy.attr = Induced(graph, asked).attr
        BY <1>1 DEF GraphInvariant, EdgesSoFar
    <2> QED
        BY <1>1, <1>2, <1>5, <1>6, <2>1 DEF EdgesSoFar
<1> QED
    BY <1>1, <1>7, <1>8 DEF GraphInvariant, NodesSoFar, InNodeLoop, CopyIsInduced

LEMMA CopyDoneStep ==
    ASSUME GraphInvariant, CopyDone
    PROVE  GraphInvariant'
<1>1. /\ pc = "edges" /\ pc' = "copied" /\ todo = {}
      /\ UNCHANGED <<graph, nodeOrder, copy, copyOrder, asked, ids, todo>>
    BY DEF CopyDone, object, copying
<1>2. copy = Induced(graph, asked)
    <2>1. copy.attr = Induced(graph, asked).attr
        BY <1>1 DEF GraphInvariant, EdgesSoFar
    <2>2. \A m, n \in Node : copy.edge[m][n] = Induced(graph, asked).edge[m][n]
        BY <1>1 DEF GraphInvariant, EdgesSoFar
    <2>3. copy \in Graphs
        BY DEF GraphInvariant, TypeOK
    <2> QED
        BY <2>1, <2>2, <2>3 DEF Graphs, Induced
<1> QED
    BY <1>1, <1>2
    DEF GraphInvariant, TypeOK, OrderListsNodes, NodesSoFar, InNodeLoop, EdgesSoFar, CopyIsInduced

LEMMA InitialGraph == Init => GraphInvariant
<1>1. Nodes(EmptyGraph) = {}
    BY DEF Nodes, HasNode, EmptyGraph
<1>2. <<>> \in Seq(Node) /\ Enumerates(<<>>, {})
    BY DEF Enumerates, ToSet, IsInjective
<1> QED
    BY <1>1, <1>2, EmptyGraphType, EmptyGraphDag
    DEF Init, GraphInvariant, TypeOK, OrderListsNodes, NodesSoFar, InNodeLoop, EdgesSoFar,
        CopyIsInduced

LEMMA ReleaseStep ==
    ASSUME GraphInvariant, Release
    PROVE  GraphInvariant'
<1>1. Nodes(EmptyGraph) = {}
    BY DEF Nodes, HasNode, EmptyGraph
<1>2. <<>> \in Seq(Node) /\ Enumerates(<<>>, {})
    BY DEF Enumerates, ToSet, IsInjective
<1> QED
    BY <1>1, <1>2, EmptyGraphType
    DEF Release, object, GraphInvariant, TypeOK, OrderListsNodes, NodesSoFar, InNodeLoop,
        EdgesSoFar, CopyIsInduced

-----------------------------------------------------------------------------
LEMMA GraphInvariantHolds ==
    ASSUME IsFiniteSet(Node), ProperDocs
    PROVE  Spec => []GraphInvariant
<1>1. GraphInvariant /\ [Next]_vars => GraphInvariant'
    <2> SUFFICES ASSUME GraphInvariant, [Next]_vars PROVE GraphInvariant'
        OBVIOUS
    <2>1. ASSUME NEW nodeIDs \in BoundedSeq(Node, MaxIds), SubGraph(nodeIDs) PROVE GraphInvariant'
        <3>1. nodeIDs \in Seq(Node)
            BY MaxIdsAssumption, SeqDef DEF BoundedSeq, SeqOf
        <3> QED
            BY <2>1, <3>1, StartSteps
    <2>2. CASE UNCHANGED vars
        BY <2>2
        DEF vars, object, copying, GraphInvariant, TypeOK, OrderListsNodes, NodesSoFar,
            InNodeLoop, EdgesSoFar, CopyIsInduced
    <2> QED
        BY <2>1, <2>2, MutatorSteps, StartSteps, CopyNodeStep, UnknownNodeStep,
           NodesCopiedStep, CopyEdgeStep, CopyDoneStep, ReleaseStep DEF Next
<1> QED
    BY <1>1, InitialGraph, PTL DEF Spec

(* The object and its copies are always directed acyclic graphs.           *)
THEOREM GraphStaysDag ==
    ASSUME IsFiniteSet(Node), ProperDocs
    PROVE  Spec => []DagInvariant
<1>1. GraphInvariant => DagInvariant
    BY CopyIsDag DEF GraphInvariant, DagInvariant
<1> QED
    BY <1>1, GraphInvariantHolds, PTL

(* nodeOrder always lists the nodes, each once.                            *)
THEOREM OrderAlwaysListsNodes ==
    ASSUME IsFiniteSet(Node), ProperDocs
    PROVE  Spec => []OrderListsNodes
<1>1. GraphInvariant => OrderListsNodes
    BY DEF GraphInvariant
<1> QED
    BY <1>1, GraphInvariantHolds, PTL

(* A finished copy is the part of the graph that was asked for, whatever   *)
(* the order in which its edges were inserted.                             *)
THEOREM CopiesAreFaithful ==
    ASSUME IsFiniteSet(Node), ProperDocs
    PROVE  Spec => []CopyIsInduced
<1>1. GraphInvariant => CopyIsInduced
    BY DEF GraphInvariant
<1> QED
    BY <1>1, GraphInvariantHolds, PTL

(* What MarshalJSON writes always reads back.                              *)
THEOREM DocumentsReadBack ==
    ASSUME IsFiniteSet(Node), ProperDocs
    PROVE  Spec => []RoundTrip
<1>1. GraphInvariant => RoundTrip
    BY RoundTrips DEF GraphInvariant, TypeOK, IsDag, RoundTrip
<1> QED
    BY <1>1, GraphInvariantHolds, PTL
=============================================================================
