----------------------------- MODULE SpecProofs -----------------------------
(***************************************************************************)
(* The text format, for every finite set of nodes and every text.          *)
(*                                                                         *)
(* ParseSpec keeps ReaderInvariant: after every word the graph built is    *)
(* the one that the places read so far declare, and has no cycle.  A       *)
(* further place is the last one so far, so it decides what it is about    *)
(* and changes nothing else.  An edge that is refused closes a cycle with  *)
(* edges already declared, and the edges of the whole text contain them.   *)
(***************************************************************************)
EXTENDS SpecReader, SpecWriter, LineageGraphProofs, SequenceTheorems

-----------------------------------------------------------------------------
(* Lines, places and what they declare.                                    *)

LEMMA LineTypes ==
    ASSUME NEW line \in Lines
    PROVE  /\ line.kind \in {"blank", "other", "attr", "dep"}
           /\ line.kind = "attr" =>
                /\ line.node \in Node
                /\ line.pairs \in Seq([key : {"layer", "owner", Absent}, value : Name])
           /\ line.kind = "dep" =>
                line.target \in Node \cup {Absent} /\ line.deps \in Seq(Node \cup {Absent})
           /\ Len(Words(line)) \in Nat
           /\ line.kind = "attr" => Words(line) = line.pairs
           /\ line.kind = "dep" => Words(line) = line.deps
           /\ line.kind \notin {"attr", "dep"} => Words(line) = <<>>
<1>1. /\ line.kind \in {"blank", "other", "attr", "dep"}
      /\ line.kind = "attr" =>
           /\ line.node \in Node
           /\ line.pairs \in Seq([key : {"layer", "owner", Absent}, value : Name])
      /\ line.kind = "dep" =>
           line.target \in Node \cup {Absent} /\ line.deps \in Seq(Node \cup {Absent})
    <2>1. CASE line \in [kind : {"blank", "other"}]
        BY <2>1
    <2>2. CASE line \in [kind : {"attr"}, node : Node,
                         pairs : Seq([key : {"layer", "owner", Absent}, value : Name])]
        BY <2>2
    <2>3. CASE line \in [kind : {"dep"}, target : Node \cup {Absent},
                         bracket : STRING \cup {Absent}, deps : Seq(Node \cup {Absent})]
        BY <2>3
    <2> QED
        BY <2>1, <2>2, <2>3 DEF Lines
<1>2. /\ line.kind = "attr" => Words(line) = line.pairs
      /\ line.kind = "dep" => Words(line) = line.deps
      /\ line.kind \notin {"attr", "dep"} => Words(line) = <<>>
    BY <1>1 DEF Words
<1>3. Len(Words(line)) \in Nat
    BY <1>1, <1>2
<1> QED
    BY <1>1, <1>2, <1>3

LEMMA TextTypes ==
    ASSUME NEW t \in Seq(Lines)
    PROVE  /\ Len(t) \in Nat /\ DOMAIN t = 1..Len(t)
           /\ \A i \in DOMAIN t : t[i] \in Lines /\ Len(Words(t[i])) \in Nat
           /\ \A p : p \in Places(t) <=>
                \E i \in DOMAIN t : \E j \in 0..Len(Words(t[i])) : p = <<i, j>>
<1>1. Len(t) \in Nat /\ DOMAIN t = 1..Len(t) /\ \A i \in DOMAIN t : t[i] \in Lines
    OBVIOUS
<1> QED
    BY <1>1, LineTypes DEF Places

(* p comes after all the places of P, and Q has it too.                    *)
ComesAfter(p, P) == \A q \in P : q \in Nat \X Nat /\ EdgeBefore(q, p)

GrowsBy(P, p, Q) == ComesAfter(p, P) /\ Q = P \cup {p}

LEMMA LastOfNew ==
    ASSUME NEW P, NEW p \in Nat \X Nat, ComesAfter(p, P)
    PROVE  LastOf(P \cup {p}) = p
<1>1. \A q \in P \cup {p} : q = p \/ EdgeBefore(q, p)
    BY DEF ComesAfter
<1>2. ASSUME NEW r \in P \cup {p}, \A q \in P \cup {p} : q = r \/ EdgeBefore(q, r)
      PROVE  r = p
    <2> SUFFICES ASSUME r # p PROVE FALSE
        OBVIOUS
    <2>1. r \in Nat \X Nat /\ EdgeBefore(r, p) /\ EdgeBefore(p, r)
        BY <1>2 DEF ComesAfter
    <2>2. r[1] \in Nat /\ r[2] \in Nat /\ p[1] \in Nat /\ p[2] \in Nat
        BY <2>1
    <2> QED
        BY <2>1, <2>2 DEF EdgeBefore
<1> QED
    BY <1>1, <1>2 DEF LastOf

(* A further place decides what it is about and nothing else.              *)
LEMMA EdgesGrow ==
    ASSUME NEW t, NEW P, NEW p \in Nat \X Nat, NEW Q, GrowsBy(P, p, Q), NEW m, NEW n
    PROVE  EdgeFrom(t, DepsFor(t, Q, m, n)) =
             IF p \in DepsFor(t, Q, m, n)
             THEN EdgeOf(t[p[1]])
             ELSE EdgeFrom(t, DepsFor(t, P, m, n))
<1>1. /\ p \in DepsFor(t, Q, m, n) => DepsFor(t, Q, m, n) = DepsFor(t, P, m, n) \cup {p}
      /\ p \notin DepsFor(t, Q, m, n) => DepsFor(t, Q, m, n) = DepsFor(t, P, m, n)
      /\ DepsFor(t, P, m, n) \subseteq P
    BY DEF DepsFor, GrowsBy
<1>2. ComesAfter(p, DepsFor(t, P, m, n))
    BY <1>1 DEF ComesAfter, GrowsBy
<1>3. LastOf(DepsFor(t, P, m, n) \cup {p}) = p
    BY <1>2, LastOfNew
<1> QED
    BY <1>1, <1>3 DEF EdgeFrom

LEMMA ValuesGrow ==
    ASSUME NEW t, NEW P, NEW p \in Nat \X Nat, NEW Q, GrowsBy(P, p, Q), NEW n, NEW key
    PROVE  ValueFrom(t, PairsFor(t, Q, n, key)) =
             IF p \in PairsFor(t, Q, n, key) THEN WordAt(t, p).value
             ELSE ValueFrom(t, PairsFor(t, P, n, key))
<1>1. /\ p \in PairsFor(t, Q, n, key) => PairsFor(t, Q, n, key) = PairsFor(t, P, n, key) \cup {p}
      /\ p \notin PairsFor(t, Q, n, key) => PairsFor(t, Q, n, key) = PairsFor(t, P, n, key)
      /\ PairsFor(t, P, n, key) \subseteq P
    BY DEF PairsFor, GrowsBy
<1>2. ComesAfter(p, PairsFor(t, P, n, key))
    BY <1>1 DEF ComesAfter, GrowsBy
<1>3. LastOf(PairsFor(t, P, n, key) \cup {p}) = p
    BY <1>2, LastOfNew
<1> QED
    BY <1>1, <1>3 DEF ValueFrom

(* What a graph must agree with to be the one declared.                    *)
LEMMA SameAsSays ==
    ASSUME NEW g \in Graphs, NEW t, NEW P,
           \A n \in Node : g.attr[n] = Says(t, P).attr[n],
           \A m, n \in Node : g.edge[m][n] = Says(t, P).edge[m][n]
    PROVE  g = Says(t, P)
<1>1. g = [attr |-> g.attr, edge |-> g.edge]
    BY DEF Graphs
<1>2. g.attr = [n \in Node |-> g.attr[n]] /\ g.edge = [m \in Node |-> [n \in Node |-> g.edge[m][n]]]
    BY DEF Graphs
<1>3. Says(t, P) = [attr |-> Says(t, P).attr, edge |-> Says(t, P).edge]
    BY DEF Says
<1>4. /\ Says(t, P).attr = [n \in Node |-> Says(t, P).attr[n]]
      /\ Says(t, P).edge = [m \in Node |-> [n \in Node |-> Says(t, P).edge[m][n]]]
    BY DEF Says
<1>5. g.attr = Says(t, P).attr /\ g.edge = Says(t, P).edge
    BY <1>2, <1>4
<1> QED
    BY <1>1, <1>3, <1>5

(* The attributes and edges declared.                                      *)
LEMMA AttrSaid ==
    ASSUME NEW t, NEW P, NEW n \in Node
    PROVE  Says(t, P).attr[n] =
             IF \E p \in P : Names(t, p, n)
             THEN [layer |-> ValueFrom(t, PairsFor(t, P, n, "layer")),
                   owner |-> ValueFrom(t, PairsFor(t, P, n, "owner"))]
             ELSE Absent
BY DEF Says

LEMMA EdgeSaid ==
    ASSUME NEW t, NEW P, NEW m \in Node, NEW n \in Node
    PROVE  Says(t, P).edge[m][n] = EdgeFrom(t, DepsFor(t, P, m, n))
BY DEF Says

LEMMA UnnamedHasNoValue ==
    ASSUME NEW t, NEW P, NEW n, \A p \in P : ~Names(t, p, n), NEW key
    PROVE  ValueFrom(t, PairsFor(t, P, n, key)) = ""
BY DEF PairsFor, Names, ValueFrom

(* Among places of a text there is a last one.                             *)
LEMMA LastOfMember ==
    ASSUME NEW t \in Seq(Lines), NEW P \in SUBSET Places(t), P # {}
    PROVE  LastOf(P) \in P
<1> DEFINE A == {Len(t) - p[1] : p \in P}
<1>1. \A p \in P : /\ p[1] \in DOMAIN t /\ p[1] \in Nat /\ Len(t) - p[1] \in Nat
                   /\ p[2] \in Nat /\ p[2] <= Len(Words(t[p[1]])) /\ Len(Words(t[p[1]])) \in Nat
                   /\ p = <<p[1], p[2]>>
    BY TextTypes
<1>2. PICK a \in A : \A b \in A : a <= b
    <2>1. A \in SUBSET Nat /\ A # {}
        BY <1>1
    <2> HIDE DEF A
    <2> QED
        BY <2>1, LeastExists
<1>3. PICK r \in P : a = Len(t) - r[1]
    BY <1>2
<1> DEFINE i == r[1]
           W == Len(Words(t[i]))
           Q == {p \in P : p[1] = i}
           B == {W - p[2] : p \in Q}
<1>4. PICK b \in B : \A c \in B : b <= c
    <2>1. \A p \in Q : p[2] \in Nat /\ W \in Nat /\ p[2] <= W
        BY <1>1
    <2>2. r \in Q
        OBVIOUS
    <2> HIDE DEF W, Q
    <2>3. B \in SUBSET Nat /\ B # {}
        BY <2>1, <2>2
    <2> HIDE DEF B
    <2> QED
        BY <2>3, LeastExists
<1>5. PICK s \in Q : b = W - s[2]
    BY <1>4
<1>6. s \in P /\ s[1] = i
    BY <1>5
<1>7. ASSUME NEW q \in P PROVE q = s \/ EdgeBefore(q, s)
    <2>1. a <= Len(t) - q[1] /\ Len(t) \in Nat
        BY <1>2, <1>7, TextTypes
    <2>2. q[1] <= i
        BY <1>1, <1>3, <1>7, <2>1
    <2>3. CASE q[1] # i
        BY <1>1, <1>6, <1>7, <2>2, <2>3 DEF EdgeBefore
    <2>4. CASE q[1] = i
        <3>1. b <= W - q[2]
            BY <1>4, <1>7, <2>4
        <3>2. q[2] <= s[2] /\ q[2] \in Nat /\ s[2] \in Nat
            <4> HIDE DEF W
            <4>1. W \in Nat /\ q[2] \in Nat /\ s[2] \in Nat
                BY <1>1, <1>3, <1>6, <1>7 DEF W
            <4> QED
                BY <1>5, <3>1, <4>1
        <3>3. q = <<i, q[2]>> /\ s = <<i, s[2]>>
            BY <1>1, <1>6, <1>7, <2>4
        <3>4. q[2] = s[2] => q = s
            BY <3>3
        <3> QED
            BY <1>6, <2>4, <3>2, <3>4 DEF EdgeBefore
    <2> QED
        BY <2>3, <2>4
<1> HIDE DEF A, B, Q, W, i
<1> QED
    BY <1>6, <1>7 DEF LastOf

(* More places of well formed lines declare more edges.                    *)
LEMMA MorePlacesMoreEdges ==
    ASSUME NEW t \in Seq(Lines), NEW P, NEW Q \in SUBSET Places(t), P \subseteq Q,
           \A i \in DOMAIN t : WellFormed(t[i]),
           NEW m \in Node, NEW n \in Node, HasEdge(Says(t, P), m, n)
    PROVE  HasEdge(Says(t, Q), m, n)
<1> DEFINE D == DepsFor(t, Q, m, n)
           l == t[LastOf(D)[1]]
<1>1. DepsFor(t, P, m, n) # {}
    <2>1. Says(t, P).edge[m][n] = EdgeFrom(t, DepsFor(t, P, m, n))
        BY EdgeSaid
    <2> QED
        BY <2>1 DEF HasEdge, EdgeFrom
<1>2. D # {} /\ D \in SUBSET Places(t)
    BY <1>1 DEF DepsFor
<1>3. LastOf(D) \in D
    BY <1>2, LastOfMember
<1>4. l.kind = "dep" /\ WellFormed(l)
    BY <1>3, TextTypes DEF DepsFor
<1>5. TransformOf(l) \in ValidTransforms
    BY <1>4 DEF WellFormed, TransformOf, ValidTransforms
<1>6. EdgeFrom(t, D) # Absent
    BY <1>2, <1>5, TransformAssumption, EdgeAttrAssumption DEF EdgeFrom, EdgeOf
<1>7. Says(t, Q).edge[m][n] = EdgeFrom(t, D)
    BY EdgeSaid
<1> QED
    BY <1>6, <1>7 DEF HasEdge

-----------------------------------------------------------------------------
(* The reader.                                                             *)

(* The places read so far, and what the words read so far have made of the *)
(* graph, the directive that is being read included.                       *)
Taken == {p \in Places(text) : p[1] < at \/ (p[1] = at /\ p[2] < word)}

Current == IF word # 0 /\ Line.kind = "attr" THEN PutNode(built, Line.node, attr) ELSE built

(* The graph is at every step the one that the places read so far declare. *)
ReaderInvariant ==
    /\ text \in Texts
    /\ at \in 1..(Len(text) + 1)
    /\ word \in Nat
    /\ attr \in Attr
    /\ built \in Graphs
    /\ verdict \in {"reading", "accepted", "refused"}
    /\ word # 0 =>
        /\ at \in DOMAIN text
        /\ Line.kind \in {"attr", "dep"}
        /\ word <= Len(Words(Line)) + 1
        /\ Line.kind = "attr" =>
             /\ Line.pairs # <<>> /\ HasNode(built, Line.node)
             /\ \A i \in 1..(word - 1) : Line.pairs[i].key # Absent
        /\ Line.kind = "dep" => WellFormed(Line) /\ HasNode(built, Line.target)
    /\ \A i \in 1..(at - 1) : WellFormed(text[i])
    /\ Acyclic(built)
    /\ Current = Says(text, Taken)
    /\ verdict = "accepted" => at = Len(text) + 1
    /\ verdict = "refused" => ~Legal(text)

LEMMA ReaderTypes ==
    ASSUME ReaderInvariant
    PROVE  /\ text \in Seq(Lines) /\ Len(text) \in Nat /\ DOMAIN text = 1..Len(text)
           /\ at \in Nat /\ Taken \subseteq Places(text)
           /\ at \in DOMAIN text => Line \in Lines /\ Len(Words(Line)) \in Nat
<1>1. text \in Seq(Lines)
    BY TextsAssumption DEF ReaderInvariant
<1>2. Len(text) \in Nat /\ DOMAIN text = 1..Len(text)
    BY <1>1, TextTypes
<1>3. at \in 1..(Len(text) + 1)
    BY DEF ReaderInvariant
<1>4. at \in Nat
    BY <1>2, <1>3
<1>5. at \in DOMAIN text => Line \in Lines /\ Len(Words(Line)) \in Nat
    BY <1>1, TextTypes DEF Line
<1> QED
    BY <1>1, <1>2, <1>4, <1>5 DEF Taken

(* A word that is read is a further place, after all those read before.    *)
LEMMA TakenGrows ==
    ASSUME ReaderInvariant, at \in DOMAIN text, word <= Len(Words(Line))
    PROVE  /\ <<at, word>> \in Nat \X Nat
           /\ <<at, word>> \in Places(text)
           /\ ComesAfter(<<at, word>>, Taken)
           /\ Taken \cup {<<at, word>>} =
                {p \in Places(text) : p[1] < at \/ (p[1] = at /\ p[2] < word + 1)}
           /\ word = Len(Words(Line)) => Taken \cup {<<at, word>>} =
                {p \in Places(text) : p[1] < at + 1 \/ (p[1] = at + 1 /\ p[2] < 0)}
<1> DEFINE W == Len(Words(Line))
<1>1. text \in Seq(Lines) /\ at \in Nat /\ word \in Nat /\ W \in Nat
    BY ReaderTypes DEF ReaderInvariant
<1>2. <<at, word>> \in Places(text)
    BY <1>1, TextTypes DEF Line
<1>3. \A p \in Places(text) :
        p[1] \in Nat /\ p[2] \in Nat /\ p = <<p[1], p[2]>> /\ (p[1] = at => p[2] <= W)
    BY <1>1, TextTypes DEF Line
<1> HIDE DEF W
<1>4. ComesAfter(<<at, word>>, Taken)
    BY <1>1, <1>3 DEF ComesAfter, Taken, EdgeBefore
<1>5. ASSUME NEW p \in Places(text)
      PROVE  /\ p \in Taken \cup {<<at, word>>} <=> p[1] < at \/ (p[1] = at /\ p[2] < word + 1)
             /\ word = W => (p \in Taken \cup {<<at, word>>} <=>
                               p[1] < at + 1 \/ (p[1] = at + 1 /\ p[2] < 0))
    <2>1. p[1] \in Nat /\ p[2] \in Nat /\ p = <<p[1], p[2]>> /\ (p[1] = at => p[2] <= W)
        BY <1>3
    <2>2. p = <<at, word>> <=> p[1] = at /\ p[2] = word
        BY <2>1
    <2>3. p \in Taken <=> p[1] < at \/ (p[1] = at /\ p[2] < word)
        BY DEF Taken
    <2> QED
        BY <1>1, <2>1, <2>2, <2>3
<1>6. Taken \subseteq Places(text)
    BY DEF Taken
<1> QED
    BY <1>1, <1>2, <1>4, <1>5, <1>6 DEF W

(* At the end of a line all its places have been read.                     *)
LEMMA TakenStays ==
    ASSUME ReaderInvariant, at \in DOMAIN text, word > Len(Words(Line))
    PROVE  Taken = {p \in Places(text) : p[1] < at + 1 \/ (p[1] = at + 1 /\ p[2] < 0)}
<1> DEFINE W == Len(Words(Line))
<1>1. text \in Seq(Lines) /\ at \in Nat /\ word \in Nat /\ W \in Nat
    BY ReaderTypes DEF ReaderInvariant
<1>2. \A p \in Places(text) :
        p[1] \in Nat /\ p[2] \in Nat /\ (p[1] = at => p[2] <= W)
    BY <1>1, TextTypes DEF Line
<1> HIDE DEF W
<1>3. W < word
    BY DEF W
<1> QED
    BY <1>1, <1>2, <1>3 DEF Taken

(* WithNode.                                                               *)
LEMMA WithNodeEffect ==
    ASSUME NEW g \in Graphs, NEW k \in Node
    PROVE  /\ WithNode(g, k) \in Graphs
           /\ \A n \in Node : WithNode(g, k).attr[n] =
                IF n = k /\ g.attr[n] = Absent THEN NoAttr ELSE g.attr[n]
           /\ WithNode(g, k).edge = g.edge
           /\ \A n \in Node : HasNode(WithNode(g, k), n) <=> HasNode(g, n) \/ n = k
           /\ Acyclic(g) => Acyclic(WithNode(g, k))
<1>1. NoAttr \in Attr /\ PutNode(g, k, NoAttr) \in Graphs
    BY AttrAssumption, PutNodeType
<1>2. WithNode(g, k) \in Graphs /\ WithNode(g, k).edge = g.edge
    BY <1>1 DEF WithNode, PutNode
<1>3. \A n \in Node : WithNode(g, k).attr[n] =
                IF n = k /\ g.attr[n] = Absent THEN NoAttr ELSE g.attr[n]
    BY DEF WithNode, PutNode, HasNode, Graphs
<1>4. \A n \in Node : HasNode(WithNode(g, k), n) <=> HasNode(g, n) \/ n = k
    BY <1>3, AttrAssumption DEF HasNode
<1>5. Acyclic(g) => Acyclic(WithNode(g, k))
    BY <1>2, FewerEdgesAcyclic DEF HasEdge
<1> QED
    BY <1>2, <1>3, <1>4, <1>5

(* A value that is declared is a name.                                     *)
LEMMA ValueType ==
    ASSUME NEW t \in Seq(Lines), NEW P \in SUBSET Places(t), NEW n, NEW key
    PROVE  ValueFrom(t, PairsFor(t, P, n, key)) \in Name
<1> DEFINE D == PairsFor(t, P, n, key)
           p == LastOf(D)
<1>1. "" \in Name
    <2>1. NoAttr \in [layer : Name, owner : Name]
        BY AttrAssumption, NameAssumption
    <2> QED
        BY <2>1, NameAssumption
<1>2. CASE D # {}
    <2>1. D \in SUBSET Places(t)
        BY DEF PairsFor
    <2>2. p \in D
        BY <1>2, <2>1, LastOfMember
    <2>3. /\ t[p[1]] \in Lines /\ t[p[1]].kind = "attr" /\ p[2] \in 0..Len(Words(t[p[1]])) /\ p[2] # 0
        <3>1. p \in Places(t) /\ t[p[1]].kind = "attr" /\ p[2] # 0
            BY <2>1, <2>2 DEF PairsFor
        <3>2. PICK i \in DOMAIN t : \E j \in 0..Len(Words(t[i])) : p = <<i, j>>
            BY <3>1, TextTypes
        <3>3. PICK j \in 0..Len(Words(t[i])) : p = <<i, j>>
            BY <3>2
        <3> HIDE DEF p
        <3>4. p[1] = i /\ p[2] = j /\ t[i] \in Lines
            BY <3>3, TextTypes
        <3> QED
            BY <3>1, <3>3, <3>4
    <2> HIDE DEF p, D
    <2>4. Words(t[p[1]]) \in Seq([key : {"layer", "owner", Absent}, value : Name])
        BY <2>3, LineTypes
    <2>5. p[2] \in 1..Len(Words(t[p[1]]))
        BY <2>3, <2>4
    <2>6. WordAt(t, p) \in [key : {"layer", "owner", Absent}, value : Name]
        BY <2>4, <2>5, ElementOfSeq, Zenon DEF WordAt
    <2> QED
        BY <1>2, <2>6 DEF ValueFrom, p, D
<1>3. CASE D = {}
    BY <1>1, <1>3 DEF ValueFrom
<1> QED
    BY <1>2, <1>3

(* The first word of a line, or a dependency, adds the node it names to    *)
(* what has been read.                                                     *)
LEMMA NameRead ==
    ASSUME NEW t \in Seq(Lines), NEW P \in SUBSET Places(t),
           NEW p \in Nat \X Nat, NEW Q, GrowsBy(P, p, Q),
           NEW g \in Graphs, g = Says(t, P), NEW k \in Node,
           \A n \in Node : Names(t, p, n) <=> n = k,
           \A n, key : p \notin PairsFor(t, Q, n, key),
           NEW n \in Node
    PROVE  WithNode(g, k).attr[n] = Says(t, Q).attr[n]
<1> DEFINE layer == ValueFrom(t, PairsFor(t, P, n, "layer"))
           owner == ValueFrom(t, PairsFor(t, P, n, "owner"))
<1>1. /\ ValueFrom(t, PairsFor(t, Q, n, "layer")) = layer
      /\ ValueFrom(t, PairsFor(t, Q, n, "owner")) = owner
    BY ValuesGrow
<1>2. Says(t, Q).attr[n] =
        IF (\E q \in P : Names(t, q, n)) \/ n = k
        THEN [layer |-> layer, owner |-> owner] ELSE Absent
    <2>1. (\E q \in Q : Names(t, q, n)) <=> (\E q \in P : Names(t, q, n)) \/ n = k
        BY DEF GrowsBy
    <2>2. Says(t, Q).attr[n] =
            IF \E q \in Q : Names(t, q, n)
            THEN [layer |-> ValueFrom(t, PairsFor(t, Q, n, "layer")),
                  owner |-> ValueFrom(t, PairsFor(t, Q, n, "owner"))] ELSE Absent
        BY DEF Says
    <2> HIDE DEF layer, owner
    <2> QED
        BY <1>1, <2>1, <2>2
<1>3. g.attr[n] = IF \E q \in P : Names(t, q, n) THEN [layer |-> layer, owner |-> owner] ELSE Absent
    BY AttrSaid, Zenon
<1>4. WithNode(g, k).attr[n] = IF n = k /\ g.attr[n] = Absent THEN NoAttr ELSE g.attr[n]
    BY WithNodeEffect
<1>5. layer \in Name /\ owner \in Name
    BY ValueType
<1>6. (~\E q \in P : Names(t, q, n)) => layer = "" /\ owner = ""
    BY UnnamedHasNoValue
<1> HIDE DEF layer, owner
<1>7. [layer |-> layer, owner |-> owner] # Absent
    <2>1. [layer |-> layer, owner |-> owner] \in Attr
        BY <1>5, NameAssumption
    <2> QED
        BY <2>1, AttrAssumption
<1>8. CASE \E q \in P : Names(t, q, n)
    BY <1>2, <1>3, <1>4, <1>7, <1>8
<1>9. CASE ~\E q \in P : Names(t, q, n)
    <2>1. NoAttr = [layer |-> layer, owner |-> owner]
        BY <1>6, <1>9, NameAssumption
    <2> QED
        BY <1>2, <1>3, <1>4, <1>9, <2>1
<1> QED
    BY <1>8, <1>9

(* A place that names no node says nothing.                                *)
LEMMA NothingRead ==
    ASSUME NEW t, NEW P, NEW p \in Nat \X Nat, NEW Q, GrowsBy(P, p, Q),
           NEW g \in Graphs, g = Says(t, P),
           \A n \in Node : ~Names(t, p, n)
    PROVE  g = Says(t, Q)
<1>1. ASSUME NEW n \in Node PROVE g.attr[n] = Says(t, Q).attr[n]
    <2>1. \A key : p \notin PairsFor(t, Q, n, key)
        BY DEF PairsFor, Names
    <2>2. \A key : ValueFrom(t, PairsFor(t, Q, n, key)) = ValueFrom(t, PairsFor(t, P, n, key))
        BY <2>1, ValuesGrow
    <2>3. (\E q \in Q : Names(t, q, n)) <=> (\E q \in P : Names(t, q, n))
        BY DEF GrowsBy
    <2> QED
        BY <2>2, <2>3 DEF Says
<1>2. ASSUME NEW m \in Node, NEW n \in Node PROVE g.edge[m][n] = Says(t, Q).edge[m][n]
    <2>1. p \notin DepsFor(t, Q, m, n)
        BY DEF DepsFor, Names
    <2>2. EdgeFrom(t, DepsFor(t, Q, m, n)) = EdgeFrom(t, DepsFor(t, P, m, n))
        BY <2>1, EdgesGrow
    <2>3. g.edge[m][n] = EdgeFrom(t, DepsFor(t, P, m, n))
        BY EdgeSaid
    <2>4. Says(t, Q).edge[m][n] = EdgeFrom(t, DepsFor(t, Q, m, n))
        BY EdgeSaid
    <2> QED
        BY <2>2, <2>3, <2>4
<1> QED
    BY <1>1, <1>2, SameAsSays

(* A place at the beginning of a line adds its node.                       *)
LEMMA BeginningRead ==
    ASSUME NEW t \in Seq(Lines), NEW P \in SUBSET Places(t),
           NEW p \in Nat \X Nat, p[2] = 0, NEW Q, GrowsBy(P, p, Q),
           NEW g \in Graphs, g = Says(t, P), NEW k \in Node,
           \A n \in Node : Names(t, p, n) <=> n = k
    PROVE  WithNode(g, k) = Says(t, Q)
<1> DEFINE h == WithNode(g, k)
<1>1. \A n, key : p \notin PairsFor(t, Q, n, key)
    BY DEF PairsFor
<1>2. \A m, n : p \notin DepsFor(t, Q, m, n)
    BY DEF DepsFor
<1>3. h \in Graphs /\ h.edge = g.edge
    BY WithNodeEffect
<1>4. ASSUME NEW n \in Node PROVE h.attr[n] = Says(t, Q).attr[n]
    BY <1>1, NameRead
<1>5. ASSUME NEW m \in Node, NEW n \in Node PROVE h.edge[m][n] = Says(t, Q).edge[m][n]
    <2>1. EdgeFrom(t, DepsFor(t, Q, m, n)) = EdgeFrom(t, DepsFor(t, P, m, n))
        BY <1>2, EdgesGrow
    <2>2. g.edge[m][n] = EdgeFrom(t, DepsFor(t, P, m, n))
        BY EdgeSaid
    <2>3. Says(t, Q).edge[m][n] = EdgeFrom(t, DepsFor(t, Q, m, n))
        BY EdgeSaid
    <2> QED
        BY <1>3, <2>1, <2>2, <2>3
<1> HIDE DEF h
<1>6. h = Says(t, Q)
    BY <1>3, <1>4, <1>5, SameAsSays
<1> QED
    BY <1>6 DEF h

(* A pair of a directive sets a value of its node.                         *)
LEMMA PairRead ==
    ASSUME NEW t \in Seq(Lines), NEW P \in SUBSET Places(t),
           NEW p \in Nat \X Nat, p[2] # 0, NEW Q, GrowsBy(P, p, Q),
           NEW g \in Graphs, g = Says(t, P), NEW k \in Node, HasNode(g, k),
           t[p[1]].kind = "attr", t[p[1]].node = k,
           NEW w, w = WordAt(t, p), w.key \in {"layer", "owner"}, w.value \in Name
    PROVE  /\ WithPair(g.attr[k], w) \in Attr
           /\ PutNode(g, k, WithPair(g.attr[k], w)) = Says(t, Q)
<1> DEFINE V(R, n, key) == ValueFrom(t, PairsFor(t, R, n, key))
           h == PutNode(g, k, WithPair(g.attr[k], w))
<1>1. \A n, key : V(Q, n, key) = IF n = k /\ w.key = key THEN w.value ELSE V(P, n, key)
    <2> SUFFICES ASSUME NEW n, NEW key
                 PROVE  V(Q, n, key) = IF n = k /\ w.key = key THEN w.value ELSE V(P, n, key)
        OBVIOUS
    <2>1. V(Q, n, key) = IF p \in PairsFor(t, Q, n, key) THEN WordAt(t, p).value ELSE V(P, n, key)
        BY ValuesGrow
    <2>2. p \in PairsFor(t, Q, n, key) <=> n = k /\ w.key = key
        BY DEF PairsFor, GrowsBy
    <2> HIDE DEF V
    <2> QED
        BY <2>1, <2>2
<1>2. \A n \in Node : (\E q \in Q : Names(t, q, n)) <=> (\E q \in P : Names(t, q, n)) \/ n = k
    BY DEF Names, GrowsBy
<1>3. \A n \in Node : g.attr[n] = IF \E q \in P : Names(t, q, n)
                                 THEN [layer |-> V(P, n, "layer"), owner |-> V(P, n, "owner")]
                                 ELSE Absent
    BY AttrSaid, Zenon
<1>4. \A n \in Node : Says(t, Q).attr[n] =
                         IF \E q \in Q : Names(t, q, n)
                         THEN [layer |-> V(Q, n, "layer"), owner |-> V(Q, n, "owner")]
                         ELSE Absent
    BY AttrSaid, Zenon
<1> HIDE DEF V
<1>5. g.attr[k] = [layer |-> V(P, k, "layer"), owner |-> V(P, k, "owner")]
    BY <1>3 DEF HasNode
<1>6. WithPair(g.attr[k], w) = [layer |-> V(Q, k, "layer"), owner |-> V(Q, k, "owner")]
    BY <1>1, <1>5 DEF WithPair
<1>7. WithPair(g.attr[k], w) \in Attr
    <2>1. g.attr[k] \in [layer : Name, owner : Name]
        BY NameAssumption DEF Graphs, HasNode
    <2>2. WithPair(g.attr[k], w) \in [layer : Name, owner : Name]
        BY <2>1 DEF WithPair
    <2> QED
        BY <2>2, NameAssumption
<1>8. h \in Graphs
    BY <1>7, PutNodeType
<1>9. ASSUME NEW n \in Node PROVE h.attr[n] = Says(t, Q).attr[n]
    <2>1. CASE n = k
        BY <1>2, <1>4, <1>6, <2>1 DEF PutNode, Graphs
    <2>2. CASE n # k
        <3>1. h.attr[n] = g.attr[n]
            BY <2>2 DEF PutNode, Graphs
        <3> HIDE DEF h
        <3>2. V(Q, n, "layer") = V(P, n, "layer") /\ V(Q, n, "owner") = V(P, n, "owner")
            BY <1>1, <2>2
        <3> QED
            BY <1>2, <1>3, <1>4, <2>2, <3>1, <3>2
    <2> QED
        BY <2>1, <2>2
<1>10. ASSUME NEW m \in Node, NEW n \in Node PROVE h.edge[m][n] = Says(t, Q).edge[m][n]
    <2>1. p \notin DepsFor(t, Q, m, n)
        BY DEF DepsFor
    <2>2. EdgeFrom(t, DepsFor(t, Q, m, n)) = EdgeFrom(t, DepsFor(t, P, m, n))
        BY <2>1, EdgesGrow
    <2>3. g.edge[m][n] = EdgeFrom(t, DepsFor(t, P, m, n))
        BY EdgeSaid
    <2>4. Says(t, Q).edge[m][n] = EdgeFrom(t, DepsFor(t, Q, m, n))
        BY EdgeSaid
    <2>5. h.edge = g.edge
        BY DEF PutNode
    <2> HIDE DEF h
    <2> QED
        BY <2>2, <2>3, <2>4, <2>5
<1> HIDE DEF h
<1>11. h = Says(t, Q)
    BY <1>8, <1>9, <1>10, SameAsSays
<1> QED
    BY <1>7, <1>11 DEF h

(* A dependency of a line adds its node and the edge.                      *)
LEMMA DepRead ==
    ASSUME NEW t \in Seq(Lines), NEW P \in SUBSET Places(t),
           NEW p \in Nat \X Nat, p[2] # 0, NEW Q, GrowsBy(P, p, Q),
           NEW g \in Graphs, g = Says(t, P),
           t[p[1]].kind = "dep", NEW k \in Node, t[p[1]].target = k,
           NEW w \in Node, w = WordAt(t, p), EdgeOf(t[p[1]]) \in EdgeAttr
    PROVE  PutEdge(WithNode(g, w), w, k, EdgeOf(t[p[1]])) = Says(t, Q)
<1> DEFINE e == EdgeOf(t[p[1]])
           h == WithNode(g, w)
           j == PutEdge(h, w, k, e)
<1> HIDE DEF e
<1>1. \A n \in Node : Names(t, p, n) <=> n = w
    BY DEF Names
<1>2. \A n, key : p \notin PairsFor(t, Q, n, key)
    BY DEF PairsFor
<1>3. h \in Graphs /\ h.edge = g.edge
    BY WithNodeEffect
<1>4. \A n \in Node : h.attr[n] = Says(t, Q).attr[n]
    BY <1>1, <1>2, NameRead
<1> HIDE DEF h
<1>5. /\ j \in Graphs
      /\ \A n \in Node : j.attr[n] = h.attr[n]
      /\ \A m, n \in Node : j.edge[m][n] = IF m = w /\ n = k THEN e ELSE h.edge[m][n]
    <2>1. e \in EdgeAttr
        BY DEF e
    <2>2. j \in Graphs
        BY <1>3, <2>1, PutEdgeType
    <2>3. j.attr = h.attr
        BY DEF PutEdge
    <2>4. \A m, n \in Node : j.edge[m][n] = IF m = w /\ n = k THEN e ELSE h.edge[m][n]
        BY <1>3 DEF PutEdge, Graphs
    <2> HIDE DEF j
    <2> QED
        BY <2>2, <2>3, <2>4
<1> HIDE DEF j
<1>6. ASSUME NEW m \in Node, NEW n \in Node PROVE j.edge[m][n] = Says(t, Q).edge[m][n]
    <2>1. p \in DepsFor(t, Q, m, n) <=> m = w /\ n = k
        BY DEF DepsFor, GrowsBy
    <2>2. EdgeFrom(t, DepsFor(t, Q, m, n)) =
            IF p \in DepsFor(t, Q, m, n) THEN e ELSE EdgeFrom(t, DepsFor(t, P, m, n))
        BY EdgesGrow DEF e
    <2>3. g.edge[m][n] = EdgeFrom(t, DepsFor(t, P, m, n))
        BY EdgeSaid
    <2>4. Says(t, Q).edge[m][n] = EdgeFrom(t, DepsFor(t, Q, m, n))
        BY EdgeSaid
    <2> QED
        BY <1>3, <1>5, <2>1, <2>2, <2>3, <2>4
<1>7. j = Says(t, Q)
    BY <1>4, <1>5, <1>6, SameAsSays
<1> QED
    BY <1>7 DEF j, h, e

LEMMA BeginStep ==
    ASSUME ReaderInvariant, BeginAttr \/ BeginDep
    PROVE  ReaderInvariant'
<1> DEFINE k == IF Line.kind = "attr" THEN Line.node ELSE Line.target
           p == <<at, 0>>
<1>1. /\ verdict = "reading" /\ at \in DOMAIN text /\ word = 0 /\ Line.kind \in {"attr", "dep"}
      /\ built' = WithNode(built, k) /\ word' = 1 /\ UNCHANGED <<text, at, verdict>>
      /\ Line.kind = "attr" => Line.pairs # <<>> /\ attr' = built'.attr[k]
      /\ Line.kind = "dep" => Line.target # Absent /\ TransformOf(Line) \in ValidTransforms
                              /\ Len(Line.deps) <= LineCap /\ attr' = attr
    BY DEF BeginAttr, BeginDep, Starts, NextWord, ReaderInvariant
<1>2. text \in Seq(Lines) /\ at \in Nat /\ Line \in Lines /\ Len(Words(Line)) \in Nat
    BY <1>1, ReaderTypes
<1>3. k \in Node
    BY <1>1, <1>2, LineTypes
<1>4. built \in Graphs /\ built = Says(text, Taken) /\ Taken \in SUBSET Places(text)
    BY <1>1, ReaderTypes DEF ReaderInvariant, Current
<1>5. GrowsBy(Taken, p, Taken') /\ p \in Nat \X Nat /\ p[2] = 0
    BY <1>1, <1>2, TakenGrows DEF Taken, GrowsBy
<1>6. \A n \in Node : Names(text, p, n) <=> n = k
    BY <1>1 DEF Names, Line
<1> HIDE DEF k
<1>7. WithNode(built, k) = Says(text, Taken')
    BY <1>2, <1>3, <1>4, <1>5, <1>6, BeginningRead
<1>8. built' \in Graphs /\ HasNode(built', k) /\ Acyclic(built')
    BY <1>1, <1>3, <1>4, WithNodeEffect DEF ReaderInvariant
<1>9. Line' = Line
    BY <1>1 DEF Line
<1>10. Current' = built'
    <2>1. CASE Line.kind = "attr"
        <3>1. Current' = PutNode(built', k, built'.attr[k])
            BY <1>1, <1>9, <2>1 DEF Current, k
        <3> QED
            BY <1>8, <3>1 DEF PutNode, Graphs
    <2>2. CASE Line.kind # "attr"
        BY <1>1, <1>9, <2>2 DEF Current
    <2> QED
        BY <2>1, <2>2
<1>11. attr' \in Attr
    <2>1. CASE Line.kind = "attr"
        BY <1>1, <1>3, <1>8, <2>1 DEF Graphs, HasNode
    <2>2. CASE Line.kind = "dep"
        BY <1>1, <2>2 DEF ReaderInvariant
    <2> QED
        BY <1>1, <2>1, <2>2
<1>12. Line.kind = "dep" => WellFormed(Line)
    BY <1>1 DEF WellFormed, TransformOf
<1>13. word' <= Len(Words(Line)) + 1 /\ word' \in Nat
    BY <1>1, <1>2
<1>14. Current' = Says(text', Taken')
    BY <1>1, <1>7, <1>10
<1>15. word' # 0 =>
        /\ at' \in DOMAIN text'
        /\ Line'.kind \in {"attr", "dep"}
        /\ word' <= Len(Words(Line')) + 1
        /\ Line'.kind = "attr" =>
             /\ Line'.pairs # <<>> /\ HasNode(built', Line'.node)
             /\ \A i \in 1..(word' - 1) : Line'.pairs[i].key # Absent
        /\ Line'.kind = "dep" => WellFormed(Line') /\ HasNode(built', Line'.target)
    BY <1>1, <1>8, <1>9, <1>12, <1>13 DEF k
<1> QED
    BY <1>1, <1>8, <1>11, <1>13, <1>14, <1>15 DEF ReaderInvariant

(* The end of a line that is well formed and says no more.                 *)
LEMMA LineStep ==
    ASSUME ReaderInvariant, at \in DOMAIN text, verdict = "reading", WellFormed(Line), NextLine,
           built' \in Graphs, attr' \in Attr, Acyclic(built'), built' = Says(text, Taken')
    PROVE  ReaderInvariant'
<1>1. /\ text \in Seq(Lines) /\ Len(text) \in Nat /\ DOMAIN text = 1..Len(text)
      /\ at \in Nat /\ at \in 1..Len(text)
    BY ReaderTypes
<1>2. at' = at + 1 /\ word' = 0 /\ UNCHANGED <<text, verdict>>
    BY DEF NextLine
<1>3. Current' = built'
    BY <1>2 DEF Current
<1>4. at' \in 1..(Len(text) + 1) /\ \A i \in 1..(at' - 1) : WellFormed(text[i])
    <2>1. \A i \in 1..(at - 1) : WellFormed(text[i])
        BY DEF ReaderInvariant
    <2>2. \A i \in 1..(at' - 1) : i \in 1..(at - 1) \/ i = at
        BY <1>1, <1>2
    <2> QED
        BY <1>1, <1>2, <2>1, <2>2 DEF Line
<1>5. Current' = Says(text', Taken')
    BY <1>2, <1>3
<1> QED
    BY <1>2, <1>4, <1>5 DEF ReaderInvariant

LEMMA SkipLineStep ==
    ASSUME ReaderInvariant, SkipLine
    PROVE  ReaderInvariant'
<1> DEFINE p == <<at, 0>>
<1>1. /\ verdict = "reading" /\ at \in DOMAIN text /\ word = 0 /\ Line.kind = "blank"
      /\ NextLine /\ UNCHANGED <<attr, built>>
    BY DEF SkipLine, Starts
<1>2. text \in Seq(Lines) /\ Line \in Lines /\ Len(Words(Line)) = 0
    BY <1>1, ReaderTypes, LineTypes
<1>3. built \in Graphs /\ built = Says(text, Taken) /\ attr \in Attr /\ Acyclic(built)
    BY <1>1 DEF ReaderInvariant, Current
<1>4. GrowsBy(Taken, p, Taken') /\ p \in Nat \X Nat
    BY <1>1, <1>2, TakenGrows DEF Taken, GrowsBy, NextLine
<1>5. \A n \in Node : ~Names(text, p, n)
    BY <1>1 DEF Names, Line
<1>6. built = Says(text, Taken')
    BY <1>3, <1>4, <1>5, NothingRead
<1>7. WellFormed(Line)
    BY <1>1 DEF WellFormed
<1> QED
    BY <1>1, <1>3, <1>6, <1>7, LineStep

LEMMA EndStep ==
    ASSUME ReaderInvariant, EndAttr \/ EndDep
    PROVE  ReaderInvariant'
<1>1. /\ verdict = "reading" /\ word # 0 /\ word > Len(Words(Line)) /\ NextLine
      /\ EndAttr => Line.kind = "attr" /\ built' = PutNode(built, Line.node, attr) /\ attr' = NoAttr
      /\ EndDep => Line.kind = "dep" /\ UNCHANGED <<attr, built>>
    BY DEF EndAttr, EndDep, Ends
<1>2. at \in DOMAIN text /\ built \in Graphs /\ attr \in Attr /\ Acyclic(built) /\ word \in Nat
    BY <1>1 DEF ReaderInvariant
<1>3. text \in Seq(Lines) /\ Line \in Lines /\ Len(Words(Line)) \in Nat
    BY <1>2, ReaderTypes
<1>4. Taken' = Taken
    BY <1>1, <1>2, TakenStays DEF Taken, NextLine
<1>5. Current = built' /\ Current = Says(text, Taken)
    BY <1>1 DEF Current, ReaderInvariant
<1>6. built' \in Graphs /\ Acyclic(built') /\ attr' \in Attr
    <2>1. CASE EndAttr
        <3>1. Line.node \in Node
            BY <1>1, <1>3, <2>1, LineTypes
        <3> QED
            BY <1>1, <1>2, <2>1, <3>1, PutNodeType, PutNodeEffect, FewerEdgesAcyclic, AttrAssumption
    <2>2. CASE EndDep
        BY <1>1, <1>2, <2>2
    <2> QED
        BY <2>1, <2>2
<1>7. WellFormed(Line)
    <2>1. CASE EndAttr
        <3>1. Line.pairs # <<>> /\ \A i \in 1..(word - 1) : Line.pairs[i].key # Absent
            BY <1>1, <2>1 DEF ReaderInvariant
        <3>2. DOMAIN Line.pairs = 1..Len(Line.pairs) /\ Words(Line) = Line.pairs
            BY <1>1, <1>3, <2>1, LineTypes
        <3>3. \A i \in DOMAIN Line.pairs : i \in 1..(word - 1)
            BY <1>1, <1>2, <1>3, <3>2
        <3> QED
            BY <1>1, <2>1, <3>1, <3>3 DEF WellFormed
    <2>2. CASE EndDep
        BY <1>1, <2>2 DEF ReaderInvariant
    <2> QED
        BY <2>1, <2>2
<1>8. built' = Says(text, Taken')
    BY <1>4, <1>5
<1> QED
    BY <1>1, <1>2, <1>6, <1>7, <1>8, LineStep

(* A word of a line.                                                       *)
LEMMA WordTypes ==
    ASSUME ReaderInvariant, NEW kind \in {"attr", "dep"}, Reads(kind)
    PROVE  /\ verdict = "reading" /\ word # 0 /\ word \in Nat /\ Line.kind = kind
           /\ at \in DOMAIN text /\ word <= Len(Words(Line))
           /\ text \in Seq(Lines) /\ Line \in Lines /\ Taken \in SUBSET Places(text)
           /\ word \in DOMAIN Words(Line)
           /\ WordAt(text, <<at, word>>) = Words(Line)[word]
           /\ <<at, word>> \in Nat \X Nat /\ <<at, word>>[2] # 0
           /\ NextWord => GrowsBy(Taken, <<at, word>>, Taken')
<1>1. /\ verdict = "reading" /\ word # 0 /\ word \in Nat /\ Line.kind = kind
      /\ at \in DOMAIN text /\ word <= Len(Words(Line))
    BY DEF Reads, ReaderInvariant
<1>2. text \in Seq(Lines) /\ Line \in Lines /\ Taken \in SUBSET Places(text)
    BY <1>1, ReaderTypes
<1>3. word \in DOMAIN Words(Line)
    <2>1. kind = "attr" => Words(Line) \in Seq([key : {"layer", "owner", Absent}, value : Name])
        BY <1>1, <1>2, LineTypes
    <2>2. kind = "dep" => Words(Line) \in Seq(Node \cup {Absent})
        BY <1>1, <1>2, LineTypes
    <2>3. DOMAIN Words(Line) = 1..Len(Words(Line)) /\ Len(Words(Line)) \in Nat
        BY <2>1, <2>2
    <2> QED
        BY <1>1, <2>3
<1>4. WordAt(text, <<at, word>>) = Words(Line)[word]
    BY DEF WordAt, Line
<1>5. <<at, word>> \in Nat \X Nat /\ (NextWord => GrowsBy(Taken, <<at, word>>, Taken'))
    BY <1>1, TakenGrows DEF Taken, GrowsBy, NextWord
<1> QED
    BY <1>1, <1>2, <1>3, <1>4, <1>5

LEMMA WordStep ==
    ASSUME ReaderInvariant, NEW kind \in {"attr", "dep"}, Reads(kind), NextWord,
           kind = "attr" => Line.pairs[word].key # Absent,
           built' \in Graphs, attr' \in Attr, Acyclic(built'),
           \A n \in Node : HasNode(built, n) => HasNode(built', n),
           Current' = Says(text, Taken')
    PROVE  ReaderInvariant'
<1>1. /\ word # 0 /\ word \in Nat /\ at \in DOMAIN text /\ word <= Len(Words(Line))
      /\ Line \in Lines /\ Line.kind = kind /\ Len(Words(Line)) \in Nat
    BY WordTypes, LineTypes
<1>2. word' = word + 1 /\ UNCHANGED <<text, at, verdict>> /\ Line' = Line
    BY DEF NextWord, Line
<1>3. word' \in Nat /\ word' <= Len(Words(Line)) + 1 /\ (word' - 1) = word
    BY <1>1, <1>2
<1>4. kind = "attr" => /\ Line.pairs # <<>> /\ HasNode(built', Line.node)
                       /\ \A i \in 1..(word' - 1) : Line.pairs[i].key # Absent
    <2> SUFFICES ASSUME kind = "attr"
                 PROVE  /\ Line.pairs # <<>> /\ HasNode(built', Line.node)
                        /\ \A i \in 1..(word' - 1) : Line.pairs[i].key # Absent
        OBVIOUS
    <2>1. /\ Line.pairs # <<>> /\ HasNode(built, Line.node)
          /\ \A i \in 1..(word - 1) : Line.pairs[i].key # Absent
        BY <1>1 DEF ReaderInvariant
    <2>2. Line.node \in Node
        BY <1>1, LineTypes
    <2>3. \A i \in 1..word : i \in 1..(word - 1) \/ i = word
        BY <1>1
    <2>4. 1..(word' - 1) = 1..word
        BY <1>3
    <2> QED
        BY <2>1, <2>2, <2>3, <2>4
<1>5. kind = "dep" => WellFormed(Line) /\ HasNode(built', Line.target)
    <2> SUFFICES ASSUME kind = "dep" PROVE WellFormed(Line) /\ HasNode(built', Line.target)
        OBVIOUS
    <2>1. WellFormed(Line) /\ HasNode(built, Line.target) /\ Line.target \in Node \cup {Absent}
        BY <1>1, LineTypes DEF ReaderInvariant
    <2>2. Line.target \in Node
        BY <1>1, <2>1 DEF WellFormed
    <2> QED
        BY <2>1, <2>2
<1>6. word' # 0 =>
        /\ at' \in DOMAIN text'
        /\ Line'.kind \in {"attr", "dep"}
        /\ word' <= Len(Words(Line')) + 1
        /\ Line'.kind = "attr" =>
             /\ Line'.pairs # <<>> /\ HasNode(built', Line'.node)
             /\ \A i \in 1..(word' - 1) : Line'.pairs[i].key # Absent
        /\ Line'.kind = "dep" => WellFormed(Line') /\ HasNode(built', Line'.target)
    BY <1>1, <1>2, <1>3, <1>4, <1>5
<1>7. Current' = Says(text', Taken')
    BY <1>2
<1> QED
    BY <1>2, <1>3, <1>6, <1>7 DEF ReaderInvariant

LEMMA TakePairStep ==
    ASSUME ReaderInvariant, TakePair
    PROVE  ReaderInvariant'
<1> DEFINE p == <<at, word>>
           w == Line.pairs[word]
           k == Line.node
           g == Current
<1>1. /\ Reads("attr") /\ NextWord /\ w.key # Absent /\ attr' = WithPair(attr, w) /\ built' = built
    BY DEF TakePair
<1>2. /\ verdict = "reading" /\ word # 0 /\ Line.kind = "attr" /\ Line \in Lines
      /\ text \in Seq(Lines) /\ Taken \in SUBSET Places(text)
      /\ word \in DOMAIN Words(Line) /\ WordAt(text, p) = Words(Line)[word]
      /\ p \in Nat \X Nat /\ p[2] # 0 /\ GrowsBy(Taken, p, Taken')
    BY <1>1, WordTypes
<1>3. /\ Words(Line) = Line.pairs /\ k \in Node
      /\ Line.pairs \in Seq([key : {"layer", "owner", Absent}, value : Name])
    BY <1>2, LineTypes
<1>4. w \in [key : {"layer", "owner", Absent}, value : Name]
    <2>1. word \in 1..Len(Line.pairs)
        BY <1>2, <1>3
    <2> QED
        BY <1>3, <2>1, ElementOfSeq, Zenon
<1>5. w = WordAt(text, p) /\ w.key \in {"layer", "owner"} /\ w.value \in Name
    BY <1>1, <1>2, <1>3, <1>4
<1>6. g = PutNode(built, k, attr) /\ g \in Graphs /\ HasNode(g, k) /\ g.attr[k] = attr
    <2>1. g = PutNode(built, k, attr) /\ built \in Graphs /\ attr \in Attr
        BY <1>2 DEF Current, ReaderInvariant
    <2> QED
        BY <1>3, <2>1, PutNodeType, PutNodeEffect DEF PutNode, Graphs
<1>7. g = Says(text, Taken)
    BY DEF ReaderInvariant
<1>8. text[p[1]].kind = "attr" /\ text[p[1]].node = k
    BY <1>2 DEF Line
<1> HIDE DEF w, g, k, p
<1>9. WithPair(g.attr[k], w) \in Attr /\ PutNode(g, k, WithPair(g.attr[k], w)) = Says(text, Taken')
    BY <1>2, <1>3, <1>5, <1>6, <1>7, <1>8, PairRead
<1>10. Current' = Says(text, Taken')
    <2>1. word' # 0 /\ Line' = Line /\ built' = built
        BY <1>1 DEF NextWord, Line, ReaderInvariant
    <2>2. Current' = PutNode(built, k, attr')
        BY <1>2, <2>1 DEF Current, k
    <2>3. PutNode(g, k, attr') = PutNode(built, k, attr')
        <3>1. built.attr \in [Node -> Attr \cup {Absent}]
            BY DEF ReaderInvariant, Graphs
        <3> QED
            BY <1>3, <1>6, <3>1 DEF PutNode
    <2> QED
        BY <1>1, <1>6, <1>9, <2>2, <2>3
<1>11. built' \in Graphs /\ Acyclic(built') /\ attr' \in Attr
    BY <1>1, <1>6, <1>9 DEF ReaderInvariant
<1>12. Line.pairs[word].key # Absent
    BY <1>1 DEF w
<1> QED
    BY <1>1, <1>10, <1>11, <1>12, WordStep

LEMMA SkipDepStep ==
    ASSUME ReaderInvariant, SkipDep
    PROVE  ReaderInvariant'
<1> DEFINE p == <<at, word>>
<1>1. Reads("dep") /\ NextWord /\ Line.deps[word] = Absent /\ UNCHANGED <<attr, built>>
    BY DEF SkipDep
<1>2. /\ word # 0 /\ Line.kind = "dep" /\ Line \in Lines
      /\ WordAt(text, p) = Words(Line)[word]
      /\ p \in Nat \X Nat /\ p[2] # 0 /\ GrowsBy(Taken, p, Taken')
    BY <1>1, WordTypes
<1>3. /\ built \in Graphs /\ built = Says(text, Taken) /\ attr \in Attr /\ Acyclic(built)
    BY <1>2 DEF ReaderInvariant, Current
<1>4. WordAt(text, p) = Absent /\ text[p[1]].kind = "dep"
    BY <1>1, <1>2, LineTypes DEF Line
<1>5. \A n \in Node : ~Names(text, p, n)
    BY <1>2, <1>4, AbsentAssumption DEF Names
<1> HIDE DEF p
<1>6. built = Says(text, Taken')
    BY <1>2, <1>3, <1>5, NothingRead
<1>7. Current' = built
    BY <1>1, <1>2 DEF Current, Line, NextWord
<1> QED
    BY <1>1, <1>3, <1>6, <1>7, WordStep

(* What a dependency does to the graph, whether it is allowed or not.      *)
LEMMA DepEffect ==
    ASSUME ReaderInvariant, Reads("dep"), Line.deps[word] # Absent
    PROVE  LET g == WithNode(built, Line.deps[word])
           IN  /\ Line.deps[word] \in Node /\ Line.target \in Node /\ WellFormed(Line)
               /\ EdgeOf(Line) \in EdgeAttr
               /\ g \in Graphs /\ Acyclic(g) /\ HasNode(g, Line.deps[word]) /\ HasNode(g, Line.target)
               /\ \A n \in Node : HasNode(built, n) => HasNode(g, n)
               /\ g.edge = built.edge
               /\ \A Q : GrowsBy(Taken, <<at, word>>, Q) =>
                    PutEdge(g, Line.deps[word], Line.target, EdgeOf(Line)) = Says(text, Q)
<1> DEFINE p == <<at, word>>
           d == Line.deps[word]
           g == WithNode(built, d)
<1>1. /\ word # 0 /\ Line.kind = "dep" /\ Line \in Lines /\ text \in Seq(Lines)
      /\ word \in DOMAIN Words(Line) /\ Taken \in SUBSET Places(text)
      /\ WordAt(text, p) = Words(Line)[word] /\ p \in Nat \X Nat /\ p[2] # 0
    BY WordTypes
<1>2. /\ Words(Line) = Line.deps /\ Line.deps \in Seq(Node \cup {Absent})
      /\ Line.target \in Node \cup {Absent}
    BY <1>1, LineTypes
<1>3. d \in Node
    BY <1>1, <1>2
<1>4. WellFormed(Line) /\ HasNode(built, Line.target)
    BY <1>1 DEF ReaderInvariant
<1>5. Line.target \in Node /\ EdgeOf(Line) \in EdgeAttr
    BY <1>1, <1>2, <1>4, TransformAssumption DEF WellFormed, EdgeOf, TransformOf, ValidTransforms
<1>6. built \in Graphs /\ built = Says(text, Taken) /\ Acyclic(built)
    BY <1>1 DEF ReaderInvariant, Current
<1>7. text[p[1]] = Line /\ d = WordAt(text, p)
    BY <1>1, <1>2 DEF Line
<1>8. /\ g \in Graphs /\ Acyclic(g) /\ HasNode(g, d) /\ HasNode(g, Line.target)
      /\ \A n \in Node : HasNode(built, n) => HasNode(g, n)
      /\ g.edge = built.edge
    BY <1>3, <1>4, <1>5, <1>6, WithNodeEffect
<1> HIDE DEF p, d
<1>9. ASSUME NEW Q, GrowsBy(Taken, p, Q)
      PROVE  PutEdge(g, d, Line.target, EdgeOf(Line)) = Says(text, Q)
    BY <1>1, <1>3, <1>5, <1>6, <1>7, <1>9, DepRead
<1> HIDE DEF g
<1>10. /\ d \in Node /\ Line.target \in Node /\ WellFormed(Line) /\ EdgeOf(Line) \in EdgeAttr
       /\ \A Q : GrowsBy(Taken, p, Q) => PutEdge(g, d, Line.target, EdgeOf(Line)) = Says(text, Q)
    BY <1>3, <1>4, <1>5, <1>9
<1> QED
    BY <1>8, <1>10 DEF p, d, g

LEMMA TakeDepStep ==
    ASSUME ReaderInvariant, TakeDep
    PROVE  ReaderInvariant'
<1> DEFINE d == Line.deps[word]
           g == WithNode(built, d)
<1>1. /\ Reads("dep") /\ NextWord /\ d # Absent /\ EdgeAllowed(g, d, Line.target)
      /\ built' = PutEdge(g, d, Line.target, EdgeOf(Line)) /\ attr' = attr
    BY DEF TakeDep
<1>2. /\ d \in Node /\ Line.target \in Node /\ EdgeOf(Line) \in EdgeAttr
      /\ g \in Graphs /\ Acyclic(g)
      /\ \A n \in Node : HasNode(built, n) => HasNode(g, n)
      /\ \A Q : GrowsBy(Taken, <<at, word>>, Q) => built' = Says(text, Q)
    BY <1>1, DepEffect
<1>3. GrowsBy(Taken, <<at, word>>, Taken') /\ Line.kind = "dep"
    BY <1>1, WordTypes
<1>4. built' = Says(text, Taken')
    BY <1>2, <1>3
<1> HIDE DEF g, d
<1>5. built' \in Graphs /\ Acyclic(built') /\ \A n \in Node : HasNode(built, n) => HasNode(built', n)
    BY <1>1, <1>2, PutEdgeType, PutEdgeEffect, PutEdgeAcyclic
<1>6. Current' = built' /\ attr' \in Attr
    BY <1>1, <1>3 DEF Current, Line, NextWord, ReaderInvariant
<1> QED
    BY <1>1, <1>4, <1>5, <1>6, WordStep

(* A refusal.                                                              *)
LEMMA FailStep ==
    ASSUME ReaderInvariant, Fail, ~Legal(text), verdict = "reading"
    PROVE  ReaderInvariant'
<1>1. verdict' = "refused" /\ UNCHANGED <<text, at, word, attr, built>>
    BY DEF Fail
<1>2. Current' = Current /\ Taken' = Taken /\ Line' = Line
    BY <1>1 DEF Current, Taken, Line
<1>3. Current' = Says(text', Taken')
    BY <1>1, <1>2 DEF ReaderInvariant
<1> QED
    BY <1>1, <1>2, <1>3 DEF ReaderInvariant

LEMMA RefuseLineStep ==
    ASSUME ReaderInvariant, RefuseLine \/ RefusePair
    PROVE  ReaderInvariant'
<1>1. Fail /\ verdict = "reading" /\ at \in DOMAIN text
    BY DEF RefuseLine, RefusePair, Starts, Reads, ReaderInvariant
<1>2. ~WellFormed(Line)
    <2>1. CASE RefuseLine
        <3>1. CASE Starts("other") \/ (Starts("attr") /\ Line.pairs = <<>>)
            BY <3>1 DEF Starts, WellFormed
        <3>2. CASE Starts("dep") /\ (Line.target = Absent \/ TransformOf(Line) \notin ValidTransforms)
            <4>1. "direct" \in ValidTransforms
                BY DEF ValidTransforms
            <4> QED
                BY <3>2, <4>1 DEF Starts, WellFormed, TransformOf
        <3>3. CASE Starts("dep") /\ Len(Line.deps) > LineCap
            <4>1. Line.kind = "dep" /\ Line.deps \in Seq(Node \cup {Absent})
                BY <1>1, <3>3, ReaderTypes, LineTypes DEF Starts
            <4>2. ~(Len(Line.deps) <= LineCap)
                BY <3>3, <4>1, LineCapAssumption
            <4> QED
                BY <4>1, <4>2 DEF WellFormed
        <3> QED
            BY <2>1, <3>1, <3>2, <3>3 DEF RefuseLine
    <2>2. CASE RefusePair
        <3>1. Line.kind = "attr" /\ word \in DOMAIN Words(Line) /\ Line \in Lines
            BY <2>2, WordTypes DEF RefusePair
        <3>2. word \in DOMAIN Line.pairs /\ Line.pairs[word].key = Absent
            BY <2>2, <3>1, LineTypes DEF RefusePair
        <3> QED
            BY <3>1, <3>2 DEF WellFormed
    <2> QED
        BY <2>1, <2>2
<1>3. ~Legal(text)
    BY <1>1, <1>2 DEF Legal, Line
<1> QED
    BY <1>1, <1>3, FailStep

(* The edge that is refused would close a cycle with edges that the text   *)
(* declares, whatever follows.                                             *)
LEMMA RefuseDepStep ==
    ASSUME ReaderInvariant, RefuseDep
    PROVE  ReaderInvariant'
<1> DEFINE d == Line.deps[word]
           g == WithNode(built, d)
           p == <<at, word>>
           Q == Taken \cup {p}
           all == Declared(text)
<1>1. /\ Reads("dep") /\ d # Absent /\ ~EdgeAllowed(g, d, Line.target) /\ Fail
      /\ verdict = "reading"
    BY DEF RefuseDep, Reads
<1>2. /\ d \in Node /\ Line.target \in Node /\ EdgeOf(Line) \in EdgeAttr /\ g \in Graphs
      /\ HasNode(g, d) /\ HasNode(g, Line.target)
      /\ \A R : GrowsBy(Taken, p, R) => PutEdge(g, d, Line.target, EdgeOf(Line)) = Says(text, R)
    BY <1>1, DepEffect
<1>3. /\ text \in Seq(Lines) /\ Taken \in SUBSET Places(text) /\ at \in DOMAIN text
      /\ word <= Len(Words(Line))
    BY <1>1, WordTypes
<1>4. p \in Places(text) /\ GrowsBy(Taken, p, Q) /\ Q \in SUBSET Places(text)
    BY <1>3, TakenGrows DEF GrowsBy
<1> HIDE DEF d, g, p, Q
<1>5. PutEdge(g, d, Line.target, EdgeOf(Line)) = Says(text, Q)
    BY <1>2, <1>4
<1>6. ASSUME Legal(text) PROVE FALSE
    <2>1. (\A i \in DOMAIN text : WellFormed(text[i])) /\ Acyclic(all)
        BY <1>6 DEF Legal
    <2>2. all = Says(text, Places(text)) /\ Places(text) \in SUBSET Places(text)
        BY DEF Declared
    <2> HIDE DEF all
    <2>3. \A m, n \in Node : HasEdge(Says(text, Q), m, n) => HasEdge(all, m, n)
        BY <1>3, <1>4, <2>1, <2>2, MorePlacesMoreEdges
    <2>4. /\ HasEdge(Says(text, Q), d, Line.target)
          /\ \A m, n \in Node : HasEdge(g, m, n) => HasEdge(Says(text, Q), m, n)
        BY <1>2, <1>5, PutEdgeEffect
    <2>5. HasEdge(all, d, Line.target) /\ \A m, n \in Node : HasEdge(g, m, n) => HasEdge(all, m, n)
        BY <1>2, <2>3, <2>4
    <2>6. d # Line.target
        BY <1>2, <2>1, <2>5, NoSelfLoop
    <2>7. Reaches(g, Line.target, d)
        BY <1>1, <1>2, <2>6 DEF EdgeAllowed
    <2>8. Reaches(all, Line.target, d)
        BY <2>5, <2>7, MoreEdgesReach
    <2> QED
        BY <1>2, <2>1, <2>5, <2>8, NoWayBack
<1> QED
    BY <1>1, <1>6, FailStep

(* Past the last line every place has been read.                           *)
LEMMA AllTaken ==
    ASSUME ReaderInvariant, at \notin DOMAIN text
    PROVE  /\ at = Len(text) + 1 /\ word = 0
           /\ Taken = Places(text)
<1>1. text \in Seq(Lines) /\ Len(text) \in Nat /\ DOMAIN text = 1..Len(text)
    BY ReaderTypes
<1>2. at = Len(text) + 1
    <2>1. at \in 1..(Len(text) + 1)
        BY DEF ReaderInvariant
    <2> QED
        BY <1>1, <2>1
<1>3. \A p \in Places(text) : p[1] \in 1..Len(text)
    BY <1>1, TextTypes
<1>4. \A p \in Places(text) : p[1] < at
    BY <1>1, <1>2, <1>3
<1> QED
    BY <1>2, <1>4 DEF Taken, ReaderInvariant

LEMMA AcceptStep ==
    ASSUME ReaderInvariant, Accept
    PROVE  ReaderInvariant'
<1>1. at \notin DOMAIN text /\ verdict' = "accepted" /\ UNCHANGED <<text, at, word, attr, built>>
    BY DEF Accept
<1>2. at = Len(text) + 1
    BY <1>1, AllTaken
<1>3. Current' = Current /\ Taken' = Taken /\ Line' = Line
    BY <1>1 DEF Current, Taken, Line
<1>4. Current' = Says(text', Taken')
    BY <1>1, <1>3 DEF ReaderInvariant
<1> QED
    BY <1>1, <1>2, <1>3, <1>4 DEF ReaderInvariant

LEMMA ReaderInvariantInit == ReaderInit => ReaderInvariant
<1> SUFFICES ASSUME ReaderInit PROVE ReaderInvariant
    OBVIOUS
<1>1. /\ text \in Texts /\ at = 1 /\ word = 0 /\ attr = NoAttr /\ built = EmptyGraph
      /\ verdict = "reading"
    BY DEF ReaderInit
<1>2. text \in Seq(Lines) /\ Len(text) \in Nat
    BY <1>1, TextsAssumption, TextTypes
<1>3. \A p \in Places(text) : p[1] \in Nat \ {0} /\ p[2] \in Nat
    BY <1>2, TextTypes
<1>4. Taken = {}
    BY <1>1, <1>3 DEF Taken
<1>5. built \in Graphs /\ Acyclic(built)
    BY <1>1, EmptyGraphType, EmptyGraphDag DEF IsDag
<1>6. built = Says(text, Taken)
    <2>1. \A n \in Node : built.attr[n] = Says(text, Taken).attr[n]
        BY <1>1, <1>4 DEF EmptyGraph, Says
    <2>2. \A m, n \in Node : built.edge[m][n] = Says(text, Taken).edge[m][n]
        BY <1>1, <1>4 DEF EmptyGraph, Says, EdgeFrom, DepsFor
    <2> QED
        BY <1>5, <2>1, <2>2, SameAsSays
<1>7. Current = built /\ attr \in Attr /\ at \in 1..(Len(text) + 1) /\ 1..(at - 1) = {}
    BY <1>1, <1>2, AttrAssumption DEF Current
<1> QED
    BY <1>1, <1>5, <1>6, <1>7 DEF ReaderInvariant

LEMMA ReaderInvariantStep ==
    ASSUME ReaderInvariant, [ReaderNext]_readerVars
    PROVE  ReaderInvariant'
<1>1. CASE SkipLine
    BY <1>1, SkipLineStep
<1>2. CASE BeginAttr \/ BeginDep
    BY <1>2, BeginStep
<1>3. CASE TakePair
    BY <1>3, TakePairStep
<1>4. CASE SkipDep
    BY <1>4, SkipDepStep
<1>5. CASE TakeDep
    BY <1>5, TakeDepStep
<1>6. CASE EndAttr \/ EndDep
    BY <1>6, EndStep
<1>7. CASE RefuseLine \/ RefusePair
    BY <1>7, RefuseLineStep
<1>8. CASE RefuseDep
    BY <1>8, RefuseDepStep
<1>9. CASE Accept
    BY <1>9, AcceptStep
<1>10. CASE UNCHANGED readerVars
    <2>1. UNCHANGED <<text, at, word, attr, built, verdict>>
        BY <1>10 DEF readerVars
    <2>2. Current' = Current /\ Taken' = Taken /\ Line' = Line
        BY <2>1 DEF Current, Taken, Line
    <2>3. Current' = Says(text', Taken')
        BY <2>1, <2>2 DEF ReaderInvariant
    <2> QED
        BY <2>1, <2>2, <2>3 DEF ReaderInvariant
<1> QED
    BY <1>1, <1>2, <1>3, <1>4, <1>5, <1>6, <1>7, <1>8, <1>9, <1>10 DEF ReaderNext

(* ParseSpec accepts exactly the texts whose lines are well formed and     *)
(* whose edges have no cycle, and then returns the graph they declare.     *)
THEOREM ReaderDecides == ReaderSpec => []ParseDecides
<1>1. ReaderInvariant => ParseDecides
    <2> SUFFICES ASSUME ReaderInvariant PROVE ParseDecides
        OBVIOUS
    <2>1. verdict = "refused" => ~Legal(text)
        BY DEF ReaderInvariant
    <2>2. ASSUME verdict = "accepted" PROVE Legal(text) /\ built = Declared(text)
        <3>1. at = Len(text) + 1 /\ Len(text) \in Nat /\ DOMAIN text = 1..Len(text)
            BY <2>2, ReaderTypes DEF ReaderInvariant
        <3>2. word = 0 /\ Taken = Places(text) /\ 1..(at - 1) = DOMAIN text
            BY <3>1, AllTaken
        <3>3. built = Declared(text)
            BY <3>2 DEF ReaderInvariant, Current, Declared
        <3>4. \A i \in DOMAIN text : WellFormed(text[i])
            BY <3>2 DEF ReaderInvariant
        <3>5. Acyclic(Declared(text))
            BY <3>3 DEF ReaderInvariant
        <3> QED
            BY <3>3, <3>4, <3>5 DEF Legal
    <2> QED
        BY <2>1, <2>2 DEF ParseDecides
<1> QED
    BY <1>1, ReaderInvariantInit, ReaderInvariantStep, PTL DEF ReaderSpec

-----------------------------------------------------------------------------
(* The writer.                                                             *)

Occurs(x, s) == \E i \in DOMAIN s : s[i] = x

LEMMA OccursFacts ==
    ASSUME NEW S, NEW s \in Seq(S)
    PROVE  /\ s # <<>> => /\ Head(s) \in S /\ Tail(s) \in Seq(S)
                          /\ \A x : Occurs(x, s) <=> x = Head(s) \/ Occurs(x, Tail(s))
           /\ \A y \in S : /\ Append(s, y) \in Seq(S)
                           /\ \A x : Occurs(x, Append(s, y)) <=> x = y \/ Occurs(x, s)
<1>1. ASSUME s # <<>>
      PROVE  /\ Head(s) \in S /\ Tail(s) \in Seq(S)
             /\ \A x : Occurs(x, s) <=> x = Head(s) \/ Occurs(x, Tail(s))
    <2>1. Len(s) \in Nat /\ Len(s) # 0 /\ DOMAIN s = 1..Len(s) /\ Head(s) = s[1] /\ Tail(s) \in Seq(S)
        BY <1>1
    <2>2. Head(s) \in S
        BY <1>1
    <2>3. /\ DOMAIN Tail(s) = 1..(Len(s) - 1)
          /\ \A i \in 1..(Len(s) - 1) : Tail(s)[i] = s[i + 1]
        BY <1>1, <2>1
    <2>4. ASSUME NEW x PROVE Occurs(x, s) <=> x = Head(s) \/ Occurs(x, Tail(s))
        <3>1. ASSUME NEW i \in DOMAIN s, s[i] = x PROVE x = Head(s) \/ Occurs(x, Tail(s))
            <4>1. CASE i = 1
                BY <2>1, <3>1, <4>1
            <4>2. CASE i # 1
                <5>1. i - 1 \in 1..(Len(s) - 1) /\ (i - 1) + 1 = i
                    BY <2>1, <4>2
                <5> QED
                    BY <2>3, <3>1, <5>1 DEF Occurs
            <4> QED
                BY <4>1, <4>2
        <3>2. 1 \in DOMAIN s /\ \A i \in 1..(Len(s) - 1) : i + 1 \in DOMAIN s
            BY <2>1
        <3>3. x = Head(s) \/ Occurs(x, Tail(s)) => Occurs(x, s)
            BY <2>1, <2>3, <3>2 DEF Occurs
        <3> QED
            BY <3>1, <3>3 DEF Occurs
    <2> QED
        BY <2>1, <2>2, <2>4
<1>2. ASSUME NEW y \in S
      PROVE  /\ Append(s, y) \in Seq(S)
             /\ \A x : Occurs(x, Append(s, y)) <=> x = y \/ Occurs(x, s)
    <2>1. /\ Append(s, y) \in Seq(S) /\ Len(s) \in Nat /\ DOMAIN s = 1..Len(s)
          /\ DOMAIN Append(s, y) = 1..(Len(s) + 1)
          /\ Append(s, y)[Len(s) + 1] = y
          /\ \A i \in 1..Len(s) : Append(s, y)[i] = s[i]
        OBVIOUS
    <2>2. \A i \in 1..(Len(s) + 1) : i \in 1..Len(s) \/ i = Len(s) + 1
        BY <2>1
    <2>3. \A i \in 1..Len(s) : i \in 1..(Len(s) + 1)
        BY <2>1
    <2>4. Len(s) + 1 \in 1..(Len(s) + 1)
        BY <2>1
    <2> QED
        BY <2>1, <2>2, <2>3, <2>4 DEF Occurs
<1> QED
    BY <1>1, <1>2

(* The topological order lists every node once.                            *)
LEMMA SortListsNodes ==
    ASSUME NEW g, NEW s \in TopoOrders(g)
    PROVE  Lists(s, Nodes(g))
<1> DEFINE c == Cardinality(Nodes(g))
<1>1. IsFiniteSet(Nodes(g)) /\ c \in Nat
    BY NodeIsFinite, FS_Subset, FS_CardinalityType DEF Nodes
<1>2. s \in [1..c -> Nodes(g)] /\ IsTopoOrder(g, s)
    BY DEF TopoOrders
<1> HIDE DEF c
<1>3. \A k \in 1..c : s[k] \notin Before(s, k)
    BY <1>2 DEF IsTopoOrder, Ready
<1>4. ASSUME NEW i \in 1..c, NEW j \in 1..c, i < j PROVE s[i] # s[j]
    <2>1. i \in 1..(j - 1)
        BY <1>1, <1>4
    <2> QED
        BY <1>3, <2>1 DEF Before
<1> QED
    BY <1>1, <1>2, <1>4, ListingIsComplete DEF c

LEMMA OccursInBoth ==
    ASSUME NEW S, NEW r \in Seq(S), NEW s \in Seq(S)
    PROVE  r \o s \in Seq(S) /\ \A x : Occurs(x, r \o s) <=> Occurs(x, r) \/ Occurs(x, s)
<1>1. /\ Len(r) \in Nat /\ DOMAIN r = 1..Len(r) /\ Len(s) \in Nat /\ DOMAIN s = 1..Len(s)
      /\ r \o s \in Seq(S) /\ DOMAIN (r \o s) = 1..(Len(r) + Len(s))
      /\ \A i \in 1..Len(r) : (r \o s)[i] = r[i]
    OBVIOUS
<1>2. \A i \in 1..(Len(r) + Len(s)) : i \notin 1..Len(r) =>
        i - Len(r) \in 1..Len(s) /\ (r \o s)[i] = s[i - Len(r)]
    BY <1>1
<1>3. \A j \in 1..Len(s) : j + Len(r) \in 1..(Len(r) + Len(s)) /\ (r \o s)[j + Len(r)] = s[j]
    BY <1>1
<1>4. \A i \in 1..Len(r) : i \in 1..(Len(r) + Len(s))
    BY <1>1
<1>5. ASSUME NEW x PROVE Occurs(x, r \o s) <=> Occurs(x, r) \/ Occurs(x, s)
    BY <1>1, <1>2, <1>3, <1>4 DEF Occurs
<1> QED
    BY <1>1, <1>5

(* The words of a directive are the attributes that are set.               *)
LEMMA PairFacts ==
    ASSUME NEW key \in {"layer", "owner"}, NEW v \in Name
    PROVE  /\ Pair(key, v) \in Seq([key : {"layer", "owner", Absent}, value : Name])
           /\ \A x : Occurs(x, Pair(key, v)) <=> v # "" /\ x = [key |-> key, value |-> v]
<1> DEFINE W == [key : {"layer", "owner", Absent}, value : Name]
           y == [key |-> key, value |-> v]
<1>1. y \in W
    OBVIOUS
<1>2. Pair(key, v) = IF v = "" THEN <<>> ELSE <<y>>
    BY DEF Pair
<1> HIDE DEF W, y
<1>3. CASE v = ""
    <2>1. Pair(key, v) = <<>>
        BY <1>2, <1>3
    <2>2. Pair(key, v) \in Seq(W) /\ \A x : ~Occurs(x, Pair(key, v))
        BY <2>1 DEF Occurs
    <2> QED
        BY <1>3, <2>2 DEF W
<1>4. CASE v # ""
    <2>1. Pair(key, v) = <<y>>
        BY <1>2, <1>4
    <2>2. DOMAIN <<y>> = {1} /\ <<y>>[1] = y /\ <<y>> \in Seq(W)
        BY <1>1
    <2>3. \A x : Occurs(x, <<y>>) <=> x = y
        BY <2>2 DEF Occurs
    <2> QED
        BY <1>4, <2>1, <2>2, <2>3 DEF W, y
<1> QED
    BY <1>3, <1>4

LEMMA AttrPairsFacts ==
    ASSUME NEW a \in Attr
    PROVE  /\ AttrPairs(a) \in Seq([key : {"layer", "owner", Absent}, value : Name])
           /\ \A x : Occurs(x, AttrPairs(a)) <=>
                \/ a.layer # "" /\ x = [key |-> "layer", value |-> a.layer]
                \/ a.owner # "" /\ x = [key |-> "owner", value |-> a.owner]
<1>1. a.layer \in Name /\ a.owner \in Name
    BY NameAssumption
<1>2. /\ Pair("layer", a.layer) \in Seq([key : {"layer", "owner", Absent}, value : Name])
      /\ \A x : Occurs(x, Pair("layer", a.layer)) <=>
           a.layer # "" /\ x = [key |-> "layer", value |-> a.layer]
    BY <1>1, PairFacts
<1>3. /\ Pair("owner", a.owner) \in Seq([key : {"layer", "owner", Absent}, value : Name])
      /\ \A x : Occurs(x, Pair("owner", a.owner)) <=>
           a.owner # "" /\ x = [key |-> "owner", value |-> a.owner]
    BY <1>1, PairFacts
<1> QED
    BY <1>2, <1>3, OccursInBoth DEF AttrPairs

(* A dependency line has the members of S as its words.                    *)
IsLineFor(l, n, a, S) ==
    /\ l \in Lines /\ l.kind = "dep" /\ l.target = n
    /\ \A x : Occurs(x, Words(l)) <=> x \in S
    /\ a = "" => TransformOf(l) = "direct"
    /\ a # "" => TransformOf(l) = a
    /\ WellFormed(l) <=> a \in ValidTransforms \cup {""} /\ Cardinality(S) <= LineCap

LEMMA DepLineFacts ==
    ASSUME NEW n \in Node, NEW S \in SUBSET Node, NEW a \in STRING \ {Absent}
    PROVE  IsLineFor(DepLine(n, a, S), n, a, S)
<1> DEFINE d == Ascending(S, <)
           b == IF a \in {"direct", ""} THEN Absent ELSE a
           l == DepLine(n, a, S)
<1>1. Lists(d, S) /\ Len(d) = Cardinality(S)
    BY NodeAssumption, NodeIsFinite, MembersAscend
<1> HIDE DEF d
<1>2. d \in Seq(S) /\ d \in Seq(Node \cup {Absent}) /\ \A x : Occurs(x, d) <=> x \in S
    BY <1>1 DEF Lists, Occurs
<1>3. b \in STRING \cup {Absent}
    OBVIOUS
<1>4. l = [kind |-> "dep", target |-> n, bracket |-> b, deps |-> d]
    BY DEF DepLine, d
<1>5. (a = "" => TransformOf(l) = "direct") /\ (a # "" => TransformOf(l) = a)
    <2> HIDE DEF b, l
    <2>1. TransformOf(l) = IF b \in {Absent, ""} THEN "direct" ELSE b
        BY <1>4 DEF TransformOf
    <2>2. CASE a \in {"direct", ""}
        BY <2>1, <2>2 DEF b
    <2>3. CASE a \notin {"direct", ""}
        BY <2>1, <2>3 DEF b
    <2> QED
        BY <2>2, <2>3
<1>6. b \in ValidTransforms \cup {Absent, ""} <=> a \in ValidTransforms \cup {""}
    BY DEF ValidTransforms
<1> HIDE DEF b, l
<1>7. l \in Lines /\ l.kind = "dep" /\ l.target = n /\ l.bracket = b /\ l.deps = d /\ Words(l) = d
    BY <1>2, <1>3, <1>4 DEF Lines, Words
<1>8. WellFormed(l) <=> n # Absent /\ Len(d) <= LineCap /\ b \in ValidTransforms \cup {Absent, ""}
    BY <1>7 DEF WellFormed
<1>9. WellFormed(l) <=> a \in ValidTransforms \cup {""} /\ Cardinality(S) <= LineCap
    BY <1>1, <1>6, <1>8, AbsentAssumption
<1> QED
    BY <1>2, <1>5, <1>7, <1>9 DEF l, IsLineFor

(* What the parts of Fits say of one edge.                                 *)
FitsAt(g, m, n) ==
    /\ g.edge[m][n].transform \in ValidTransforms \cup {""}
    /\ Cardinality(SameTransform(g, g.edge[m][n].transform, n)) <= LineCap

(* The lines of a target say its edges, each what it keeps of itself.      *)
LEMMA LineForFacts ==
    ASSUME NEW g \in Graphs, NEW n \in Node, NEW l \in LinesFor(g, n)
    PROVE  /\ l \in Lines /\ l.kind = "dep" /\ l.target = n
           /\ \A m : Occurs(m, Words(l)) =>
                /\ m \in Node /\ HasEdge(g, m, n)
                /\ EdgeOf(l) = KeptOf(g.edge[m][n])
                /\ WellFormed(l) <=> FitsAt(g, m, n)
           /\ WellFormed(l) \/ \E m : Occurs(m, Words(l))
<1>1. CASE Predecessors(g, n) = {}
    <2>1. l = DepLine(n, "direct", {})
        BY <1>1 DEF LinesFor
    <2>2. /\ "direct" \in STRING \ {Absent} /\ "direct" \in ValidTransforms
        BY TransformAssumption, EdgeAttrAssumption DEF ValidTransforms
    <2>3. Cardinality({}) = 0 /\ {} \in SUBSET Node
        BY FS_EmptySet
    <2>4. IsLineFor(l, n, "direct", {})
        BY <2>1, <2>2, <2>3, DepLineFacts
    <2>5. WellFormed(l)
        BY <2>2, <2>3, <2>4, LineCapAssumption DEF IsLineFor
    <2> QED
        BY <2>4, <2>5 DEF IsLineFor
<1>2. CASE Predecessors(g, n) # {}
    <2>1. PICK k \in Predecessors(g, n) :
            l = DepLine(n, g.edge[k][n].transform, SameTransform(g, g.edge[k][n].transform, n))
        BY <1>2 DEF LinesFor
    <2> DEFINE a == g.edge[k][n].transform
               S == SameTransform(g, a, n)
    <2>2. k \in Node /\ g.edge[k][n] \in EdgeAttr /\ k \in S /\ S \in SUBSET Node
        BY DEF Predecessors, HasEdge, Graphs, SameTransform
    <2>3. a \in STRING \ {Absent}
        BY <2>2, TransformAssumption
    <2>4. \A m \in S : m \in Node /\ HasEdge(g, m, n) /\ g.edge[m][n].transform = a
        BY DEF SameTransform, Predecessors
    <2>5. l = DepLine(n, a, S)
        BY <2>1
    <2> HIDE DEF S, a
    <2>6. IsLineFor(l, n, a, S)
        BY <2>2, <2>3, <2>5, DepLineFacts
    <2>7. /\ l \in Lines /\ l.kind = "dep" /\ l.target = n
          /\ \A x : Occurs(x, Words(l)) <=> x \in S
          /\ a = "" => TransformOf(l) = "direct"
          /\ a # "" => TransformOf(l) = a
          /\ WellFormed(l) <=> a \in ValidTransforms \cup {""} /\ Cardinality(S) <= LineCap
        BY <2>6 DEF IsLineFor
    <2>8. ASSUME NEW m \in S
          PROVE  /\ m \in Node /\ HasEdge(g, m, n)
                 /\ EdgeOf(l) = KeptOf(g.edge[m][n])
                 /\ WellFormed(l) <=> FitsAt(g, m, n)
        <3>1. g.edge[m][n] # Absent /\ g.edge[m][n].transform = a
            BY <2>4 DEF HasEdge
        <3>2. EdgeOf(l) = KeptOf(g.edge[m][n])
            BY <2>7, <3>1 DEF EdgeOf, KeptOf
        <3>3. FitsAt(g, m, n) <=> a \in ValidTransforms \cup {""} /\ Cardinality(S) <= LineCap
            BY <3>1 DEF FitsAt, S
        <3> QED
            BY <2>4, <2>7, <3>2, <3>3
    <2> QED
        BY <2>2, <2>7, <2>8
<1> QED
    BY <1>1, <1>2

LEMMA EdgeHasLine ==
    ASSUME NEW g \in Graphs, NEW m \in Node, NEW n \in Node, HasEdge(g, m, n)
    PROVE  \E l \in LinesFor(g, n) : Occurs(m, Words(l))
<1> DEFINE a == g.edge[m][n].transform
           S == SameTransform(g, a, n)
<1>1. m \in Predecessors(g, n) /\ m \in S /\ S \in SUBSET Node
    BY DEF Predecessors, SameTransform
<1>2. g.edge[m][n] \in EdgeAttr
    BY DEF HasEdge, Graphs
<1>3. a \in STRING \ {Absent}
    BY <1>2, TransformAssumption
<1>4. DepLine(n, a, S) \in LinesFor(g, n)
    BY <1>1 DEF LinesFor
<1> HIDE DEF a, S
<1>5. Occurs(m, Words(DepLine(n, a, S)))
    BY <1>1, <1>3, DepLineFacts DEF IsLineFor
<1> QED
    BY <1>4, <1>5

LEMMA TargetHasLine ==
    ASSUME NEW g, NEW n
    PROVE  \E l : l \in LinesFor(g, n)
BY DEF LinesFor

(* The directive of a node.                                                *)
LEMMA AttrLineFacts ==
    ASSUME NEW g \in Graphs, NEW n \in Node, HasNode(g, n)
    PROVE  /\ AttrLine(g, n) \in Lines
           /\ AttrLine(g, n).kind = "attr" /\ AttrLine(g, n).node = n
           /\ Words(AttrLine(g, n)) = AttrPairs(g.attr[n])
           /\ AttrPairs(g.attr[n]) # <<>> => WellFormed(AttrLine(g, n))
<1> DEFINE l == AttrLine(g, n)
           s == AttrPairs(g.attr[n])
<1>1. g.attr[n] \in Attr
    BY DEF Graphs, HasNode
<1>2. /\ s \in Seq([key : {"layer", "owner", Absent}, value : Name])
      /\ \A x : Occurs(x, s) => x.key \in {"layer", "owner"}
    <2> DEFINE a == g.attr[n]
    <2> HIDE DEF a
    <2>1. /\ AttrPairs(a) \in Seq([key : {"layer", "owner", Absent}, value : Name])
          /\ \A x : Occurs(x, AttrPairs(a)) =>
               \/ x = [key |-> "layer", value |-> a.layer]
               \/ x = [key |-> "owner", value |-> a.owner]
        BY <1>1, AttrPairsFacts DEF a
    <2>2. \A x : Occurs(x, AttrPairs(a)) => x.key \in {"layer", "owner"}
        BY <2>1
    <2> QED
        BY <2>1, <2>2 DEF a
<1>3. l = [kind |-> "attr", node |-> n, pairs |-> s]
    BY DEF AttrLine
<1> HIDE DEF l, s
<1>4. l \in Lines /\ l.kind = "attr" /\ l.node = n /\ l.pairs = s /\ Words(l) = s
    BY <1>2, <1>3 DEF Lines, Words
<1>5. \A i \in DOMAIN s : s[i].key # Absent
    <2>1. \A i \in DOMAIN s : s[i].key \in {"layer", "owner"}
        BY <1>2 DEF Occurs
    <2> QED
        BY <2>1, AbsentAssumption
<1>6. s # <<>> => WellFormed(l)
    BY <1>4, <1>5 DEF WellFormed
<1> QED
    BY <1>4, <1>6 DEF l, s

(* The lines of a graph, and a text that has them and no others, in        *)
(* whatever order.                                                         *)
Writes(g) ==
    {AttrLine(g, n) : n \in {n \in Nodes(g) : AttrPairs(g.attr[n]) # <<>>}}
    \cup UNION {LinesFor(g, n) : n \in Nodes(g)}

IsTextOf(t, g) ==
    /\ g \in Graphs /\ EndsPresent(g) /\ t \in Seq(Lines)
    /\ \A l : Occurs(l, t) <=> l \in Writes(g)

(* A line of the text is a directive or belongs to a target.               *)
LEMMA LineWritten ==
    ASSUME NEW g \in Graphs, NEW l \in Writes(g)
    PROVE  /\ l \in Lines
           /\ \/ /\ l.kind = "attr" /\ l.node \in Node /\ HasNode(g, l.node)
                 /\ l = AttrLine(g, l.node) /\ AttrPairs(g.attr[l.node]) # <<>>
              \/ /\ l.kind = "dep" /\ l.target \in Node /\ HasNode(g, l.target)
                 /\ l \in LinesFor(g, l.target)
<1>1. CASE l \in {AttrLine(g, n) : n \in {n \in Nodes(g) : AttrPairs(g.attr[n]) # <<>>}}
    <2>1. PICK n \in Nodes(g) : AttrPairs(g.attr[n]) # <<>> /\ l = AttrLine(g, n)
        BY <1>1
    <2>2. n \in Node /\ HasNode(g, n)
        BY DEF Nodes
    <2>3. l \in Lines /\ l.kind = "attr" /\ l.node = n
        BY <2>1, <2>2, AttrLineFacts
    <2> QED
        BY <2>1, <2>2, <2>3
<1>2. CASE l \in UNION {LinesFor(g, n) : n \in Nodes(g)}
    <2>1. PICK n \in Nodes(g) : l \in LinesFor(g, n)
        BY <1>2
    <2>2. n \in Node /\ HasNode(g, n)
        BY DEF Nodes
    <2>3. l \in Lines /\ l.kind = "dep" /\ l.target = n
        BY <2>1, <2>2, LineForFacts
    <2> QED
        BY <2>1, <2>2, <2>3
<1> QED
    BY <1>1, <1>2 DEF Writes

(* Every place of the text is a word of such a line, or its beginning, and *)
(* every word of it has a place.                                           *)
LEMMA PlaceWritten ==
    ASSUME NEW t, NEW g, IsTextOf(t, g), NEW p \in Places(t)
    PROVE  /\ t[p[1]] \in Writes(g) /\ p[2] \in Nat
           /\ p[2] # 0 => Occurs(WordAt(t, p), Words(t[p[1]]))
<1>1. t \in Seq(Lines)
    BY DEF IsTextOf
<1>2. PICK i \in DOMAIN t : \E j \in 0..Len(Words(t[i])) : p = <<i, j>>
    BY <1>1, TextTypes
<1>3. PICK j \in 0..Len(Words(t[i])) : p = <<i, j>>
    BY <1>2
<1>4. p[1] = i /\ p[2] = j /\ WordAt(t, p) = Words(t[i])[j]
    BY <1>3 DEF WordAt
<1>5. t[i] \in Writes(g) /\ t[i] \in Lines
    BY <1>1, TextTypes DEF IsTextOf, Occurs
<1>6. DOMAIN Words(t[i]) = 1..Len(Words(t[i])) /\ Len(Words(t[i])) \in Nat
    BY <1>5, LineTypes
<1>7. j # 0 => j \in DOMAIN Words(t[i])
    BY <1>3, <1>6
<1> QED
    BY <1>3, <1>4, <1>5, <1>6, <1>7 DEF Occurs

LEMMA WordHasPlace ==
    ASSUME NEW t, NEW g, IsTextOf(t, g), NEW l \in Writes(g), NEW w, Occurs(w, Words(l))
    PROVE  \E p \in Places(t) : t[p[1]] = l /\ p[2] # 0 /\ WordAt(t, p) = w
<1>1. t \in Seq(Lines) /\ Occurs(l, t)
    BY DEF IsTextOf
<1>2. PICK i \in DOMAIN t : t[i] = l
    BY <1>1 DEF Occurs
<1>3. PICK j \in DOMAIN Words(l) : Words(l)[j] = w
    BY DEF Occurs
<1>4. DOMAIN Words(l) = 1..Len(Words(l)) /\ Len(Words(l)) \in Nat
    BY <1>1, <1>2, TextTypes, LineTypes
<1>5. j # 0 /\ j \in 0..Len(Words(t[i]))
    BY <1>2, <1>3, <1>4
<1>6. <<i, j>> \in Places(t)
    BY <1>1, <1>5, TextTypes
<1>7. <<i, j>>[1] = i /\ <<i, j>>[2] = j /\ WordAt(t, <<i, j>>) = w
    BY <1>2, <1>3 DEF WordAt
<1> QED
    BY <1>2, <1>5, <1>6, <1>7

(* The text names the nodes of the graph.                                  *)
LEMMA NodesWritten ==
    ASSUME NEW t, NEW g, IsTextOf(t, g), NEW n \in Node
    PROVE  (\E p \in Places(t) : Names(t, p, n)) <=> HasNode(g, n)
<1>1. g \in Graphs /\ EndsPresent(g) /\ t \in Seq(Lines)
    BY DEF IsTextOf
<1>2. ASSUME NEW p \in Places(t), Names(t, p, n) PROVE HasNode(g, n)
    <2> DEFINE l == t[p[1]]
    <2>1. l \in Writes(g) /\ (p[2] # 0 => Occurs(WordAt(t, p), Words(l)))
        BY PlaceWritten
    <2>2. \/ l.kind = "attr" /\ HasNode(g, l.node)
          \/ l.kind = "dep" /\ l.target \in Node /\ HasNode(g, l.target) /\ l \in LinesFor(g, l.target)
        BY <1>1, <2>1, LineWritten
    <2>3. CASE l.kind = "attr"
        BY <1>2, <2>2, <2>3 DEF Names
    <2>4. CASE l.kind = "dep" /\ p[2] = 0
        BY <1>2, <2>2, <2>4 DEF Names
    <2>5. CASE l.kind = "dep" /\ p[2] # 0
        <3>1. n = WordAt(t, p) /\ Occurs(n, Words(l))
            BY <1>2, <2>1, <2>5 DEF Names
        <3>2. HasEdge(g, n, l.target) /\ l.target \in Node
            BY <1>1, <2>2, <2>5, <3>1, LineForFacts
        <3> QED
            BY <1>1, <3>2 DEF EndsPresent
    <2> QED
        BY <2>2, <2>3, <2>4, <2>5
<1>3. ASSUME HasNode(g, n) PROVE \E p \in Places(t) : Names(t, p, n)
    <2>1. PICK l : l \in LinesFor(g, n)
        BY TargetHasLine
    <2>2. l \in Writes(g) /\ l.kind = "dep" /\ l.target = n
        BY <1>1, <1>3, <2>1, LineForFacts DEF Writes, Nodes
    <2>3. PICK i \in DOMAIN t : t[i] = l
        BY <2>2 DEF IsTextOf, Occurs
    <2>4. 0 \in 0..Len(Words(t[i]))
        BY <1>1, TextTypes
    <2>5. <<i, 0>> \in Places(t)
        BY <1>1, <2>4, TextTypes
    <2>6. Names(t, <<i, 0>>, n)
        BY <2>2, <2>3 DEF Names
    <2> QED
        BY <2>5, <2>6
<1> QED
    BY <1>2, <1>3

(* Among the words s, w is the only one with this key, and it is there     *)
(* when the value is not empty.                                            *)
OnlyWord(s, key, v, w) ==
    /\ w.key = key /\ w.value = v
    /\ v # "" <=> Occurs(w, s)
    /\ \A x : Occurs(x, s) /\ x.key = key => x = w

(* It gives a node the attributes that it has.                             *)
LEMMA ValuesWritten ==
    ASSUME NEW t, NEW g, IsTextOf(t, g), NEW n \in Node, HasNode(g, n)
    PROVE  /\ ValueFrom(t, PairsFor(t, Places(t), n, "layer")) = g.attr[n].layer
           /\ ValueFrom(t, PairsFor(t, Places(t), n, "owner")) = g.attr[n].owner
<1> DEFINE a == g.attr[n]
           D(key) == PairsFor(t, Places(t), n, key)
<1>1. g \in Graphs /\ t \in Seq(Lines) /\ a \in Attr
    BY DEF IsTextOf, HasNode, Graphs
<1> HIDE DEF a
<1>2. ASSUME NEW key, NEW p \in D(key)
      PROVE  WordAt(t, p).key = key /\ Occurs(WordAt(t, p), AttrPairs(a))
    <2> DEFINE l == t[p[1]]
    <2>1. p \in Places(t) /\ l.kind = "attr" /\ l.node = n /\ p[2] # 0 /\ WordAt(t, p).key = key
        BY <1>2 DEF PairsFor
    <2>2. l \in Writes(g) /\ Occurs(WordAt(t, p), Words(l))
        BY <2>1, PlaceWritten
    <2>3. l = AttrLine(g, n)
        BY <1>1, <2>1, <2>2, LineWritten
    <2>4. Words(l) = AttrPairs(a)
        BY <1>1, <2>3, AttrLineFacts DEF a
    <2> QED
        BY <2>1, <2>2, <2>4
<1>3. ASSUME NEW key, NEW w, w.key = key, Occurs(w, AttrPairs(a))
      PROVE  \E p \in D(key) : WordAt(t, p) = w
    <2> DEFINE l == AttrLine(g, n)
    <2>1. AttrPairs(a) # <<>>
        BY <1>3 DEF Occurs
    <2>2. l \in Writes(g)
        BY <2>1 DEF Writes, Nodes, a
    <2>3. l.kind = "attr" /\ l.node = n /\ Words(l) = AttrPairs(a)
        BY <1>1, AttrLineFacts DEF a
    <2> HIDE DEF l
    <2>4. PICK p \in Places(t) : t[p[1]] = l /\ p[2] # 0 /\ WordAt(t, p) = w
        BY <1>3, <2>2, <2>3, WordHasPlace
    <2>5. p \in D(key)
        BY <1>3, <2>3, <2>4 DEF PairsFor
    <2> QED
        BY <2>4, <2>5
<1>4. ASSUME NEW key, D(key) # {} PROVE LastOf(D(key)) \in D(key)
    <2>1. D(key) \in SUBSET Places(t)
        BY DEF PairsFor
    <2> QED
        BY <1>1, <1>4, <2>1, LastOfMember
<1>5. \A x : Occurs(x, AttrPairs(a)) <=>
          \/ a.layer # "" /\ x = [key |-> "layer", value |-> a.layer]
          \/ a.owner # "" /\ x = [key |-> "owner", value |-> a.owner]
    BY <1>1, AttrPairsFacts
<1>6. ASSUME NEW key, NEW v, NEW w, OnlyWord(AttrPairs(a), key, v, w)
      PROVE  ValueFrom(t, D(key)) = v
    <2> DEFINE P == D(key)
    <2>1. \A p \in P : WordAt(t, p) = w /\ Occurs(w, AttrPairs(a))
        BY <1>2, <1>6 DEF OnlyWord
    <2>2. Occurs(w, AttrPairs(a)) => \E p \in P : WordAt(t, p) = w
        BY <1>3, <1>6 DEF OnlyWord
    <2>3. P # {} => LastOf(P) \in P
        BY <1>4
    <2> HIDE DEF P
    <2>4. CASE P = {}
        <3>1. v = ""
            BY <1>6, <2>2, <2>4 DEF OnlyWord
        <3> QED
            BY <2>4, <3>1 DEF ValueFrom, P
    <2>5. CASE P # {}
        <3>1. WordAt(t, LastOf(P)) = w
            BY <2>1, <2>3, <2>5
        <3>2. ValueFrom(t, P) = w.value
            BY <2>5, <3>1 DEF ValueFrom
        <3> QED
            BY <1>6, <3>2 DEF P, OnlyWord
    <2> QED
        BY <2>4, <2>5
<1> DEFINE wl == [key |-> "layer", value |-> a.layer]
           wo == [key |-> "owner", value |-> a.owner]
<1>7. wl.key = "layer" /\ wl.value = a.layer /\ wo.key = "owner" /\ wo.value = a.owner
    OBVIOUS
<1> HIDE DEF D, wl, wo
<1>8. \A x : Occurs(x, AttrPairs(a)) <=> (a.layer # "" /\ x = wl) \/ (a.owner # "" /\ x = wo)
    BY <1>5 DEF wl, wo
<1>9. wl # wo /\ "layer" # "owner"
    BY <1>7
<1>10. ValueFrom(t, D("layer")) = a.layer
    <2>1. a.layer # "" <=> Occurs(wl, AttrPairs(a))
        BY <1>8, <1>9
    <2>2. \A x : Occurs(x, AttrPairs(a)) /\ x.key = "layer" => x = wl
        BY <1>7, <1>8, <1>9
    <2>3. OnlyWord(AttrPairs(a), "layer", a.layer, wl)
        BY <1>7, <2>1, <2>2 DEF OnlyWord
    <2> QED
        BY <1>6, <2>3
<1>11. ValueFrom(t, D("owner")) = a.owner
    <2>1. a.owner # "" <=> Occurs(wo, AttrPairs(a))
        BY <1>8, <1>9
    <2>2. \A x : Occurs(x, AttrPairs(a)) /\ x.key = "owner" => x = wo
        BY <1>7, <1>8, <1>9
    <2>3. OnlyWord(AttrPairs(a), "owner", a.owner, wo)
        BY <1>7, <2>1, <2>2 DEF OnlyWord
    <2> QED
        BY <1>6, <2>3
<1> QED
    BY <1>10, <1>11 DEF D, a

(* It declares the edges of the graph, each as what it keeps of itself.    *)
LEMMA EdgesWritten ==
    ASSUME NEW t, NEW g, IsTextOf(t, g), NEW m \in Node, NEW n \in Node
    PROVE  EdgeFrom(t, DepsFor(t, Places(t), m, n)) = KeptOf(g.edge[m][n])
<1> DEFINE D == DepsFor(t, Places(t), m, n)
<1>1. g \in Graphs /\ EndsPresent(g) /\ t \in Seq(Lines)
    BY DEF IsTextOf
<1>2. ASSUME NEW p \in D PROVE HasEdge(g, m, n) /\ EdgeOf(t[p[1]]) = KeptOf(g.edge[m][n])
    <2> DEFINE l == t[p[1]]
    <2>1. p \in Places(t) /\ l.kind = "dep" /\ l.target = n /\ p[2] # 0 /\ WordAt(t, p) = m
        BY <1>2 DEF DepsFor
    <2>2. l \in Writes(g) /\ Occurs(m, Words(l))
        BY <2>1, PlaceWritten
    <2>3. l \in LinesFor(g, n)
        BY <1>1, <2>1, <2>2, LineWritten
    <2> HIDE DEF l
    <2>4. HasEdge(g, m, n) /\ EdgeOf(l) = KeptOf(g.edge[m][n])
        BY <1>1, <2>2, <2>3, LineForFacts
    <2> QED
        BY <2>4 DEF l
<1>3. ASSUME HasEdge(g, m, n) PROVE D # {}
    <2>1. PICK l \in LinesFor(g, n) : Occurs(m, Words(l))
        BY <1>1, <1>3, EdgeHasLine
    <2>2. n \in Nodes(g)
        BY <1>1, <1>3 DEF EndsPresent, Nodes
    <2>3. l \in Writes(g) /\ l.kind = "dep" /\ l.target = n
        BY <1>1, <2>1, <2>2, LineForFacts DEF Writes
    <2>4. PICK p \in Places(t) : t[p[1]] = l /\ p[2] # 0 /\ WordAt(t, p) = m
        BY <2>1, <2>3, WordHasPlace
    <2>5. p \in D
        BY <2>3, <2>4 DEF DepsFor
    <2> QED
        BY <2>5
<1>4. D # {} => LastOf(D) \in D
    <2>1. D \in SUBSET Places(t)
        BY DEF DepsFor
    <2> QED
        BY <1>1, <2>1, LastOfMember
<1> HIDE DEF D
<1>5. CASE D = {}
    <2>1. g.edge[m][n] = Absent
        BY <1>3, <1>5 DEF HasEdge
    <2> QED
        BY <1>5, <2>1 DEF EdgeFrom, KeptOf, D
<1>6. CASE D # {}
    BY <1>2, <1>4, <1>6 DEF EdgeFrom, D
<1> QED
    BY <1>5, <1>6

(* The lines are well formed when the graph fits.                          *)
LEMMA LinesFit ==
    ASSUME NEW t, NEW g, IsTextOf(t, g)
    PROVE  (\A i \in DOMAIN t : WellFormed(t[i])) <=> Fits(g)
<1>1. g \in Graphs /\ EndsPresent(g)
    BY DEF IsTextOf
<1>2. Fits(g) <=> \A m, n \in Node : HasEdge(g, m, n) => FitsAt(g, m, n)
    BY DEF Fits, FitsAt
<1>3. ASSUME \A i \in DOMAIN t : WellFormed(t[i]), NEW m \in Node, NEW n \in Node, HasEdge(g, m, n)
      PROVE  FitsAt(g, m, n)
    <2>1. PICK l \in LinesFor(g, n) : Occurs(m, Words(l))
        BY <1>1, <1>3, EdgeHasLine
    <2>2. n \in Nodes(g)
        BY <1>1, <1>3 DEF EndsPresent, Nodes
    <2>3. l \in Writes(g)
        BY <2>1, <2>2 DEF Writes
    <2>4. WellFormed(l)
        BY <1>3, <2>3 DEF IsTextOf, Occurs
    <2> QED
        BY <1>1, <2>1, <2>4, LineForFacts
<1>4. ASSUME \A m, n \in Node : HasEdge(g, m, n) => FitsAt(g, m, n), NEW i \in DOMAIN t
      PROVE  WellFormed(t[i])
    <2> DEFINE l == t[i]
    <2>1. l \in Writes(g)
        BY DEF IsTextOf, Occurs
    <2> HIDE DEF l
    <2>2. CASE l.kind = "attr"
        BY <1>1, <2>1, <2>2, LineWritten, AttrLineFacts DEF l
    <2>3. CASE l.kind = "dep"
        <3>1. l.target \in Node /\ l \in LinesFor(g, l.target)
            BY <1>1, <2>1, <2>3, LineWritten
        <3>2. /\ \A m : Occurs(m, Words(l)) =>
                    /\ m \in Node /\ HasEdge(g, m, l.target)
                    /\ WellFormed(l) <=> FitsAt(g, m, l.target)
              /\ WellFormed(l) \/ \E m : Occurs(m, Words(l))
            BY <1>1, <3>1, LineForFacts
        <3> QED
            BY <1>4, <3>1, <3>2 DEF l
    <2> QED
        BY <1>1, <2>1, <2>2, <2>3, LineWritten
<1> QED
    BY <1>2, <1>3, <1>4

LEMMA WrittenIsDeclared ==
    ASSUME NEW t, NEW g, IsTextOf(t, g)
    PROVE  Declared(t) = Written(g)
<1>1. g \in Graphs
    BY DEF IsTextOf
<1> DEFINE A(n) == IF \E p \in Places(t) : Names(t, p, n)
                   THEN [layer |-> ValueFrom(t, PairsFor(t, Places(t), n, "layer")),
                         owner |-> ValueFrom(t, PairsFor(t, Places(t), n, "owner"))]
                   ELSE Absent
           E(m, n) == EdgeFrom(t, DepsFor(t, Places(t), m, n))
<1>2. ASSUME NEW n \in Node PROVE A(n) = g.attr[n]
    <2>1. CASE HasNode(g, n)
        <3> DEFINE a == g.attr[n]
        <3>1. a \in Attr
            BY <1>1, <2>1 DEF HasNode, Graphs
        <3> HIDE DEF a
        <3>2. a = [layer |-> a.layer, owner |-> a.owner]
            BY <3>1, NameAssumption
        <3>3. A(n) = [layer |-> ValueFrom(t, PairsFor(t, Places(t), n, "layer")),
                      owner |-> ValueFrom(t, PairsFor(t, Places(t), n, "owner"))]
            BY <2>1, NodesWritten
        <3>4. A(n) = [layer |-> a.layer, owner |-> a.owner]
            BY <2>1, <3>3, ValuesWritten DEF a
        <3> QED
            BY <3>2, <3>4 DEF a
    <2>2. CASE ~HasNode(g, n)
        BY <2>2, NodesWritten DEF HasNode
    <2> QED
        BY <2>1, <2>2
<1>3. \A m, n \in Node : E(m, n) = KeptOf(g.edge[m][n])
    BY EdgesWritten
<1>4. Declared(t) = [attr |-> [n \in Node |-> A(n)],
                     edge |-> [m \in Node |-> [n \in Node |-> E(m, n)]]]
    BY DEF Declared, Says
<1>5. g.attr = [n \in Node |-> g.attr[n]]
    BY <1>1 DEF Graphs
<1> HIDE DEF A, E
<1>6. [n \in Node |-> A(n)] = g.attr
    BY <1>2, <1>5
<1>7. [m \in Node |-> [n \in Node |-> E(m, n)]] = [m \in Node |-> [n \in Node |-> KeptOf(g.edge[m][n])]]
    BY <1>3
<1> QED
    BY <1>4, <1>6, <1>7 DEF Written

LEMMA WrittenAcyclic ==
    ASSUME NEW g \in Graphs, Fits(g)
    PROVE  Acyclic(Written(g)) <=> Acyclic(g)
<1>1. ASSUME NEW m \in Node, NEW n \in Node
      PROVE  HasEdge(Written(g), m, n) <=> HasEdge(g, m, n)
    <2> DEFINE a == g.edge[m][n]
    <2>1. Written(g).edge[m][n] = KeptOf(a)
        BY DEF Written
    <2>2. KeptOf(a) = Absent <=> a = Absent
        <3>1. CASE a = Absent
            BY <3>1 DEF KeptOf
        <3>2. CASE a # Absent
            <4>1. a.transform \in ValidTransforms \cup {""}
                BY <3>2 DEF Fits, HasEdge
            <4>2. "direct" \in ValidTransforms
                BY DEF ValidTransforms
            <4>3. KeptOf(a) \in EdgeAttr
                BY <3>2, <4>1, <4>2, TransformAssumption DEF KeptOf
            <4> QED
                BY <3>2, <4>3, EdgeAttrAssumption
        <3> QED
            BY <3>1, <3>2
    <2> QED
        BY <2>1, <2>2 DEF HasEdge
<1>2. Acyclic(g) => Acyclic(Written(g))
    BY <1>1, FewerEdgesAcyclic
<1>3. Acyclic(Written(g)) => Acyclic(g)
    BY <1>1, FewerEdgesAcyclic
<1> QED
    BY <1>2, <1>3

LEMMA TextReadsBack ==
    ASSUME NEW t, NEW g, IsTextOf(t, g)
    PROVE  ParseSpec(t) = IF Fits(g) /\ Acyclic(g) THEN Ok(Written(g)) ELSE Error
<1>1. g \in Graphs
    BY DEF IsTextOf
<1>2. Declared(t) = Written(g)
    BY WrittenIsDeclared
<1>3. Legal(t) <=> Fits(g) /\ Acyclic(Written(g))
    BY <1>2, LinesFit DEF Legal
<1>4. Legal(t) <=> Fits(g) /\ Acyclic(g)
    BY <1>1, <1>3, WrittenAcyclic
<1> QED
    BY <1>2, <1>4 DEF ParseSpec

-----------------------------------------------------------------------------
(* FormatSpec keeps this: a directive is written or its node is among the  *)
(* names, and a line of a target is written, or in the group, or the       *)
(* target is still to come; and nothing is written that is not such a line.*)

DirectivesAccounted ==
    \A n \in Nodes(source) :
        \/ Occurs(n, names)
        \/ AttrPairs(source.attr[n]) = <<>>
        \/ Occurs(AttrLine(source, n), lines)

TargetsAccounted ==
    \A n \in Nodes(source) :
        Occurs(n, targets) \/ \A l \in LinesFor(source, n) : l \in group \/ Occurs(l, lines)

WriterInvariant ==
    /\ source \in Sources
    /\ names \in Seq(Nodes(source))
    /\ targets \in Seq(Nodes(source))
    /\ group \in SUBSET Writes(source)
    /\ lines \in Seq(Writes(source))
    /\ DirectivesAccounted
    /\ TargetsAccounted

LEMMA WriterStarts == WriterInit => WriterInvariant
<1> SUFFICES ASSUME WriterInit PROVE WriterInvariant
    OBVIOUS
<1>1. source \in Sources /\ group = {} /\ lines = <<>>
    BY DEF WriterInit
<1>2. Lists(names, Nodes(source))
    BY NodeAssumption, NodeIsFinite, NamesAscend DEF WriterInit
<1>3. Lists(targets, Nodes(source))
    BY NodeAssumption, NodeIsFinite, NamesAscend, SortListsNodes DEF WriterInit
<1>4. names \in Seq(Nodes(source)) /\ DirectivesAccounted
    BY <1>2 DEF Lists, Occurs, DirectivesAccounted
<1>5. targets \in Seq(Nodes(source)) /\ TargetsAccounted
    BY <1>3 DEF Lists, Occurs, TargetsAccounted
<1> QED
    BY <1>1, <1>4, <1>5 DEF WriterInvariant

LEMMA WriterKeeps == WriterInvariant /\ [WriterNext]_writerVars => WriterInvariant'
<1> SUFFICES ASSUME WriterInvariant, [WriterNext]_writerVars PROVE WriterInvariant'
    OBVIOUS
<1> USE DEF WriterInvariant
<1>1. CASE WriteAttr
    <2> DEFINE n == Head(names)
               l == AttrLine(source, n)
    <2>1. names # <<>> /\ names' = Tail(names) /\ UNCHANGED <<source, targets, group>>
        BY <1>1 DEF WriteAttr
    <2>2. /\ n \in Nodes(source) /\ names' \in Seq(Nodes(source))
          /\ \A x : Occurs(x, names) <=> x = n \/ Occurs(x, names')
        BY <2>1, OccursFacts
    <2>3. CASE AttrPairs(source.attr[n]) = <<>>
        <3>1. lines' = lines
            BY <1>1, <2>3 DEF WriteAttr
        <3>2. DirectivesAccounted' /\ TargetsAccounted'
            BY <2>1, <2>2, <2>3, <3>1 DEF DirectivesAccounted, TargetsAccounted
        <3> QED
            BY <2>1, <2>2, <3>1, <3>2
    <2>4. CASE AttrPairs(source.attr[n]) # <<>>
        <3>1. lines' = Append(lines, l)
            BY <1>1, <2>4 DEF WriteAttr
        <3>2. l \in Writes(source)
            BY <2>2, <2>4 DEF Writes
        <3>3. /\ lines' \in Seq(Writes(source))
              /\ \A x : Occurs(x, lines') <=> x = l \/ Occurs(x, lines)
            BY <3>1, <3>2, OccursFacts
        <3>4. DirectivesAccounted' /\ TargetsAccounted'
            BY <2>1, <2>2, <3>3 DEF DirectivesAccounted, TargetsAccounted
        <3> QED
            BY <2>1, <2>2, <3>3, <3>4
    <2> QED
        BY <2>3, <2>4
<1>2. CASE TakeTarget
    <2> DEFINE n == Head(targets)
    <2>1. /\ group = {} /\ targets # <<>> /\ targets' = Tail(targets)
          /\ group' = LinesFor(source, n) /\ UNCHANGED <<source, names, lines>>
        BY <1>2 DEF TakeTarget
    <2>2. /\ n \in Nodes(source) /\ targets' \in Seq(Nodes(source))
          /\ \A x : Occurs(x, targets) <=> x = n \/ Occurs(x, targets')
        BY <2>1, OccursFacts
    <2>3. group' \in SUBSET Writes(source)
        BY <2>1, <2>2 DEF Writes
    <2>4. DirectivesAccounted'
        BY <2>1 DEF DirectivesAccounted
    <2>5. TargetsAccounted'
        BY <2>1, <2>2 DEF TargetsAccounted
    <2> QED
        BY <2>1, <2>2, <2>3, <2>4, <2>5
<1>3. CASE WriteDeps
    <2>1. PICK l \in group : lines' = Append(lines, l) /\ group' = group \ {l}
        BY <1>3 DEF WriteDeps
    <2>2. UNCHANGED <<source, names, targets>>
        BY <1>3 DEF WriteDeps
    <2>3. /\ lines' \in Seq(Writes(source))
          /\ \A x : Occurs(x, lines') <=> x = l \/ Occurs(x, lines)
        BY <2>1, OccursFacts
    <2>4. DirectivesAccounted' /\ TargetsAccounted'
        BY <2>1, <2>2, <2>3 DEF DirectivesAccounted, TargetsAccounted
    <2> QED
        BY <2>1, <2>2, <2>3, <2>4
<1>4. CASE UNCHANGED writerVars
    BY <1>4 DEF writerVars, DirectivesAccounted, TargetsAccounted
<1> QED
    BY <1>1, <1>2, <1>3, <1>4 DEF WriterNext

(* What FormatSpec writes is read back as the graph without the comments   *)
(* of its edges, in whatever order the transforms of a target come, and a  *)
(* graph that the format cannot hold is refused, not misread.              *)
THEOREM WriterReadsBack == WriterSpec => []SpecRoundTrip
<1>1. WriterInvariant => SpecRoundTrip
    <2> SUFFICES ASSUME WriterInvariant, WriterDone
                 PROVE  ParseSpec(lines) =
                          IF Fits(source) /\ Acyclic(source) THEN Ok(Written(source)) ELSE Error
        BY DEF SpecRoundTrip
    <2>1. source \in Graphs /\ EndsPresent(source)
        BY SourcesAssumption DEF WriterInvariant
    <2>2. \A l \in Writes(source) : l \in Lines
        BY <2>1, LineWritten
    <2>3. lines \in Seq(Writes(source)) /\ DOMAIN lines = 1..Len(lines) /\ Len(lines) \in Nat
        BY DEF WriterInvariant
    <2>4. lines \in Seq(Lines)
        BY <2>2, <2>3
    <2>5. ASSUME NEW l, Occurs(l, lines) PROVE l \in Writes(source)
        BY <2>3, <2>5 DEF Occurs
    <2>6. ASSUME NEW l \in Writes(source) PROVE Occurs(l, lines)
        <3>1. \A n : ~Occurs(n, names) /\ ~Occurs(n, targets)
            BY DEF WriterDone, Occurs
        <3>2. group = {}
            BY DEF WriterDone
        <3>3. CASE l \in {AttrLine(source, n) : n \in {n \in Nodes(source) : AttrPairs(source.attr[n]) # <<>>}}
            BY <3>1, <3>3 DEF WriterInvariant, DirectivesAccounted
        <3>4. CASE l \in UNION {LinesFor(source, n) : n \in Nodes(source)}
            BY <3>1, <3>2, <3>4 DEF WriterInvariant, TargetsAccounted
        <3> QED
            BY <3>3, <3>4 DEF Writes
    <2>7. IsTextOf(lines, source)
        BY <2>1, <2>4, <2>5, <2>6 DEF IsTextOf
    <2> QED
        BY <2>7, TextReadsBack
<1> QED
    BY <1>1, WriterStarts, WriterKeeps, PTL DEF WriterSpec
=============================================================================
