---------------------------- MODULE MergeProofs -----------------------------
(***************************************************************************)
(* Proofs that a merge, of any two graphs over any set of nodes, in any    *)
(* order of its edge loop, yields a DAG, accounts for every node and edge  *)
(* of both sides and rejects only edges that close a cycle; and that       *)
(* Compare, of any two graphs, lists what turns one into the other.        *)
(***************************************************************************)
EXTENDS Merge, LineageGraphProofs

Sides == EdgeSet(ours) \cup EdgeSet(theirs)

Rejected(e) == [reason |-> "rejected", edge |-> e]

(* The loop has met every edge that is not in todo any more, and what it   *)
(* has built so far is part of both sides together.                        *)
MergeInvariant ==
    /\ ours \in Graphs /\ theirs \in Graphs /\ base \in Graphs
    /\ IsDag(ours) /\ IsDag(theirs)
    /\ result \in Graphs
    /\ IsDag(result)
    /\ pc \in {"start", "edges", "done"}
    /\ pc = "start" => result = EmptyGraph /\ conflicts = {} /\ todo = {}
    /\ todo \subseteq Sides
    /\ pc = "edges" => ~Unchanged(ours) /\ ~Unchanged(theirs)
    /\ pc = "done" => todo = {}
    /\ pc # "start" /\ ~Unchanged(ours) /\ ~Unchanged(theirs) =>
        /\ Nodes(result) = Nodes(ours) \cup Nodes(theirs)
        /\ EdgeSet(result) \subseteq Sides
        /\ \A e \in Sides : e \in todo \/ e \in EdgeSet(result) \/ Rejected(e) \in conflicts
    /\ \A c \in conflicts : c.reason = "rejected" =>
        Reaches(Joined, c.edge[2], c.edge[1])

LEMMA SidesFacts ==
    ASSUME MergeInvariant, NEW e \in Sides
    PROVE  /\ e[1] \in Node /\ e[2] \in Node /\ e = <<e[1], e[2]>> /\ e[1] # e[2]
           /\ Winner(e) \in EdgeAttr
           /\ {e[1], e[2]} \subseteq Nodes(ours) \cup Nodes(theirs)
<1>1. PICK g \in {ours, theirs} : e \in EdgeSet(g)
    BY DEF Sides
<1>2. g \in Graphs /\ IsDag(g)
    BY DEF MergeInvariant
<1>3. e \in Node \X Node /\ HasEdge(g, e[1], e[2])
    BY <1>1 DEF EdgeSet
<1>4. e[1] \in Node /\ e[2] \in Node /\ e = <<e[1], e[2]>>
    BY <1>3
<1>5. e[1] # e[2]
    BY <1>2, <1>3, <1>4, NoSelfLoop DEF IsDag
<1>6. Winner(e) \in EdgeAttr
    BY <1>1, <1>4 DEF Winner, AttrOf, EdgeSet, HasEdge, Graphs, MergeInvariant
<1>7. HasNode(g, e[1]) /\ HasNode(g, e[2])
    BY <1>2, <1>3, <1>4 DEF IsDag, EndsPresent
<1> QED
    BY <1>4, <1>5, <1>6, <1>7 DEF Nodes

(* Whatever the loop has inserted reaches no further than both sides.      *)
LEMMA JoinedReaches ==
    ASSUME MergeInvariant, pc = "edges", NEW m \in Node, NEW n \in Node,
           Reaches(result, m, n)
    PROVE  Reaches(Joined, m, n)
<1>1. ASSUME NEW i \in Node, NEW j \in Node, HasEdge(result, i, j)
      PROVE  HasEdge(Joined, i, j)
    <2>1. <<i, j>> \in Sides
        BY <1>1 DEF MergeInvariant, EdgeSet
    <2>2. Joined.edge[i][j] = Winner(<<i, j>>)
        BY <2>1 DEF Joined, Sides
    <2>3. Winner(<<i, j>>) \in EdgeAttr
        BY <2>1, SidesFacts
    <2> QED
        BY <2>2, <2>3, EdgeAttrAssumption DEF HasEdge
<1> QED
    BY <1>1, MoreEdgesReach

(* The attributes of the result do not matter for what Joined reaches.     *)
LEMMA JoinedKept ==
    ASSUME UNCHANGED <<call, base, ours, theirs>>, NEW m, NEW n, Reaches(Joined, m, n)
    PROVE  Reaches(Joined', m, n)
<1>1. \A i, j \in Node : HasEdge(Joined, i, j) <=> HasEdge(Joined', i, j)
    BY DEF Joined, HasEdge, Winner, AttrOf, EdgeSet
<1> QED
    BY <1>1, MoreEdgesReach

-----------------------------------------------------------------------------
LEMMA MergeInit == Init => MergeInvariant
<1> SUFFICES ASSUME Init PROVE MergeInvariant
    OBVIOUS
<1>1. PICK i \in Inputs : base = i.base /\ ours = i.ours /\ theirs = i.theirs
    BY DEF Init
<1>2. /\ ours \in Graphs /\ theirs \in Graphs /\ base \in Graphs
      /\ IsDag(ours) /\ IsDag(theirs)
    BY <1>1, InputsAssumption
<1> QED
    BY <1>2, EmptyGraphType, EmptyGraphDag DEF Init, MergeInvariant

LEMMA MergeStep == MergeInvariant /\ [Next]_vars => MergeInvariant'
<1> SUFFICES ASSUME MergeInvariant, [Next]_vars PROVE MergeInvariant'
    OBVIOUS
<1>1. CASE UNCHANGED vars
    BY <1>1 DEF vars, MergeInvariant, Sides, Unchanged, Joined, Winner
<1>2. UNCHANGED inputs /\ UNCHANGED Sides
    BY DEF Next, vars, inputs, AdoptTheirs, AdoptOurs, Adopt, MergeNodes, MergeEdge,
        MergeDone, Sides
<1>3. \A g : Unchanged(g)' <=> Unchanged(g)
    BY <1>2 DEF inputs, Unchanged
<1>4. CASE AdoptTheirs \/ AdoptOurs
    <2>1. \/ Unchanged(ours) /\ result' = theirs
          \/ Unchanged(theirs) /\ result' = ours
        BY <1>4 DEF AdoptTheirs, AdoptOurs, Adopt
    <2>2. pc = "start" /\ pc' = "done" /\ UNCHANGED <<conflicts, todo>>
        BY <1>4 DEF AdoptTheirs, AdoptOurs, Adopt
    <2> QED
        BY <1>2, <1>3, <2>1, <2>2 DEF MergeInvariant, inputs
<1>5. CASE MergeNodes
    <2>1. /\ pc = "start" /\ pc' = "edges" /\ ~Unchanged(ours) /\ ~Unchanged(theirs)
          /\ todo' = Sides
          /\ result' = [result EXCEPT !.attr = [n \in Node |->
                          IF HasNode(theirs, n) THEN theirs.attr[n] ELSE ours.attr[n]]]
          /\ \A c \in conflicts' : c.reason = "attributes"
        BY <1>5 DEF MergeNodes, Sides
    <2>2. result = EmptyGraph /\ \A m, n \in Node : ~HasEdge(result, m, n)
        BY <2>1 DEF MergeInvariant, EmptyGraph, HasEdge
    <2>3. result' \in Graphs
        BY <2>1 DEF MergeInvariant, Graphs
    <2>4. \A m, n \in Node : ~HasEdge(result', m, n)
        BY <2>1, <2>2 DEF HasEdge, MergeInvariant, Graphs
    <2>5. IsDag(result') /\ EdgeSet(result') = {}
        BY <2>4 DEF IsDag, Acyclic, EndsPresent, EdgeSet
    <2>6. \A n \in Node : result'.attr[n] =
                            IF HasNode(theirs, n) THEN theirs.attr[n] ELSE ours.attr[n]
        BY <2>1 DEF MergeInvariant, Graphs
    <2>7. Nodes(result') = Nodes(ours) \cup Nodes(theirs)
        BY <2>6 DEF Nodes, HasNode
    <2> QED
        BY <1>2, <1>3, <2>1, <2>3, <2>5, <2>7 DEF MergeInvariant, inputs
<1>6. CASE MergeEdge
    <2>1. PICK e \in todo : (InsertEdge(e) \/ RejectEdge(e)) /\ todo' = todo \ {e}
        BY <1>6 DEF MergeEdge
    <2>2. pc = "edges" /\ pc' = "edges" /\ UNCHANGED <<call, base, ours, theirs>>
        BY <1>6 DEF MergeEdge
    <2>3. e \in Sides
        BY DEF MergeInvariant
    <2>4. /\ Nodes(result) = Nodes(ours) \cup Nodes(theirs)
          /\ EdgeSet(result) \subseteq Sides
          /\ \A f \in Sides : f \in todo \/ f \in EdgeSet(result) \/ Rejected(f) \in conflicts
        BY <2>2 DEF MergeInvariant
    <2>5. CASE InsertEdge(e)
        <3>1. /\ EdgeAllowed(result, e[1], e[2])
              /\ result' = PutEdge(result, e[1], e[2], Winner(e))
              /\ conflicts \subseteq conflicts'
              /\ \A c \in conflicts' : c.reason = "rejected" => c \in conflicts
            BY <2>5 DEF InsertEdge, Report
        <3>2. result' \in Graphs /\ IsDag(result')
            BY <2>3, <3>1, SidesFacts, PutEdgeType, PutEdgeDag DEF MergeInvariant
        <3>3. /\ \A m, n \in Node : HasEdge(result', m, n) <=>
                    HasEdge(result, m, n) \/ (m = e[1] /\ n = e[2])
              /\ \A n \in Node : HasNode(result', n) <=> HasNode(result, n)
            BY <2>3, <3>1, SidesFacts, PutEdgeEffect DEF MergeInvariant
        <3>4. Nodes(result') = Nodes(result)
            BY <3>3 DEF Nodes
        <3>5. EdgeSet(result') = EdgeSet(result) \cup {e}
            BY <2>3, <3>3, SidesFacts DEF EdgeSet
        <3>6. \A c \in conflicts' : c.reason = "rejected" =>
                Reaches(Joined', c.edge[2], c.edge[1])
            BY <2>2, <3>1, JoinedKept DEF MergeInvariant
        <3> QED
            BY <1>2, <1>3, <2>1, <2>2, <2>4, <3>1, <3>2, <3>4, <3>5, <3>6
            DEF MergeInvariant
    <2>6. CASE RejectEdge(e)
        <3>1. /\ ~EdgeAllowed(result, e[1], e[2])
              /\ conflicts' = conflicts \cup {Rejected(e)} /\ UNCHANGED result
            BY <2>6 DEF RejectEdge, Report, Rejected
        <3>2. HasNode(result, e[1]) /\ HasNode(result, e[2]) /\ e[1] # e[2]
            BY <2>3, <2>4, SidesFacts DEF Nodes
        <3>3. Reaches(result, e[2], e[1])
            BY <3>1, <3>2 DEF EdgeAllowed
        <3>4. Reaches(Joined, e[2], e[1])
            BY <2>2, <2>3, <3>3, SidesFacts, JoinedReaches
        <3>5. \A c \in conflicts' : c.reason = "rejected" =>
                Reaches(Joined, c.edge[2], c.edge[1])
            BY <3>1, <3>4 DEF MergeInvariant, Rejected
        <3>6. \A c \in conflicts' : c.reason = "rejected" =>
                Reaches(Joined', c.edge[2], c.edge[1])
            BY <2>2, <3>5, JoinedKept
        <3> QED
            BY <1>2, <1>3, <2>1, <2>2, <2>4, <3>1, <3>6 DEF MergeInvariant
    <2> QED
        BY <2>1, <2>5, <2>6
<1>7. CASE MergeDone
    BY <1>2, <1>3, <1>7 DEF MergeDone, MergeInvariant, Joined, Winner
<1> QED
    BY <1>1, <1>4, <1>5, <1>6, <1>7 DEF Next

LEMMA MergeIsSound == Spec => []MergeInvariant
BY MergeInit, MergeStep, PTL DEF Spec

(* Merging acyclic graphs gives an acyclic graph, although their union may *)
(* have a cycle.                                                           *)
THEOREM MergeGivesDags == Spec => []MergedIsDag
<1>1. MergeInvariant => MergedIsDag
    BY DEF MergeInvariant, MergedIsDag
<1> QED
    BY <1>1, MergeIsSound, PTL

(* Every node of either side is in the result, and every edge is in it or  *)
(* reported as rejected.                                                   *)
THEOREM MergeLosesNothingSilently == Spec => []NothingLostSilently
<1>1. MergeInvariant => NothingLostSilently
    BY DEF MergeInvariant, NothingLostSilently, Sides, Rejected
<1> QED
    BY <1>1, MergeIsSound, PTL

(* Only an edge on a cycle of both sides together is ever rejected.        *)
THEOREM MergeRejectsOnlyCycles == Spec => []RejectsOnlyCycles
<1>1. MergeInvariant => RejectsOnlyCycles
    BY DEF MergeInvariant, RejectsOnlyCycles
<1> QED
    BY <1>1, MergeIsSound, PTL

-----------------------------------------------------------------------------
(* Compare.  What it lists of a node or an edge is what the new graph has  *)
(* there, and is listed only when the old graph has something else.        *)

OfNode(c) == "node" \in DOMAIN c
OfEdge(c) == "edge" \in DOMAIN c

LEMMA ChangesAreRight ==
    ASSUME NEW old, NEW new, NEW c \in Compare(old, new)
    PROVE  /\ OfNode(c) => /\ c.node \in Node /\ c.new = new.attr[c.node]
                           /\ old.attr[c.node] # new.attr[c.node]
           /\ OfEdge(c) => /\ c.edge \in Node \X Node /\ c.new = AttrOf(new, c.edge)
                           /\ AttrOf(old, c.edge) # AttrOf(new, c.edge)
           /\ OfNode(c) \/ OfEdge(c)
<1>1. ASSUME NEW k, NEW n \in Node, NEW o, c = NodeChange(k, n, o, new.attr[n]),
             old.attr[n] # new.attr[n]
      PROVE  /\ OfNode(c) /\ ~OfEdge(c) /\ c.node = n /\ c.new = new.attr[c.node]
             /\ old.attr[c.node] # new.attr[c.node]
    BY <1>1 DEF NodeChange, OfNode, OfEdge
<1>2. ASSUME NEW k, NEW e \in Node \X Node, NEW o, c = EdgeChange(k, e, o, AttrOf(new, e)),
             AttrOf(old, e) # AttrOf(new, e)
      PROVE  /\ OfEdge(c) /\ ~OfNode(c) /\ c.edge = e /\ c.new = AttrOf(new, c.edge)
             /\ AttrOf(old, c.edge) # AttrOf(new, c.edge)
    BY <1>2 DEF EdgeChange, OfNode, OfEdge
<1>3. \/ \E k, o : \E n \in Node : /\ c = NodeChange(k, n, o, new.attr[n])
                                   /\ old.attr[n] # new.attr[n]
      \/ \E k, o : \E e \in Node \X Node : /\ c = EdgeChange(k, e, o, AttrOf(new, e))
                                           /\ AttrOf(old, e) # AttrOf(new, e)
    <2>1. CASE \E n \in Nodes(new) \ Nodes(old) :
                    c = NodeChange("add_node", n, Absent, new.attr[n])
        BY <2>1 DEF Nodes, HasNode
    <2>2. CASE \E n \in Nodes(old) \ Nodes(new) :
                    c = NodeChange("remove_node", n, old.attr[n], Absent)
        BY <2>2 DEF Nodes, HasNode
    <2>3. CASE \E n \in {m \in Nodes(old) \cap Nodes(new) : old.attr[m] # new.attr[m]} :
                    c = NodeChange("modify_node", n, old.attr[n], new.attr[n])
        BY <2>3 DEF Nodes
    <2>4. CASE \E e \in EdgeSet(new) \ EdgeSet(old) :
                    c = EdgeChange("add_edge", e, Absent, AttrOf(new, e))
        BY <2>4 DEF EdgeSet, HasEdge, AttrOf
    <2>5. CASE \E e \in EdgeSet(old) \ EdgeSet(new) :
                    c = EdgeChange("remove_edge", e, AttrOf(old, e), Absent)
        BY <2>5 DEF EdgeSet, HasEdge, AttrOf
    <2>6. CASE \E e \in {f \in EdgeSet(old) \cap EdgeSet(new) :
                            AttrOf(old, f) # AttrOf(new, f)} :
                    c = EdgeChange("modify_edge", e, AttrOf(old, e), AttrOf(new, e))
        BY <2>6 DEF EdgeSet
    <2> QED
        BY <2>1, <2>2, <2>3, <2>4, <2>5, <2>6 DEF Compare
<1> QED
    BY <1>1, <1>2, <1>3

(* Every difference is listed.                                             *)
LEMMA ChangesAreAll ==
    ASSUME NEW old, NEW new
    PROVE  /\ \A n \in Node : old.attr[n] # new.attr[n] =>
                \E c \in Compare(old, new) : OfNode(c) /\ c.node = n
           /\ \A m, n \in Node : old.edge[m][n] # new.edge[m][n] =>
                \E c \in Compare(old, new) : OfEdge(c) /\ c.edge = <<m, n>>
<1>1. ASSUME NEW n \in Node, old.attr[n] # new.attr[n]
      PROVE  \E c \in Compare(old, new) : OfNode(c) /\ c.node = n
    <2>1. \A k, o, w : LET c == NodeChange(k, n, o, w) IN OfNode(c) /\ c.node = n
        BY DEF NodeChange, OfNode
    <2>2. \E k, o, w : NodeChange(k, n, o, w) \in Compare(old, new)
        <3>1. CASE n \in Nodes(new) \ Nodes(old)
            BY <3>1 DEF Compare
        <3>2. CASE n \in Nodes(old) \ Nodes(new)
            BY <3>2 DEF Compare
        <3>3. CASE n \in Nodes(old) \cap Nodes(new)
            BY <1>1, <3>3 DEF Compare
        <3> QED
            BY <1>1, <3>1, <3>2, <3>3 DEF Nodes, HasNode
    <2> QED
        BY <2>1, <2>2
<1>2. ASSUME NEW m \in Node, NEW n \in Node, old.edge[m][n] # new.edge[m][n]
      PROVE  \E c \in Compare(old, new) : OfEdge(c) /\ c.edge = <<m, n>>
    <2> DEFINE e == <<m, n>>
    <2>1. \A k, o, w : LET c == EdgeChange(k, e, o, w) IN OfEdge(c) /\ c.edge = e
        BY DEF EdgeChange, OfEdge
    <2>2. e \in Node \X Node /\ AttrOf(old, e) # AttrOf(new, e)
        BY <1>2 DEF AttrOf
    <2>3. \A g : e \in EdgeSet(g) <=> AttrOf(g, e) # Absent
        BY <2>2 DEF EdgeSet, HasEdge, AttrOf
    <2> HIDE DEF e
    <2>4. \E k, o, w : EdgeChange(k, e, o, w) \in Compare(old, new)
        <3>1. CASE e \in EdgeSet(new) \ EdgeSet(old)
            BY <3>1 DEF Compare
        <3>2. CASE e \in EdgeSet(old) \ EdgeSet(new)
            BY <3>2 DEF Compare
        <3>3. CASE e \in EdgeSet(old) \cap EdgeSet(new)
            BY <2>2, <3>3 DEF Compare
        <3> QED
            BY <2>2, <2>3, <3>1, <3>2, <3>3
    <2>5. \E c \in Compare(old, new) : OfEdge(c) /\ c.edge = e
        BY <2>1, <2>4
    <2> QED
        BY <2>5 DEF e
<1> QED
    BY <1>1, <1>2

LEMMA ChangesPatch ==
    ASSUME NEW old \in Graphs, NEW new \in Graphs
    PROVE  Patched(old, Compare(old, new)) = new
<1> DEFINE D == Compare(old, new)
<1>1. ASSUME NEW n \in Node
      PROVE  (IF \E c \in D : OfNode(c) /\ c.node = n
              THEN (CHOOSE c \in D : OfNode(c) /\ c.node = n).new
              ELSE old.attr[n]) = new.attr[n]
    <2>1. \A c \in D : OfNode(c) /\ c.node = n => c.new = new.attr[n]
        BY ChangesAreRight
    <2>2. (\E c \in D : OfNode(c) /\ c.node = n) \/ old.attr[n] = new.attr[n]
        BY ChangesAreAll
    <2> HIDE DEF D
    <2> QED
        BY <2>1, <2>2
<1>2. ASSUME NEW m \in Node, NEW n \in Node
      PROVE  (IF \E c \in D : OfEdge(c) /\ c.edge = <<m, n>>
              THEN (CHOOSE c \in D : OfEdge(c) /\ c.edge = <<m, n>>).new
              ELSE old.edge[m][n]) = new.edge[m][n]
    <2>1. AttrOf(new, <<m, n>>) = new.edge[m][n]
        BY DEF AttrOf
    <2>2. \A c \in D : OfEdge(c) /\ c.edge = <<m, n>> => c.new = new.edge[m][n]
        BY <2>1, ChangesAreRight
    <2>3. (\E c \in D : OfEdge(c) /\ c.edge = <<m, n>>) \/ old.edge[m][n] = new.edge[m][n]
        BY ChangesAreAll
    <2> HIDE DEF D
    <2> QED
        BY <2>2, <2>3
<1> HIDE DEF D
<1>3. Patched(old, D).attr = new.attr
    <2>1. Patched(old, D).attr = [n \in Node |-> new.attr[n]]
        BY <1>1 DEF Patched, OfNode
    <2> QED
        BY <2>1 DEF Graphs
<1>4. Patched(old, D).edge = new.edge
    <2>1. Patched(old, D).edge = [m \in Node |-> [n \in Node |-> new.edge[m][n]]]
        BY <1>2 DEF Patched, OfEdge
    <2> QED
        BY <2>1 DEF Graphs
<1> QED
    BY <1>3, <1>4 DEF Patched, Graphs, D

(* What Compare lists turns the old graph into the new one: no difference  *)
(* is missed, and none is listed twice with different values.              *)
THEOREM CompareListsAll == Spec => []CompareIsComplete
<1>1. MergeInvariant => CompareIsComplete
    BY ChangesPatch DEF MergeInvariant, CompareIsComplete
<1> QED
    BY <1>1, MergeIsSound, PTL

(* The shortcuts of ThreeWayMerge test for an empty list, and that is to   *)
(* test for equality: a side is thrown away only when it is the base.      *)
THEOREM CompareDecidesEquality ==
    ASSUME NEW old \in Graphs, NEW new \in Graphs
    PROVE  Compare(old, new) = {} <=> old = new
<1>1. ASSUME Compare(old, new) = {} PROVE old = new
    <2>1. \A n \in Node : old.attr[n] = new.attr[n]
        BY <1>1, ChangesAreAll
    <2>2. \A m, n \in Node : old.edge[m][n] = new.edge[m][n]
        BY <1>1, ChangesAreAll
    <2>3. old.attr = new.attr
        BY <2>1 DEF Graphs
    <2>4. old.edge = new.edge
        <3>1. \A m \in Node : old.edge[m] = new.edge[m]
            BY <2>2 DEF Graphs
        <3> QED
            BY <3>1 DEF Graphs
    <2> QED
        BY <2>3, <2>4 DEF Graphs
<1>2. ASSUME old = new PROVE Compare(old, new) = {}
    BY <1>2, ChangesAreRight
<1> QED
    BY <1>1, <1>2
=============================================================================
