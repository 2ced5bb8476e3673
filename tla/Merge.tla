------------------------------- MODULE Merge -------------------------------
(***************************************************************************)
(* internal/diff: Compare lists the differences of two graphs, Merge joins *)
(* two graphs and ThreeWayMerge two versions of a common base.  Merge      *)
(* inserts the edges of both sides through AddEdgeWithAttr in the random   *)
(* order of a Go map, so its edge loop is one step per edge.               *)
(***************************************************************************)
EXTENDS LineageGraph

CONSTANTS
    Inputs,        \* the calls made: the function and its graphs
    Transform      \* the Transform of an EdgeAttr; the rest is its Comment

ASSUME InputsAssumption ==
    \A i \in Inputs :
        /\ i.call \in {"merge", "three_way"}
        /\ i.call = "merge" => i.base = EmptyGraph     \* Merge has no base
        /\ \A g \in {i.base, i.ours, i.theirs} : g \in Graphs /\ IsDag(g)
ASSUME TransformAssumption == DOMAIN Transform = EdgeAttr

VARIABLES
    call,          \* "merge" or "three_way"
    base, ours, theirs,
    result,        \* the graph under construction
    conflicts,     \* what MergeResult.Conflicts reports
    todo,          \* edges the loop has not reached yet
    pc             \* "start", "edges" or "done"

inputs == <<call, base, ours, theirs>>
vars == <<call, base, ours, theirs, result, conflicts, todo, pc>>

AttrOf(g, e) == g.edge[e[1]][e[2]]

-----------------------------------------------------------------------------
(* Compare.  A change of both attributes of a node is one change.          *)

NodeChange(kind, n, old, new) == [kind |-> kind, node |-> n, old |-> old, new |-> new]
EdgeChange(kind, e, old, new) == [kind |-> kind, edge |-> e, old |-> old, new |-> new]

CompareTransforms(old, new) ==
         {NodeChange("add_node", n, Absent, new.attr[n]) :
            n \in Nodes(new) \ Nodes(old)}
    \cup {NodeChange("remove_node", n, old.attr[n], Absent) :
            n \in Nodes(old) \ Nodes(new)}
    \cup {NodeChange("modify_node", n, old.attr[n], new.attr[n]) :
            n \in {m \in Nodes(old) \cap Nodes(new) : old.attr[m] # new.attr[m]}}
    \cup {EdgeChange("add_edge", e, Absent, AttrOf(new, e)) :
            e \in EdgeSet(new) \ EdgeSet(old)}
    \cup {EdgeChange("remove_edge", e, AttrOf(old, e), Absent) :
            e \in EdgeSet(old) \ EdgeSet(new)}
    \cup {EdgeChange("modify_edge", e, AttrOf(old, e), AttrOf(new, e)) :
            e \in {f \in EdgeSet(old) \cap EdgeSet(new) :
                      Transform[AttrOf(old, f)] # Transform[AttrOf(new, f)]}}

Compare(old, new) ==
         {NodeChange("add_node", n, Absent, new.attr[n]) :
            n \in Nodes(new) \ Nodes(old)}
    \cup {NodeChange("remove_node", n, old.attr[n], Absent) :
            n \in Nodes(old) \ Nodes(new)}
    \cup {NodeChange("modify_node", n, old.attr[n], new.attr[n]) :
            n \in {m \in Nodes(old) \cap Nodes(new) : old.attr[m] # new.attr[m]}}
    \cup {EdgeChange("add_edge", e, Absent, AttrOf(new, e)) :
            e \in EdgeSet(new) \ EdgeSet(old)}
    \cup {EdgeChange("remove_edge", e, AttrOf(old, e), Absent) :
            e \in EdgeSet(old) \ EdgeSet(new)}
    \cup {EdgeChange("modify_edge", e, AttrOf(old, e), AttrOf(new, e)) :
            e \in {f \in EdgeSet(old) \cap EdgeSet(new) : AttrOf(old, f) # AttrOf(new, f)}}

-----------------------------------------------------------------------------
Init ==
    /\ \E i \in Inputs :
        /\ call = i.call
        /\ base = i.base
        /\ ours = i.ours
        /\ theirs = i.theirs
    /\ result = EmptyGraph
    /\ conflicts = {}
    /\ todo = {}
    /\ pc = "start"

Unchanged(g) == call = "three_way" /\ Compare(base, g) = {}

(* Neither shortcut reports conflicts.                                     *)
Adopt(g) ==
    /\ pc = "start"
    /\ pc' = "done"
    /\ result' = g
    /\ UNCHANGED <<call, base, ours, theirs, conflicts, todo>>

AdoptTheirs == Unchanged(ours) /\ Adopt(theirs)
AdoptOurs == ~Unchanged(ours) /\ Unchanged(theirs) /\ Adopt(ours)

(* The node loop: theirs wins, and a difference is reported.               *)
MergeNodes ==
    /\ pc = "start"
    /\ ~Unchanged(ours)
    /\ ~Unchanged(theirs)
    /\ result' = [result EXCEPT !.attr = [n \in Node |->
                    IF HasNode(theirs, n) THEN theirs.attr[n] ELSE ours.attr[n]]]
    /\ conflicts' = {[reason |-> "attributes", node |-> n] :
                      n \in {m \in Nodes(ours) \cap Nodes(theirs) :
                               ours.attr[m] # theirs.attr[m]}}
    /\ todo' = EdgeSet(ours) \cup EdgeSet(theirs)
    /\ pc' = "edges"
    /\ UNCHANGED inputs

InBoth(e) == e \in EdgeSet(ours) \cap EdgeSet(theirs)
Winner(e) == IF e \in EdgeSet(theirs) THEN AttrOf(theirs, e) ELSE AttrOf(ours, e)
Report(reason, e) == conflicts' = conflicts \cup {[reason |-> reason, edge |-> e]}

(* An edge of both sides takes the attributes of theirs; only a difference *)
(* in Transform is reported.                                               *)
InsertEdge(e) ==
    /\ EdgeAllowed(result, e[1], e[2])
    /\ result' = PutEdge(result, e[1], e[2], Winner(e))
    /\ IF InBoth(e) /\ Transform[AttrOf(ours, e)] # Transform[AttrOf(theirs, e)]
       THEN Report("transform", e)
       ELSE UNCHANGED conflicts

RejectSilently(e) ==
    /\ ~EdgeAllowed(result, e[1], e[2])
    /\ UNCHANGED <<conflicts, result>>

RejectEdge(e) ==
    /\ ~EdgeAllowed(result, e[1], e[2])
    /\ Report("rejected", e)
    /\ UNCHANGED result

MergeEdge ==
    /\ pc = "edges"
    /\ \E e \in todo :
        /\ InsertEdge(e) \/ RejectEdge(e)
        /\ todo' = todo \ {e}
    /\ UNCHANGED <<call, base, ours, theirs, pc>>

MergeDone ==
    /\ pc = "edges"
    /\ todo = {}
    /\ pc' = "done"
    /\ UNCHANGED <<call, base, ours, theirs, result, conflicts, todo>>

Next == AdoptTheirs \/ AdoptOurs \/ MergeNodes \/ MergeEdge \/ MergeDone

Spec == Init /\ [][Next]_vars

-----------------------------------------------------------------------------
TypeOK ==
    /\ {base, ours, theirs, result} \subseteq Graphs
    /\ todo \subseteq Node \X Node
    /\ pc \in {"start", "edges", "done"}
    /\ \A c \in conflicts : c.reason \in {"attributes", "transform", "rejected"}

(* Whatever the order of the edge loop, and although two acyclic graphs may *)
(* have a cyclic union, the merged graph is a DAG.                         *)
MergedIsDag == IsDag(result)

(* A merge loses no node and no edge of either side silently: an edge that *)
(* is not in the result is reported as rejected.                           *)
NothingLostSilently ==
    pc = "done" /\ ~Unchanged(ours) /\ ~Unchanged(theirs) =>
        /\ Nodes(result) = Nodes(ours) \cup Nodes(theirs)
        /\ \A e \in EdgeSet(ours) \cup EdgeSet(theirs) :
            e \in EdgeSet(result) \/ [reason |-> "rejected", edge |-> e] \in conflicts

Joined == [attr |-> result.attr,
           edge |-> [m \in Node |-> [n \in Node |->
               IF <<m, n>> \in EdgeSet(ours) \cup EdgeSet(theirs)
               THEN Winner(<<m, n>>) ELSE Absent]]]

(* The random order matters only when there is a cycle to break: an edge   *)
(* is rejected only if it lies on a cycle of both sides together.          *)
RejectsOnlyCycles ==
    pc = "done" =>
        \A c \in conflicts : c.reason = "rejected" =>
            Reaches(Joined, c.edge[2], c.edge[1])

(* Applying what Compare lists to the old graph gives the new one, so an   *)
(* empty list means that nothing changed.                                  *)
Patched(old, changes) ==
    [attr |-> [n \in Node |->
        IF \E c \in changes : "node" \in DOMAIN c /\ c.node = n
        THEN (CHOOSE c \in changes : "node" \in DOMAIN c /\ c.node = n).new
        ELSE old.attr[n]],
     edge |-> [m \in Node |-> [n \in Node |->
        IF \E c \in changes : "edge" \in DOMAIN c /\ c.edge = <<m, n>>
        THEN (CHOOSE c \in changes : "edge" \in DOMAIN c /\ c.edge = <<m, n>>).new
        ELSE old.edge[m][n]]]]

CompareIsComplete == Patched(base, Compare(base, ours)) = ours

(* A three-way merge keeps a change that only our side made to an edge, or *)
(* reports it.                                                             *)
OneSidedChangeKept ==
    pc = "done" /\ call = "three_way" =>
        \A e \in Node \X Node :
            AttrOf(theirs, e) = AttrOf(base, e) /\ AttrOf(ours, e) # AttrOf(base, e) =>
                \/ AttrOf(result, e) = AttrOf(ours, e)
                \/ \E c \in conflicts : "edge" \in DOMAIN c /\ c.edge = e
=============================================================================
