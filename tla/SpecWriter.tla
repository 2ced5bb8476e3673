----------------------------- MODULE SpecWriter -----------------------------
(***************************************************************************)
(* FormatSpec (internal/parse): it writes a directive for every node that  *)
(* has attributes, then the lines of every target in topological order,    *)
(* or in that of Nodes() when there is a cycle.  The transforms of a       *)
(* target come in the random order of a Go map.                            *)
(***************************************************************************)
EXTENDS SpecFormat

CONSTANT Sources    \* the graphs written

ASSUME SourcesAssumption == \A g \in Sources : g \in Graphs /\ EndsPresent(g)

VARIABLES
    source,
    names,      \* the nodes whose directive is still to be written
    targets,    \* the targets whose lines are still to be written
    group,      \* the lines left of the target being written
    lines       \* the text

writerVars == <<source, names, targets, group, lines>>

(* The attributes that are set, as the words of a directive.               *)
Pair(key, value) == IF value = "" THEN <<>> ELSE <<[key |-> key, value |-> value]>>

AttrPairs(a) == Pair("layer", a.layer) \o Pair("owner", a.owner)

AttrLine(g, n) == [kind |-> "attr", node |-> n, pairs |-> AttrPairs(g.attr[n])]

DepLine(target, transform, deps) ==
    [kind |-> "dep", target |-> target,
     bracket |-> IF transform \in {"direct", ""} THEN Absent ELSE transform,
     deps |-> Ascending(deps, <)]

LinesForMerged(g, n) ==
    IF Predecessors(g, n) = {} THEN {DepLine(n, "direct", {})}
    ELSE {DepLine(n, g.edge[m][n].transform, Predecessors(g, n)) : m \in Predecessors(g, n)}

(* One line for every transform of the incoming edges.                     *)
SameTransform(g, t, n) == {m \in Predecessors(g, n) : g.edge[m][n].transform = t}

LinesFor(g, n) ==
    IF Predecessors(g, n) = {} THEN {DepLine(n, "direct", {})}
    ELSE {DepLine(n, t, SameTransform(g, t, n)) : t \in {g.edge[m][n].transform : m \in Predecessors(g, n)}}

WriterInit ==
    /\ source \in Sources
    /\ names = Ascending(Nodes(source), <)
    /\ targets \in IF TopoOrders(source) = {} THEN {Ascending(Nodes(source), <)}
                   ELSE TopoOrders(source)
    /\ group = {}
    /\ lines = <<>>

(* The comments of edges are not written.                                  *)
WriteAttr ==
    /\ names # <<>>
    /\ lines' = IF AttrPairs(source.attr[Head(names)]) = <<>> THEN lines
                ELSE Append(lines, AttrLine(source, Head(names)))
    /\ names' = Tail(names)
    /\ UNCHANGED <<source, targets, group>>

TakeTarget ==
    /\ names = <<>>
    /\ group = {}
    /\ targets # <<>>
    /\ group' = LinesFor(source, Head(targets))
    /\ targets' = Tail(targets)
    /\ UNCHANGED <<source, names, lines>>

WriteDeps ==
    \E line \in group :
        /\ lines' = Append(lines, line)
        /\ group' = group \ {line}
        /\ UNCHANGED <<source, names, targets>>

WriterNext == WriteAttr \/ TakeTarget \/ WriteDeps

WriterSpec == WriterInit /\ [][WriterNext]_writerVars

WriterDone == names = <<>> /\ targets = <<>> /\ group = {}

-----------------------------------------------------------------------------
(* What a graph keeps of itself when it is written as a text.              *)
KeptOf(a) ==
    IF a = Absent THEN Absent
    ELSE [transform |-> IF a.transform = "" THEN "direct" ELSE a.transform, comment |-> ""]

Written(g) ==
    [attr |-> g.attr, edge |-> [m \in Node |-> [n \in Node |-> KeptOf(g.edge[m][n])]]]

(* Every transform is one that a line may have, and a target has no more   *)
(* dependencies of one transform than fit on a line.                       *)
Fits(g) ==
    \A m, n \in Node : HasEdge(g, m, n) =>
        /\ g.edge[m][n].transform \in ValidTransforms \cup {""}
        /\ Cardinality(SameTransform(g, g.edge[m][n].transform, n)) <= LineCap

(* Whatever order the map of transforms comes in, what FormatSpec writes   *)
(* is read back as the same graph without the comments, unless the graph   *)
(* has a cycle, a transform that is none, or more dependencies of one      *)
(* transform than a line can hold: then it is refused, not misread.        *)
SpecRoundTrip ==
    WriterDone => ParseSpec(lines) =
        IF Fits(source) /\ Acyclic(source) THEN Ok(Written(source)) ELSE Error
=============================================================================
