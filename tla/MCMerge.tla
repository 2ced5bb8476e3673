------------------------------ MODULE MCMerge ------------------------------
(* Instances of Merge for TLC.                                             *)
EXTENDS Merge

CONSTANTS a, b, c, n0, n1, direct, noted, join, absent

(* `noted` is a direct edge with a comment.                                *)
Kind == [e \in EdgeAttr |-> IF e = join THEN "join" ELSE "direct"]

(* The acyclic graphs on some of the nodes in ns, with the given values.   *)
Dags(ns, attrs, edgeAttrs) ==
    LET pairs == ns \X ns
        graph(at, ed) ==
            [attr |-> [n \in Node |-> IF n \in ns THEN at[n] ELSE absent],
             edge |-> [m \in Node |-> [n \in Node |->
                        IF <<m, n>> \in pairs THEN ed[<<m, n>>] ELSE absent]]]
    IN  {g \in {graph(at, ed) : at \in [ns -> attrs \cup {absent}],
                               ed \in [pairs -> edgeAttrs \cup {absent}]} : IsDag(g)}

Calls(f, bases, versions) ==
    [call : {f}, base : bases, ours : versions, theirs : versions]

(* Two nodes with every combination of attributes, as versions of any base *)
(* and without one; and three nodes, where more than one edge can close a  *)
(* cycle.                                                                  *)
ThreeWayCalls == LET g == Dags({a, b}, Attr, EdgeAttr) IN Calls("three_way", g, g)

AllCalls ==
         ThreeWayCalls
    \cup Calls("merge", {EmptyGraph}, Dags({a, b}, Attr, EdgeAttr))
    \cup Calls("merge", {EmptyGraph}, Dags(Node, {n0}, {direct}))
=============================================================================
