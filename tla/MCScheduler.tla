---------------------------- MODULE MCScheduler ----------------------------
(* Instances of Scheduler for TLC.                                         *)
EXTENDS Scheduler

CONSTANTS n0, direct, absent, r1

G(ns, es) ==
    [attr |-> [n \in Node |-> IF n \in ns THEN n0 ELSE absent],
     edge |-> [m \in Node |-> [n \in Node |->
                IF <<m, n>> \in es THEN direct ELSE absent]]]

Links(ns) == {e \in ns \X ns : e[1] # e[2]}

(* Every acyclic graph on all the nodes, and those on the nodes but one.    *)
AllDags ==
    LET sizes == {Node, Node \ {Least(Node)}}
    IN  {g \in UNION {{G(ns, es) : es \in SUBSET Links(ns)} : ns \in sizes} : IsDag(g)}
=============================================================================
