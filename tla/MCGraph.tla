------------------------------ MODULE MCGraph ------------------------------
(* Instances of Graph for TLC.                                             *)
EXTENDS Graph

CONSTANTS a0, a1, direct, join, absent

N(i, a) == [id |-> i, attr |-> a]
E(i, j, a) == [from |-> i, to |-> j, attr |-> a]

(* Written by hand or by another tool, but acyclic and without repeated    *)
(* ids: nodes out of order, an edge listed twice, an edge to a node that   *)
(* is not listed after one that is loaded.                                 *)
AcyclicDocs ==
    {[nodes |-> <<N(3, a1), N(1, a0)>>,
      edges |-> <<E(3, 1, direct), E(3, 1, join)>>],
     [nodes |-> <<N(2, a0), N(1, a1)>>,
      edges |-> <<E(1, 2, join), E(2, 3, direct), E(2, 1, direct)>>]}
=============================================================================
