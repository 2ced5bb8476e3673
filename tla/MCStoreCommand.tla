--------------------------- MODULE MCStoreCommand ---------------------------
(* The instance of StoreCommand for TLC.                                   *)
EXTENDS StoreCommand

CONSTANTS n0, n1, direct, join, absent, torn, none

G(ns, es, na, ea) ==
    [attr |-> [n \in Node |-> IF n \in ns THEN na ELSE absent],
     edge |-> [m \in Node |-> [n \in Node |->
                IF <<m, n>> \in es THEN ea ELSE absent]]]

(* Nothing, and a chain against the order of the ids.                      *)
StoredGraphs ==
    {EmptyGraph, G({1, 2, 3}, {<<3, 2>>, <<2, 1>>}, n0, direct)}

(* A fan into 3, whose edges close a cycle with the stored chain, and an   *)
(* edge of that chain with another transform.                              *)
SpecGraphs ==
    {G({1, 2, 3}, {<<1, 3>>, <<2, 3>>}, n1, join),
     G({1, 2}, {<<2, 1>>}, n0, join)}
NoDocs == {}
=============================================================================
