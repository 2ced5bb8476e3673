------------------------------ MODULE MCStore ------------------------------
(* Instances of Store for TLC.                                             *)
EXTENDS Store

CONSTANTS a, b, c, n0, n1, direct, join, absent, torn, none

G(ns, es) ==
    [attr |-> [n \in Node |-> IF n \in ns THEN n0 ELSE absent],
     edge |-> [m \in Node |-> [n \in Node |->
                IF <<m, n>> \in es THEN direct ELSE absent]]]

OnlyEmpty == {EmptyGraph}
NoDocs == {}
PairDoc == {G({a, b}, {<<b, a>>})}
EdgeOnly == {G({a, b, c}, {<<a, b>>})}
=============================================================================
