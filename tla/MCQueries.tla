----------------------------- MODULE MCQueries -----------------------------
(* Instances of Queries and Console for TLC.                               *)
EXTENDS Console, MCInputs

Lists == {<<>>, <<1>>, <<3, 2>>, <<4, 4>>, <<1, 2, 4>>}

OneOf(a, b) == <<a, b>>
Limits == [depth |-> OneOf(1, 1), fanIn |-> OneOf(5, 4), fanOut |-> OneOf(2, 1),
           density |-> OneOf(3, 10), coupling |-> OneOf(1, 2), components |-> OneOf(2, 1)]
=============================================================================
