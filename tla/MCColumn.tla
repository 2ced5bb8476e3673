------------------------------ MODULE MCColumn ------------------------------
(* The instance of ColumnTrace for TLC.                                    *)
EXTENDS ColumnTrace

CONSTANTS x, y, direct, derived, e0, e1

(* Table "s.a" with column "c" and table "s" with column "a.c" share the   *)
(* key "s.a.c"; the other fields have one of their own.                    *)
F(t, c) == [table |-> t, column |-> c]
Fields == {F(x, x), F(x, y), F(y, x), F(y, y)}
KeyOfField == [f \in Fields |-> IF f = F(x, y) THEN F(y, x) ELSE f]

M(s, t, k, e) == [source |-> s, target |-> t, kind |-> k, expr |-> e]

(* A chain, and a mapping back that makes it a cycle.  The other maps hold *)
(* the chain again with other expressions, and its second mapping twice,   *)
(* from the field with the same key.                                       *)
Chain ==
    {M(F(x, x), F(x, y), direct, e0), M(F(x, y), F(y, y), direct, e0),
     M(F(y, y), F(x, x), derived, e0)}
OtherMaps ==
    {<<M(F(x, x), F(y, x), direct, e1), M(F(y, x), F(y, y), direct, e1)>>,
     <<M(F(y, x), F(y, y), derived, e0), M(F(y, x), F(y, y), derived, e1)>>}
=============================================================================
