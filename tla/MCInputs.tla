------------------------------ MODULE MCInputs ------------------------------
(* Graphs and texts that the instances of Loops and Queries share.         *)
EXTENDS SpecFormat, SequencesExt

CONSTANTS absent

Unset == [layer |-> "", owner |-> ""]
ByLayer(layer, owner) == [layer |-> layer, owner |-> owner]
NodeAttrs == [layer : Name, owner : Name]

Of(transform, comment) == [transform |-> transform, comment |-> comment]
Straight == Of("direct", "")
EdgeAttrs == {Of(t, c) : t \in ValidTransforms \cup {"", "cast"}, c \in {"", "note"}}

Weighted(attrs, kind) ==
    [attr |-> [n \in Node |-> IF n \in DOMAIN attrs THEN attrs[n] ELSE absent],
     edge |-> [m \in Node |-> [n \in Node |->
                IF <<m, n>> \in DOMAIN kind THEN kind[<<m, n>>] ELSE absent]]]

G(ns, es) ==
    [attr |-> [n \in Node |-> IF n \in ns THEN Unset ELSE absent],
     edge |-> [m \in Node |-> [n \in Node |-> IF <<m, n>> \in es THEN Straight ELSE absent]]]

Links(ns) == {e \in ns \X ns : e[1] # e[2]}

(* Every acyclic graph on all the nodes, and those on the nodes but one:   *)
(* the edges go forward in some order of the nodes.                        *)
ForwardIn(ns) ==
    {<<ns[k[1]], ns[k[2]]>> : k \in {k \in (DOMAIN ns) \X (DOMAIN ns) : k[1] < k[2]}}
DagsOn(ns) == {G(ns, es) : es \in UNION {SUBSET ForwardIn(listing) : listing \in SetToSeqs(ns)}}
AllDags == {g \in DagsOn(Node) \cup DagsOn(Node \ {Least(Node)}) : EndsPresent(g)}

(* Graphs on three nodes, cyclic ones included: every one with up to two   *)
(* edges with attributes from few, or with transforms from few and all     *)
(* nodes alike, every one with three edges; and four nodes of which one    *)
(* depends on the others.                                                  *)
FewAttrs == {Unset, ByLayer("staging", "a"), ByLayer("fact", "b"), ByLayer("raw", "a")}
FewKinds == {Straight, Of("", ""), Of("join", "note"), Of("union", ""), Of("cast", "")}

Shapes(sizes) == {es \in SUBSET Links({1, 2, 3}) : Cardinality(es) \in sizes}

Judged ==
    LET attributed == {Weighted(attrs, [e \in es |-> Straight]) :
                         attrs \in [{1, 2, 3} -> FewAttrs], es \in Shapes(0..2)}
        kinds      == UNION {[es -> FewKinds] : es \in Shapes(0..2)}
        threes     == {[e \in es |-> Straight] : es \in Shapes({3})}
        fanIns     == [{1, 2, 3} \X {4} -> {Straight, Of("join", "")}]
        plain(ns)  == [n \in ns |-> ByLayer("dim", "a")]
    IN  {g \in attributed \cup {Weighted(plain({1, 2, 3}), kind) : kind \in kinds \cup threes}
                          \cup {Weighted(plain(Node), kind) : kind \in fanIns} : EndsPresent(g)}

Dep(to, bracket, deps) == [kind |-> "dep", target |-> to, bracket |-> bracket, deps |-> deps]
At(node, pairs) == [kind |-> "attr", node |-> node, pairs |-> pairs]
Is(key, value) == [key |-> key, value |-> value]

Legible ==
    {Dep(1, absent, <<>>), Dep(2, absent, <<1, absent>>), Dep(2, "join", <<1>>),
     Dep(3, "", <<2, 1>>), Dep(1, "union", <<3>>),
     At(1, <<Is("layer", "fact"), Is("layer", "report")>>), At(1, <<Is("owner", "a")>>),
     At(2, <<Is("layer", "staging"), Is("owner", "b")>>), At(1, <<Is("owner", "")>>)}

Faulty ==
    {[kind |-> "blank"], [kind |-> "other"], Dep(2, absent, <<2>>), Dep(absent, absent, <<1>>),
     Dep(3, "cast", <<1>>), Dep(3, "[", <<1>>), Dep(4, absent, <<1, 2, 3>>),
     At(2, <<>>), At(3, <<Is(absent, "x")>>), At(3, <<Is("layer", ""), Is(absent, "x")>>)}

(* All texts of three good lines, and of two lines good or bad.            *)
Files == [1..3 -> Legible] \cup UNION {[1..k -> Legible \cup Faulty] : k \in 0..2}
=============================================================================
