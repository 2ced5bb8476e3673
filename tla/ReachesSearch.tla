--------------------------- MODULE ReachesSearch ---------------------------
(***************************************************************************)
(* The loop of Graph.reaches (internal/graph/graph.go), the cycle test     *)
(* that AddEdgeWithAttr depends on: a depth-first search with an explicit  *)
(* stack on which a node may lie several times, pushing successors in the  *)
(* random order of a Go map.  The graph is any graph, cyclic ones included: *)
(* UnmarshalJSON lets them in.                                             *)
(***************************************************************************)
EXTENDS LineageGraph, Naturals, FiniteSets, Sequences

CONSTANT Inputs    \* the graphs searched

ASSUME SearchNodeIsFinite == IsFiniteSet(Node)
ASSUME InputsAssumption == Inputs \subseteq Graphs

VARIABLES searched, from, target, seen, stack, answer

searchVars == <<searched, from, target, seen, stack, answer>>

OnStack == {stack[i] : i \in DOMAIN stack}

SearchInit ==
    /\ searched \in Inputs
    /\ from \in Node
    /\ target \in Node
    /\ seen = {}
    /\ stack = <<from>>
    /\ answer = "none"

Top == stack[Len(stack)]
Popped == SubSeq(stack, 1, Len(stack) - 1)

(* The orders in which a range over the inner map may yield the successors. *)
Pushes(n) ==
    LET S == Successors(searched, n)
    IN  {s \in [1..Cardinality(S) -> S] : \A m \in S : \E i \in DOMAIN s : s[i] = m}

Found ==
    /\ Top = target
    /\ answer' = "yes"
    /\ stack' = Popped
    /\ UNCHANGED seen

AgainStays ==
    /\ Top # target
    /\ Top \in seen
    /\ UNCHANGED <<seen, stack, answer>>

Again ==
    /\ Top # target
    /\ Top \in seen
    /\ stack' = Popped
    /\ UNCHANGED <<seen, answer>>

VisitPushesOne ==
    /\ Top # target
    /\ Top \notin seen
    /\ seen' = seen \cup {Top}
    /\ \E s \in Pushes(Top) :
        stack' = Popped \o (IF s = <<>> THEN <<>> ELSE <<s[1]>>)
    /\ UNCHANGED answer

Visit ==
    /\ Top # target
    /\ Top \notin seen
    /\ seen' = seen \cup {Top}
    /\ \E s \in Pushes(Top) : stack' = Popped \o s
    /\ UNCHANGED answer

Pop ==
    /\ answer = "none"
    /\ stack # <<>>
    /\ Found \/ Again \/ Visit
    /\ UNCHANGED <<searched, from, target>>

Exhausted ==
    /\ answer = "none"
    /\ stack = <<>>
    /\ answer' = "no"
    /\ UNCHANGED <<searched, from, target, seen, stack>>

SearchNext == Pop \/ Exhausted

SearchSpec == SearchInit /\ [][SearchNext]_searchVars
SearchFairSpec == SearchSpec /\ WF_searchVars(SearchNext)

-----------------------------------------------------------------------------
SearchTypeOK ==
    /\ searched \in Graphs
    /\ {from, target} \subseteq Node
    /\ seen \subseteq Node
    /\ stack \in Seq(Node)
    /\ answer \in {"none", "yes", "no"}

(* The search answers yes exactly when a path leads from `from` to target. *)
AnswerIsRight ==
    /\ answer = "yes" => Reaches(searched, from, target)
    /\ answer = "no" => ~Reaches(searched, from, target)

(* What the search has marked or stacked, it can reach; what a marked node *)
(* leads to is marked or stacked; target is not marked.                    *)
SearchInvariant ==
    /\ SearchTypeOK
    /\ \A n \in seen \cup OnStack : Reaches(searched, from, n)
    /\ target \notin seen
    /\ answer = "none" =>
         /\ from \in seen \cup OnStack
         /\ \A m \in seen : \A n \in Successors(searched, m) : n \in seen \cup OnStack
    /\ AnswerIsRight

(* The search has answered.                                                *)
SearchEnded == answer # "none"
=============================================================================
