--------------------------- MODULE PriorityOrder ---------------------------
(***************************************************************************)
(* The loops of PrioritizedOrder (internal/scheduler/priority.go): the     *)
(* topological order, the level of each of its nodes, the nodes of each    *)
(* level, each level sorted by the strategy, and the levels joined.        *)
(***************************************************************************)
EXTENDS Priority

CONSTANT Plans    \* the calls made: a graph and a strategy

ASSUME PlansAssumption ==
    \A p \in Plans :
        p.graph \in Graphs /\ EndsPresent(p.graph) /\ p.strategy \in Strategies

VARIABLES
    plan,      \* the call
    listed,    \* what TopoSort returned
    level,     \* the map of computeLevels
    groups,    \* the nodes of each level
    joined,    \* the order that is returned
    turns,     \* the turns the loop has made
    stage      \* the loop, "ordered" or "cycle"

planVars == <<plan, listed, level, groups, joined, turns, stage>>

Stages == {"begin", "level", "group", "sort", "join", "ordered", "cycle"}

(* A level above all of those in S.                                        *)
Above(S) == Max({0} \cup {level[p] + 1 : p \in S})

TopLevel == Max({0} \cup {level[n] : n \in Nodes(plan.graph)})

Goes(from, to) == stage = from /\ stage' = to /\ turns' = 0

Turn(in, last) == stage = in /\ turns < last /\ turns' = turns + 1 /\ stage' = stage

-----------------------------------------------------------------------------
PlanInit ==
    /\ plan \in Plans
    /\ listed = <<>>
    /\ level = [n \in Node |-> 0]
    /\ groups = <<>>
    /\ joined = <<>>
    /\ turns = 0
    /\ stage = "begin"

(* What TopoSort does is in the module of that name: it fails exactly on a *)
(* graph with a cycle, of which no order lists all nodes.                  *)
RefuseCycle ==
    /\ Goes("begin", "cycle")
    /\ ~Acyclic(plan.graph)
    /\ UNCHANGED <<plan, listed, level, groups, joined>>

TakeOrder ==
    /\ Goes("begin", "level")
    /\ \E order \in TopoOrders(plan.graph) : listed' = order
    /\ UNCHANGED <<plan, level, groups, joined>>

LevelLow ==
    /\ Turn("level", Len(listed))
    /\ LET n == listed[turns + 1]
           S == Predecessors(plan.graph, n)
       IN  level' = [level EXCEPT ![n] =
                       IF S = {} THEN 0 ELSE Min({level[p] + 1 : p \in S})]
    /\ UNCHANGED <<plan, listed, groups, joined>>

(* A turn of the loop of computeLevels.                                    *)
Level ==
    /\ Turn("level", Len(listed))
    /\ LET n == listed[turns + 1]
       IN  level' = [level EXCEPT ![n] = Above(Predecessors(plan.graph, n))]
    /\ UNCHANGED <<plan, listed, groups, joined>>

MakeGroups ==
    /\ Goes("level", "group")
    /\ turns = Len(listed)
    /\ groups' = [d \in 0..TopLevel |-> <<>>]
    /\ UNCHANGED <<plan, listed, level, joined>>

Group ==
    /\ Turn("group", Len(listed))
    /\ LET n == listed[turns + 1]
       IN  groups' = [groups EXCEPT ![level[n]] = Append(@, n)]
    /\ UNCHANGED <<plan, listed, level, joined>>

BeginSort ==
    /\ Goes("group", "sort")
    /\ turns = Len(listed)
    /\ UNCHANGED <<plan, listed, level, groups, joined>>

(* The group in the order of the strategy: there is one such listing.      *)
Arranged(group) ==
    {s \in [DOMAIN group -> {group[i] : i \in DOMAIN group}] :
        /\ {s[i] : i \in DOMAIN s} = {group[i] : i \in DOMAIN group}
        /\ \A i, j \in DOMAIN s :
             i < j => s[i] # s[j] /\ ComesFirst(plan.graph, plan.strategy, s[i], s[j])}

SortGroup ==
    /\ Turn("sort", TopLevel + 1)
    /\ \E s \in Arranged(groups[turns]) : groups' = [groups EXCEPT ![turns] = s]
    /\ UNCHANGED <<plan, listed, level, joined>>

BeginJoin ==
    /\ Goes("sort", "join")
    /\ turns = TopLevel + 1
    /\ UNCHANGED <<plan, listed, level, groups, joined>>

JoinGroup ==
    /\ Turn("join", TopLevel + 1)
    /\ joined' = joined \o groups[turns]
    /\ UNCHANGED <<plan, listed, level, groups>>

Ordered ==
    /\ Goes("join", "ordered")
    /\ turns = TopLevel + 1
    /\ UNCHANGED <<plan, listed, level, groups, joined>>

PlanNext ==
    \/ RefuseCycle \/ TakeOrder \/ Level \/ MakeGroups \/ Group \/ BeginSort \/ SortGroup
    \/ BeginJoin \/ JoinGroup \/ Ordered

PlanSpec == PlanInit /\ [][PlanNext]_planVars

-----------------------------------------------------------------------------
(* Whatever the strategy, the order has every node once and every node     *)
(* after all those it depends on: it can be executed.  It goes level by    *)
(* level, a node being one level above the highest it depends on, and      *)
(* within a level the strategy decides.                                    *)
OrderIsExecutable ==
    stage = "ordered" =>
        /\ {joined[i] : i \in DOMAIN joined} = Nodes(plan.graph)
        /\ \A n \in Nodes(plan.graph) : level[n] = Above(Predecessors(plan.graph, n))
        /\ \A i, j \in DOMAIN joined :
             /\ joined[i] = joined[j] => i = j
             /\ HasEdge(plan.graph, joined[i], joined[j]) => i < j
             /\ i < j => \/ level[joined[i]] < level[joined[j]]
                         \/ /\ level[joined[i]] = level[joined[j]]
                            /\ ComesFirst(plan.graph, plan.strategy, joined[i], joined[j])

(* The call has returned, with an order or an error.                       *)
PlanEnded == stage \in {"ordered", "cycle"}
=============================================================================
