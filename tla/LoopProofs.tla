----------------------------- MODULE LoopProofs -----------------------------
(***************************************************************************)
(* The loops over a graph, for every finite set of nodes and every graph.  *)
(*                                                                         *)
(* The search of Graph.reaches decides reachability: SearchInvariant is    *)
(* inductive.  Its middle part, that what a marked node leads to is marked *)
(* or stacked, makes the marked nodes a closed set once the stack is       *)
(* empty, and a closed set without target is what `no` claims.             *)
(*                                                                         *)
(* The loop of TopoSort keeps SortInvariant, so that it returns the        *)
(* smallest-first topological order or reports a cycle, and the right one  *)
(* of the two.                                                             *)
(*                                                                         *)
(* The walks of the impact queries keep WalkInvariant: they mark only what *)
(* lies along a path, and what a marked node leads to is marked or still   *)
(* to be looked at by a call of dfs.  When the calls have returned, the    *)
(* marked nodes are closed, hence all there are.                           *)
(*                                                                         *)
(* The loops of PrioritizedOrder keep PlanInvariant: the levels of what    *)
(* the sort listed are those of its predecessors and one more, the groups  *)
(* hold what has been put on their levels, and what is joined ascends.     *)
(***************************************************************************)
EXTENDS ReachesSearch, TopoSort, Impact, PriorityOrder, LineageGraphProofs, SequenceTheorems

-----------------------------------------------------------------------------
(* The search.                                                             *)

(* A stack that is not empty is its top and what is below it.              *)
LEMMA PoppedFacts ==
    ASSUME stack \in Seq(Node), stack # <<>>
    PROVE  /\ Top \in Node /\ Top \in OnStack
           /\ Popped \in Seq(Node)
           /\ \A n : n \in OnStack <=>
                       n = Top \/ \E i \in DOMAIN Popped : n = Popped[i]
<1>1. Len(stack) \in 1..Len(stack) /\ DOMAIN stack = 1..Len(stack)
    OBVIOUS
<1>2. Top \in Node /\ Top \in OnStack
    BY <1>1 DEF Top, OnStack
<1>3. Popped \in Seq(Node) /\ Len(Popped) = Len(stack) - 1
    BY <1>1 DEF Popped
<1>4. \A i \in 1..(Len(stack) - 1) : Popped[i] = stack[i]
    BY <1>1 DEF Popped
<1>5. ASSUME NEW n
      PROVE  n \in OnStack <=> n = Top \/ \E i \in DOMAIN Popped : n = Popped[i]
    BY <1>1, <1>3, <1>4 DEF OnStack, Top
<1> QED
    BY <1>2, <1>3, <1>5

(* Pushes appends the successors, each at least once, and nothing else.    *)
LEMMA PushedFacts ==
    ASSUME NEW p \in Seq(Node), NEW k \in Node, NEW s \in Pushes(k)
    PROVE  /\ p \o s \in Seq(Node)
           /\ \A n : (\E i \in DOMAIN (p \o s) : n = (p \o s)[i]) <=>
                       n \in Successors(searched, k) \/ \E i \in DOMAIN p : n = p[i]
<1>1. s \in Seq(Node) /\ \A n : (\E i \in DOMAIN s : n = s[i]) <=> n \in Successors(searched, k)
    <2>1. Successors(searched, k) \subseteq Node
        BY DEF Successors
    <2>2. Cardinality(Successors(searched, k)) \in Nat
        BY <2>1, SearchNodeIsFinite, FS_Subset, FS_CardinalityType
    <2> QED
        BY <2>1, <2>2 DEF Pushes
<1>2. p \o s \in Seq(Node) /\ Len(p \o s) = Len(p) + Len(s)
    BY <1>1
<1>3. /\ \A i \in 1..Len(p) : (p \o s)[i] = p[i]
      /\ \A i \in 1..Len(s) : (p \o s)[Len(p) + i] = s[i]
    BY <1>1
<1>4. ASSUME NEW n
      PROVE  (\E i \in DOMAIN (p \o s) : n = (p \o s)[i]) <=>
                n \in Successors(searched, k) \/ \E i \in DOMAIN p : n = p[i]
    <2>1. ASSUME NEW i \in DOMAIN (p \o s), n = (p \o s)[i]
          PROVE  n \in Successors(searched, k) \/ \E j \in DOMAIN p : n = p[j]
        <3>1. CASE i <= Len(p)
            BY <1>2, <1>3, <2>1, <3>1
        <3>2. CASE i > Len(p)
            <4>1. i - Len(p) \in 1..Len(s) /\ (p \o s)[Len(p) + (i - Len(p))] = s[i - Len(p)]
                BY <1>1, <1>2, <1>3, <2>1, <3>2
            <4> QED
                BY <1>1, <2>1, <4>1
        <3> QED
            BY <1>2, <2>1, <3>1, <3>2
    <2>2. ASSUME n \in Successors(searched, k)
          PROVE  \E i \in DOMAIN (p \o s) : n = (p \o s)[i]
        <3>1. PICK j \in 1..Len(s) : n = s[j]
            BY <1>1, <2>2
        <3>2. Len(p) + j \in DOMAIN (p \o s) /\ (p \o s)[Len(p) + j] = n
            BY <1>1, <1>2, <1>3, <3>1
        <3> QED
            BY <3>2
    <2>3. ASSUME NEW j \in DOMAIN p, n = p[j]
          PROVE  \E i \in DOMAIN (p \o s) : n = (p \o s)[i]
        BY <1>1, <1>2, <1>3, <2>3
    <2> QED
        BY <2>1, <2>2, <2>3
<1> QED
    BY <1>2, <1>4

-----------------------------------------------------------------------------
LEMMA InitInvariant == SearchInit => SearchInvariant
<1> SUFFICES ASSUME SearchInit PROVE SearchInvariant
    OBVIOUS
<1>1. SearchTypeOK
    BY InputsAssumption DEF SearchInit, SearchTypeOK
<1>2. OnStack = {from}
    BY DEF SearchInit, OnStack
<1> QED
    BY <1>1, <1>2, ReachesReflexive DEF SearchInit, SearchInvariant, AnswerIsRight, SearchTypeOK

LEMMA StepInvariant == SearchInvariant /\ [SearchNext]_searchVars => SearchInvariant'
<1> SUFFICES ASSUME SearchInvariant, [SearchNext]_searchVars PROVE SearchInvariant'
    OBVIOUS
<1> USE DEF SearchInvariant, SearchTypeOK
<1>1. CASE UNCHANGED searchVars
    BY <1>1 DEF searchVars, OnStack, AnswerIsRight
<1>2. CASE Exhausted
    <2>1. OnStack = {}
        BY <1>2 DEF Exhausted, OnStack
    <2>2. from \in seen /\ \A m \in seen : \A n \in Successors(searched, m) : n \in seen
        BY <1>2, <2>1 DEF Exhausted
    <2>3. Closed(searched, seen)
        BY <2>2 DEF Closed, Successors
    <2>4. ~Reaches(searched, from, target)
        BY <2>2, <2>3, ClosedSeparates
    <2>5. UNCHANGED <<searched, from, target, seen, stack, OnStack>> /\ answer' = "no"
        BY <1>2 DEF Exhausted, OnStack
    <2> QED
        BY <2>4, <2>5 DEF AnswerIsRight
<1>3. CASE Pop
    <2>1. answer = "none" /\ stack # <<>> /\ UNCHANGED <<searched, from, target>>
        BY <1>3 DEF Pop
    <2>2. /\ Top \in Node /\ Top \in OnStack
          /\ Popped \in Seq(Node)
          /\ \A n : n \in OnStack <=> n = Top \/ \E i \in DOMAIN Popped : n = Popped[i]
        BY <2>1, PoppedFacts
    <2>3. CASE Found
        <3>1. stack' = Popped /\ answer' = "yes" /\ UNCHANGED seen /\ Top = target
            BY <2>3 DEF Found
        <3>2. OnStack' \subseteq OnStack
            BY <2>2, <3>1 DEF OnStack
        <3>3. Reaches(searched, from, target)
            BY <2>2, <3>1
        <3> QED
            BY <2>1, <2>2, <3>1, <3>2, <3>3 DEF AnswerIsRight
    <2>4. CASE Again
        <3>1. stack' = Popped /\ UNCHANGED <<seen, answer>> /\ Top \in seen
            BY <2>4 DEF Again
        <3>2. OnStack' \subseteq OnStack /\ OnStack \subseteq OnStack' \cup {Top}
            BY <2>2, <3>1 DEF OnStack
        <3> QED
            BY <2>1, <2>2, <3>1, <3>2 DEF AnswerIsRight
    <2>5. CASE Visit
        <3>1. /\ Top # target /\ seen' = seen \cup {Top} /\ UNCHANGED answer
              /\ \E s \in Pushes(Top) : stack' = Popped \o s
            BY <2>5 DEF Visit
        <3>2. PICK s \in Pushes(Top) : stack' = Popped \o s
            BY <3>1
        <3>3. /\ stack' \in Seq(Node)
              /\ \A n : n \in OnStack' <=>
                          n \in Successors(searched, Top) \/ \E i \in DOMAIN Popped : n = Popped[i]
            <4>1. /\ Popped \o s \in Seq(Node)
                  /\ \A n : (\E i \in DOMAIN (Popped \o s) : n = (Popped \o s)[i]) <=>
                        n \in Successors(searched, Top) \/ \E i \in DOMAIN Popped : n = Popped[i]
                BY <2>2, PushedFacts
            <4>2. OnStack' = {(Popped \o s)[i] : i \in DOMAIN (Popped \o s)}
                BY <3>2 DEF OnStack
            <4> QED
                BY <3>2, <4>1, <4>2
        <3>4. \A n \in Successors(searched, Top) : Reaches(searched, from, n)
            BY <2>2, ReachesStep DEF Successors
        <3>5. \A n \in (seen \cup OnStack)' : Reaches(searched, from, n)
            BY <2>2, <3>1, <3>3, <3>4
        <3>6. OnStack \cup seen \subseteq (OnStack \cup seen)'
            BY <2>2, <3>1, <3>3
        <3>7. \A m \in seen' : \A n \in Successors(searched, m) : n \in (seen \cup OnStack)'
            BY <2>1, <3>1, <3>3, <3>6
        <3> QED
            BY <2>1, <2>2, <3>1, <3>3, <3>5, <3>6, <3>7 DEF AnswerIsRight
    <2> QED
        BY <1>3, <2>3, <2>4, <2>5 DEF Pop
<1> QED
    BY <1>1, <1>2, <1>3 DEF SearchNext

(* The search never answers wrongly, and what it has marked and stacked    *)
(* stays in step with what it can reach, on every graph.                   *)
THEOREM SearchIsSound == SearchSpec => []SearchInvariant
BY InitInvariant, StepInvariant, PTL DEF SearchSpec

(* The cycle test of AddEdgeWithAttr answers yes exactly when there is a   *)
(* path.                                                                   *)
THEOREM SearchDecidesReachability == SearchSpec => []AnswerIsRight
<1>1. SearchInvariant => AnswerIsRight
    BY DEF SearchInvariant
<1> QED
    BY <1>1, SearchIsSound, PTL

-----------------------------------------------------------------------------
(* The sort.                                                               *)

(* The node TopoSort picks among those with count zero is one of them.     *)
LEMMA LeastIsMember ==
    ASSUME NEW T \in SUBSET Node, T # {}
    PROVE  Least(T) \in T
<1>1. \E n \in T : \A m \in T : n <= m
    BY LeastExists, NodeAssumption
<1> QED
    BY <1>1 DEF Least

(* Sets of predecessors are finite, and so are their parts.                *)
LEMMA PartsFinite ==
    ASSUME NEW S \in SUBSET Node
    PROVE  /\ IsFiniteSet(S)
           /\ Cardinality(S) \in Nat
           /\ Cardinality(S) = 0 <=> S = {}
<1>1. IsFiniteSet(S)
    BY NodeIsFinite, FS_Subset
<1> QED
    BY <1>1, FS_CardinalityType, FS_EmptySet

LEMMA PredecessorsType ==
    ASSUME NEW g, NEW n
    PROVE  Predecessors(g, n) \in SUBSET Node
BY DEF Predecessors

-----------------------------------------------------------------------------
(* A count of zero means that the node is ready.                           *)
LEMMA ZeroCountIsReady ==
    ASSUME SortInvariant
    PROVE  ZeroCount = Ready(graph, visited)
<1>1. ASSUME NEW n \in Node
      PROVE  indeg[n] = 0 <=> Predecessors(graph, n) \subseteq visited
    <2>1. indeg[n] = Cardinality(Predecessors(graph, n) \ visited)
        BY DEF SortInvariant
    <2>2. Predecessors(graph, n) \ visited \in SUBSET Node
        BY PredecessorsType
    <2> QED
        BY <2>1, <2>2, PartsFinite
<1>2. Nodes(graph) \subseteq Node
    BY DEF Nodes
<1> QED
    BY <1>1, <1>2 DEF ZeroCount, Ready

LEMMA SortInit == Init => SortInvariant
<1> SUFFICES ASSUME Init PROVE SortInvariant
    OBVIOUS
<1>1. graph \in Graphs /\ EndsPresent(graph)
    BY DEF Init
<1>2. \A n \in Node : Cardinality(Predecessors(graph, n)) \in Nat
    BY PredecessorsType, PartsFinite
<1>3. TypeOK
    BY <1>1, <1>2 DEF Init, TypeOK
<1>4. \A n \in Node : Predecessors(graph, n) \ {} = Predecessors(graph, n)
    OBVIOUS
<1>5. indeg = [n \in Node |-> Cardinality(Predecessors(graph, n) \ visited)]
    BY <1>4 DEF Init
<1>6. Cardinality(visited) = Len(order)
    BY FS_EmptySet DEF Init
<1>7. DOMAIN order = {}
    BY DEF Init
<1>8. outcome = "none" /\ visited = {}
    BY DEF Init
<1> QED
    BY <1>1, <1>3, <1>5, <1>6, <1>7, <1>8 DEF SortInvariant

(* Listing a node takes it out of the counts of its successors, and only    *)
(* of theirs.                                                              *)
LEMMA CountsFollow ==
    ASSUME SortInvariant, NEW n \in Nodes(graph) \ visited, NEW m \in Node
    PROVE  Cardinality(Predecessors(graph, m) \ (visited \cup {n})) =
             IF m \in Successors(graph, n) THEN indeg[m] - 1 ELSE indeg[m]
<1> DEFINE before == Predecessors(graph, m) \ visited
<1>1. before \in SUBSET Node
    BY PredecessorsType
<1>2. Predecessors(graph, m) \ (visited \cup {n}) = before \ {n}
    OBVIOUS
<1>3. n \in before <=> m \in Successors(graph, n)
    BY DEF Predecessors, Successors, Nodes
<1>4. indeg[m] = Cardinality(before)
    BY DEF SortInvariant
<1>5. IsFiniteSet(before)
    BY <1>1, PartsFinite
<1> HIDE DEF before
<1>6. Cardinality(before \ {n}) =
        IF n \in before THEN Cardinality(before) - 1 ELSE Cardinality(before)
    BY <1>5, FS_RemoveElement
<1> QED
    BY <1>2, <1>3, <1>4, <1>6

LEMMA SortList == SortInvariant /\ List => SortInvariant'
<1> SUFFICES ASSUME SortInvariant, List PROVE SortInvariant'
    OBVIOUS
<1> DEFINE n == Least(ZeroCount)
<1>1. ZeroCount \in SUBSET Node /\ ZeroCount # {}
    BY DEF List, ZeroCount, Nodes
<1>2. n \in ZeroCount
    BY <1>1, LeastIsMember
<1>3. n \in Node /\ n \in Nodes(graph) \ visited
    BY <1>1, <1>2 DEF ZeroCount
<1>4. n \in Ready(graph, visited) /\ n = Least(Ready(graph, visited))
    BY <1>2, ZeroCountIsReady
<1>5. /\ visited' = visited \cup {n}
      /\ order' = Append(order, n)
      /\ indeg' = [m \in Node |->
            IF m \in Successors(graph, n) THEN indeg[m] - 1 ELSE indeg[m]]
      /\ graph' = graph
      /\ outcome = "none" /\ outcome' = "none"
    BY DEF List
<1> HIDE DEF n
<1>6. order \in Seq(Node) /\ visited \in SUBSET Node /\ Len(order) \in Nat
    BY DEF SortInvariant, TypeOK
<1>7. /\ DOMAIN order = 1..Len(order)
      /\ order' \in Seq(Node)
      /\ Len(order') = Len(order) + 1
      /\ DOMAIN order' = 1..(Len(order) + 1)
      /\ \A k \in 1..Len(order) : order'[k] = order[k]
      /\ order'[Len(order) + 1] = n
    BY <1>3, <1>5, <1>6
<1>8. visited = {order[k] : k \in 1..Len(order)}
    BY <1>7 DEF SortInvariant
<1>9. visited' = {order'[k] : k \in DOMAIN order'}
    BY <1>5, <1>6, <1>7, <1>8
<1>10. indeg' = [m \in Node |-> Cardinality(Predecessors(graph, m) \ (visited \cup {n}))]
    BY <1>3, <1>5, CountsFollow
<1>11. indeg' \in [Node -> Nat]
    <2>1. \A m \in Node : Predecessors(graph, m) \ (visited \cup {n}) \in SUBSET Node
        BY PredecessorsType
    <2> QED
        BY <1>10, <2>1, PartsFinite
<1>12. TypeOK'
    BY <1>3, <1>5, <1>7, <1>11 DEF TypeOK, SortInvariant
<1>13. Cardinality(visited') = Len(order')
    <2>1. IsFiniteSet(visited)
        BY <1>6, PartsFinite
    <2>2. Cardinality(visited \cup {n}) = Cardinality(visited) + 1
        BY <1>3, <2>1, FS_AddElement
    <2> QED
        BY <1>5, <1>7, <2>2 DEF SortInvariant
<1>14. ASSUME NEW k \in DOMAIN order'
       PROVE  /\ order'[k] \in Ready(graph, Before(order', k))
              /\ order'[k] = Least(Ready(graph, Before(order', k)))
    <2>1. CASE k \in 1..Len(order)
        <3>1. Before(order', k) = Before(order, k)
            <4>1. \A i \in 1..(k - 1) : order'[i] = order[i]
                BY <1>6, <1>7, <2>1
            <4> QED
                BY <4>1 DEF Before
        <3> QED
            BY <1>7, <2>1, <3>1 DEF SortInvariant
    <2>2. CASE k = Len(order) + 1
        <3>1. (Len(order) + 1) - 1 = Len(order)
            BY <1>6
        <3>2. Before(order', k) = {order'[i] : i \in 1..Len(order)}
            BY <2>2, <3>1 DEF Before
        <3>3. Before(order', k) = visited
            BY <1>7, <1>8, <3>2
        <3> QED
            BY <1>4, <1>7, <2>2, <3>3
    <2> QED
        BY <1>6, <1>7, <2>1, <2>2
<1>15. visited' \subseteq Nodes(graph)
    BY <1>3, <1>5 DEF SortInvariant
<1> QED
    BY <1>5, <1>9, <1>10, <1>12, <1>13, <1>14, <1>15 DEF SortInvariant

(* When no count is zero, every node not listed has a predecessor that is   *)
(* not listed either.                                                      *)
LEMMA StuckMeansCycle ==
    ASSUME SortInvariant, Stuck
    PROVE  ~Acyclic(graph)
<1> DEFINE rest == Nodes(graph) \ visited
<1>1. rest \in SUBSET Node /\ rest # {}
    BY DEF Stuck, SortInvariant, Nodes
<1>2. Ready(graph, visited) = {}
    BY ZeroCountIsReady DEF Stuck
<1>3. ASSUME NEW n \in rest
      PROVE  \E m \in rest : HasEdge(graph, m, n)
    <2>1. PICK m \in Predecessors(graph, n) : m \notin visited
        BY <1>2 DEF Ready
    <2>2. m \in Node /\ n \in Node /\ HasEdge(graph, m, n)
        BY <1>1, <2>1 DEF Predecessors
    <2>3. m \in rest
        BY <2>1, <2>2 DEF SortInvariant, EndsPresent, Nodes
    <2> QED
        BY <2>2, <2>3
<1> HIDE DEF rest
<1> QED
    BY <1>1, <1>3 DEF Acyclic

LEMMA SortStep == SortInvariant /\ [Next]_vars => SortInvariant'
<1> SUFFICES ASSUME SortInvariant, [Next]_vars PROVE SortInvariant'
    OBVIOUS
<1>1. CASE List
    BY <1>1, SortList
<1>2. CASE Stuck
    <2>1. ~Acyclic(graph)
        BY <1>2, StuckMeansCycle
    <2>2. TypeOK'
        BY <1>2 DEF Stuck, SortInvariant, TypeOK
    <2> QED
        BY <1>2, <2>1, <2>2 DEF Stuck, SortInvariant
<1>3. CASE Sorted
    <2>1. TypeOK'
        BY <1>3 DEF Sorted, SortInvariant, TypeOK
    <2> QED
        BY <1>3, <2>1 DEF Sorted, SortInvariant
<1>4. CASE UNCHANGED vars
    BY <1>4 DEF vars, SortInvariant, TypeOK, EndsPresent
<1> QED
    BY <1>1, <1>2, <1>3, <1>4 DEF Next

-----------------------------------------------------------------------------
(* The counts are those of the predecessors not listed yet, and what is    *)
(* listed is a beginning of the topological order, for every graph.        *)
THEOREM SortIsSound == Spec => []SortInvariant
BY SortInit, SortStep, PTL DEF Spec

(* A complete order proves that there is no cycle: the member of a set     *)
(* that is listed first has no predecessor in the set.                     *)
LEMMA OrderedMeansAcyclic ==
    ASSUME SortInvariant, visited = Nodes(graph)
    PROVE  Acyclic(graph)
<1> SUFFICES ASSUME NEW S \in SUBSET Node, S # {}
             PROVE  \E n \in S : \A m \in S : ~HasEdge(graph, m, n)
    BY DEF Acyclic
<1> DEFINE at == {k \in DOMAIN order : order[k] \in S}
<1>1. order \in Seq(Node) /\ DOMAIN order = 1..Len(order) /\ Len(order) \in Nat
    BY DEF SortInvariant, TypeOK
<1>2. CASE at = {}
    <2>1. \A n \in S : n \notin visited
        BY <1>2 DEF SortInvariant
    <2>2. \A n \in S : ~HasNode(graph, n)
        BY <2>1 DEF Nodes
    <2> QED
        BY <2>2 DEF SortInvariant, EndsPresent
<1>3. CASE at # {}
    <2>1. at \in SUBSET Nat
        BY <1>1
    <2>2. PICK k \in at : \A i \in at : k <= i
        BY <1>3, <2>1, LeastExists
    <2>3. order[k] \in S /\ order[k] \in Node /\ k \in 1..Len(order)
        BY <1>1, <2>2
    <2>4. Predecessors(graph, order[k]) \subseteq Before(order, k)
        BY <2>2 DEF SortInvariant, Ready
    <2>5. ASSUME NEW m \in S, HasEdge(graph, m, order[k])
          PROVE  FALSE
        <3>1. m \in Before(order, k)
            BY <2>4, <2>5 DEF Predecessors
        <3>2. PICK i \in 1..(k - 1) : m = order[i]
            BY <3>1 DEF Before
        <3>3. i \in DOMAIN order /\ i < k
            BY <1>1, <2>3, <3>2
        <3>4. i \in at
            BY <2>5, <3>2, <3>3
        <3> QED
            BY <1>1, <2>2, <3>3, <3>4
    <2> QED
        BY <2>3, <2>5
<1> QED
    BY <1>2, <1>3

(* TopoSort reports a cycle exactly when the graph has one.                *)
THEOREM SortReportsCycles == Spec => []CycleIsReported
<1>1. SortInvariant => CycleIsReported
    BY OrderedMeansAcyclic DEF SortInvariant, CycleIsReported
<1> QED
    BY <1>1, SortIsSound, PTL

(* What it returns otherwise is the smallest-first topological order.      *)
THEOREM SortIsTopological == Spec => []OrderIsTopological
<1>1. SortInvariant => OrderIsTopological
    BY DEF SortInvariant, TypeOK, OrderIsTopological, IsTopoOrder
<1> QED
    BY <1>1, SortIsSound, PTL

-----------------------------------------------------------------------------
(* The walks of the impact queries.                                        *)

Frames == [node : Node, rest : SUBSET Node]

(* A path from c to n, or from n to c, the empty one included.             *)
Along(c, n) ==
    IF call.kind = "impact" THEN Reaches(call.graph, c, n) ELSE Reaches(call.graph, n, c)

(* The ids whose walks have been joined.                                   *)
Served == {call.ids[i] : i \in 1..(Len(call.ids) - Len(left))}

Due == IF call.kind = "impact"
       THEN {n \in Node : \E c \in Served : Linked(c, n)}
       ELSE {n \in Node : Served # {} /\ \A c \in Served : Linked(c, n)}

(* The walk from s marks only what lies along a path; and what a marked    *)
(* node, or s, leads to is marked or still to be looked at by a call of    *)
(* dfs for that node.                                                      *)
Walking(s) ==
    /\ \A n \in res : Along(s, n)
    /\ \A i \in DOMAIN frames :
        /\ frames[i].node \in res \cup {s}
        /\ frames[i].rest \subseteq Neighbours(frames[i].node)
    /\ \A n \in res \cup {s} : \A m \in Neighbours(n) :
        m \in res \/ \E i \in DOMAIN frames : frames[i].node = n /\ m \in frames[i].rest

WalkInvariant ==
    /\ call \in Calls
    /\ left \in Seq(Node) /\ Len(left) <= Len(call.ids)
    /\ \A i \in 1..Len(left) : left[i] = call.ids[Len(call.ids) - Len(left) + i]
    /\ frames \in Seq(Frames)
    /\ res \subseteq Node
    /\ pc \in {"next", "walk", "answered", "refused"}
    /\ Served \subseteq Nodes(call.graph)
    /\ pc # "answered" => found = Due
    /\ pc = "walk" => left # <<>> /\ HasNode(call.graph, Head(left)) /\ Walking(Head(left))
    /\ pc = "answered" => left = <<>> /\ found = Due \ (IF call.kind = "impact" THEN Asked ELSE {})
    /\ pc = "refused" => left # <<>> /\ ~HasNode(call.graph, Head(left))

LEMMA CallTypes ==
    ASSUME WalkInvariant
    PROVE  /\ call.kind \in {"impact", "common"} /\ call.graph \in Graphs
           /\ call.ids \in Seq(Node) /\ Len(call.ids) \in Nat /\ Len(left) \in Nat
           /\ DOMAIN call.ids = 1..Len(call.ids)
           /\ left # <<>> => Head(left) \in Node /\ Len(left) \in Nat \ {0}
           /\ left # <<>> => Head(left) = call.ids[Len(call.ids) - Len(left) + 1]
<1>1. call.kind \in {"impact", "common"} /\ call.graph \in Graphs /\ call.ids \in Seq(Node)
    BY CallsAssumption DEF WalkInvariant
<1>2. left \in Seq(Node)
    BY DEF WalkInvariant
<1>3. ASSUME left # <<>>
      PROVE  /\ Head(left) \in Node /\ Len(left) \in Nat \ {0}
             /\ Head(left) = call.ids[Len(call.ids) - Len(left) + 1]
    <2>1. Len(left) \in Nat \ {0} /\ Head(left) = left[1] /\ Head(left) \in Node
        BY <1>2, <1>3, EmptySeq, HeadTailProperties
    <2> QED
        BY <2>1 DEF WalkInvariant
<1> QED
    BY <1>1, <1>2, <1>3

LEMMA NeighbourFacts ==
    ASSUME WalkInvariant, NEW n \in Node
    PROVE  /\ Neighbours(n) \subseteq Node
           /\ \A s \in Node : \A m \in Neighbours(n) : Along(s, n) => Along(s, m)
           /\ Along(n, n)
<1>1. Neighbours(n) \subseteq Node /\ Along(n, n)
    BY ReachesReflexive DEF Neighbours, Successors, Predecessors, Along
<1>2. ASSUME NEW s \in Node, NEW m \in Neighbours(n), Along(s, n)
      PROVE  Along(s, m)
    <2>1. CASE call.kind = "impact"
        BY <1>1, <1>2, <2>1, ReachesStep DEF Neighbours, Successors, Along
    <2>2. CASE call.kind # "impact"
        <3>1. HasEdge(call.graph, m, n) /\ Reaches(call.graph, n, s) /\ m \in Node
            BY <1>2, <2>2 DEF Neighbours, Predecessors, Along
        <3>2. Reaches(call.graph, m, s)
            BY <3>1 DEF Reaches, Closed
        <3> QED
            BY <2>2, <3>2 DEF Along
    <2> QED
        BY <2>1, <2>2
<1> QED
    BY <1>1, <1>2

(* A walk that has ended has marked all it can reach: the marked nodes,    *)
(* with the start, are closed.                                             *)
LEMMA WalkEnds ==
    ASSUME WalkInvariant, pc = "walk", frames = <<>>
    PROVE  Walked = {n \in Node : Linked(Head(left), n)}
<1> DEFINE s == Head(left)
           R == res \cup {s}
<1>1. s \in Node /\ res \subseteq Node /\ Walking(s)
    BY CallTypes DEF WalkInvariant
<1>2. \A n \in R : Neighbours(n) \subseteq R
    <2>1. DOMAIN frames = {}
        OBVIOUS
    <2> QED
        BY <1>1, <2>1 DEF Walking
<1>3. \A n \in R : Along(s, n)
    BY <1>1, NeighbourFacts DEF Walking
<1>4. ASSUME NEW n \in Node, Along(s, n)
      PROVE  n \in R
    <2>1. CASE call.kind = "impact"
        <3>1. Closed(call.graph, R)
            BY <1>1, <1>2, <2>1 DEF Closed, Neighbours, Successors
        <3> QED
            BY <1>1, <1>4, <2>1, <3>1 DEF Along, Reaches
    <2>2. CASE call.kind # "impact"
        <3>1. Closed(call.graph, Node \ R)
            BY <1>1, <1>2, <2>2 DEF Closed, Neighbours, Predecessors
        <3> QED
            BY <1>1, <1>4, <2>2, <3>1 DEF Along, Reaches
    <2> QED
        BY <2>1, <2>2
<1> HIDE DEF s
<1>5. \A n \in Node : Linked(s, n) <=> n # s /\ Along(s, n)
    BY DEF Linked, Along
<1> QED
    BY <1>1, <1>3, <1>4, <1>5 DEF Walked, s

-----------------------------------------------------------------------------
(* What is due changes only when a walk is joined.                         *)
LEMMA DueStays ==
    ASSUME UNCHANGED <<call, left>>
    PROVE  Served' = Served /\ Due' = Due /\ Asked' = Asked
<1>1. Served' = Served /\ Asked' = Asked
    BY DEF Served, Asked
<1>2. \A c, n : Linked(c, n)' <=> Linked(c, n)
    BY DEF Linked
<1>3. Due' = IF call.kind = "impact"
             THEN {n \in Node : \E c \in Served : Linked(c, n)'}
             ELSE {n \in Node : Served # {} /\ \A c \in Served : Linked(c, n)'}
    BY <1>1 DEF Due
<1>4. Due' = Due
    BY <1>2, <1>3 DEF Due
<1> QED
    BY <1>1, <1>4

LEMMA WalkInvariantInit == WalkInit => WalkInvariant
<1> SUFFICES ASSUME WalkInit PROVE WalkInvariant
    OBVIOUS
<1>1. call \in Calls /\ call.ids \in Seq(Node) /\ left = call.ids
    BY CallsAssumption DEF WalkInit
<1>2. Len(left) \in Nat /\ \A i \in 1..(Len(call.ids) - Len(left)) : FALSE
    BY <1>1
<1>3. Served = {}
    BY <1>2 DEF Served
<1>4. found = Due
    BY <1>3 DEF Due, WalkInit
<1> QED
    BY <1>1, <1>2, <1>3, <1>4 DEF WalkInit, WalkInvariant

LEMMA BeginStep ==
    ASSUME WalkInvariant, Begin
    PROVE  WalkInvariant'
<1> DEFINE s == Head(left)
<1>1. /\ pc = "next" /\ pc' = "walk" /\ left # <<>> /\ HasNode(call.graph, s)
      /\ frames' = <<Frame(s)>> /\ res' = {} /\ UNCHANGED <<call, left, found>>
    BY DEF Begin
<1>2. s \in Node /\ Neighbours(s) \subseteq Node
    BY <1>1, CallTypes, NeighbourFacts
<1>3. Frame(s) \in Frames
    BY <1>2 DEF Frame, Frames
<1>4. frames' \in Seq(Frames) /\ DOMAIN frames' = {1} /\ frames'[1] = Frame(s)
    BY <1>1, <1>3
<1>5. Walking(s)'
    BY <1>1, <1>4 DEF Walking, Frame, Neighbours
<1> QED
    BY <1>1, <1>4, <1>5, DueStays DEF WalkInvariant

LEMMA MarkStep ==
    ASSUME WalkInvariant, Mark
    PROVE  WalkInvariant'
<1> DEFINE s == Head(left)
           k == Depth
           m == Least(frames[k].rest)
           turn == [frames EXCEPT ![k].rest = @ \ {m}]
<1>1. /\ pc = "walk" /\ frames # <<>> /\ frames[k].rest # {}
      /\ res' = res \cup {m}
      /\ frames' = IF m \in res THEN turn ELSE Append(turn, Frame(m))
      /\ UNCHANGED <<call, left, found, pc>>
    BY DEF Mark
<1>2. /\ frames \in Seq(Frames) /\ res \subseteq Node /\ s \in Node /\ Walking(s)
    BY <1>1, CallTypes DEF WalkInvariant
<1>3. k \in DOMAIN frames /\ k \in 1..Len(frames) /\ DOMAIN frames = 1..Len(frames)
    BY <1>1, <1>2, EmptySeq DEF Depth
<1>4. m \in Node /\ m \in frames[k].rest /\ frames[k] \in Frames
    <2>1. frames[k] \in Frames
        BY <1>2, <1>3
    <2>2. frames[k].rest \in SUBSET Node
        BY <2>1 DEF Frames
    <2>3. m \in frames[k].rest
        BY <1>1, <2>2, LeastIsMember
    <2> QED
        BY <2>1, <2>2, <2>3
<1>5. m \in Neighbours(frames[k].node) /\ frames[k].node \in res \cup {s}
    BY <1>2, <1>3, <1>4 DEF Walking
<1>6. Along(s, m)
    <2>1. frames[k].node \in Node /\ Along(s, frames[k].node)
        BY <1>2, <1>5, NeighbourFacts DEF Walking
    <2> QED
        BY <1>2, <1>5, <2>1, NeighbourFacts
<1> HIDE DEF m, k
<1>7. /\ turn \in Seq(Frames) /\ DOMAIN turn = DOMAIN frames /\ Len(turn) = Len(frames)
      /\ \A i \in DOMAIN frames : turn[i].node = frames[i].node
      /\ \A i \in DOMAIN frames : i # k => turn[i] = frames[i]
      /\ turn[k].rest = frames[k].rest \ {m}
    <2>1. turn = [frames EXCEPT ![k] = [frames[k] EXCEPT !.rest = frames[k].rest \ {m}]]
        BY <1>2, <1>3
    <2>2. [frames[k] EXCEPT !.rest = frames[k].rest \ {m}] \in Frames
        BY <1>4 DEF Frames
    <2>3. /\ [frames[k] EXCEPT !.rest = frames[k].rest \ {m}].node = frames[k].node
          /\ [frames[k] EXCEPT !.rest = frames[k].rest \ {m}].rest = frames[k].rest \ {m}
        BY <1>4 DEF Frames
    <2> QED
        BY <1>2, <1>3, <2>1, <2>2, <2>3, ExceptSeq
<1> HIDE DEF turn
<1>8. /\ frames' \in Seq(Frames)
      /\ DOMAIN frames \subseteq DOMAIN frames'
      /\ \A i \in DOMAIN frames : frames'[i] = turn[i]
      /\ \A i \in DOMAIN frames' : i \in DOMAIN frames \/ (m \notin res /\ frames'[i] = Frame(m))
      /\ m \notin res => \E i \in DOMAIN frames' : frames'[i] = Frame(m)
    <2>1. Frame(m) \in Frames
        BY <1>4, NeighbourFacts DEF Frame, Frames
    <2>2. CASE m \in res
        BY <1>1, <1>7, <2>2
    <2>3. CASE m \notin res
        <3>1. frames' = Append(turn, Frame(m))
            BY <1>1, <2>3
        <3>2. /\ frames' \in Seq(Frames) /\ Len(frames') = Len(frames) + 1
              /\ \A i \in 1..Len(frames) : frames'[i] = turn[i]
              /\ frames'[Len(frames) + 1] = Frame(m)
            BY <1>7, <2>1, <3>1, AppendProperties
        <3>3. DOMAIN frames' = 1..(Len(frames) + 1) /\ Len(frames) \in Nat
            BY <1>2, <3>2
        <3> QED
            BY <1>3, <2>3, <3>2, <3>3
    <2> QED
        BY <2>2, <2>3
<1>9. \A i \in DOMAIN frames : turn[i].rest \subseteq frames[i].rest
    BY <1>7
<1>10. \A n : Neighbours(n)' = Neighbours(n)
    BY <1>1 DEF Neighbours
<1>11. ASSUME NEW n \in res' PROVE Along(s, n)
    BY <1>1, <1>2, <1>6, <1>11 DEF Walking
<1>12. ASSUME NEW i \in DOMAIN frames'
       PROVE  /\ frames'[i].node \in res' \cup {s}
              /\ frames'[i].rest \subseteq Neighbours(frames'[i].node)
    <2>1. CASE i \in DOMAIN frames
        BY <1>1, <1>2, <1>7, <1>8, <1>9, <2>1 DEF Walking
    <2>2. CASE frames'[i] = Frame(m)
        BY <1>1, <2>2 DEF Frame
    <2> QED
        BY <1>8, <1>12, <2>1, <2>2
<1>13. ASSUME NEW n \in res' \cup {s}, NEW j \in Neighbours(n)
       PROVE  \/ j \in res'
              \/ \E i \in DOMAIN frames' : frames'[i].node = n /\ j \in frames'[i].rest
    <2>1. CASE n \in res \cup {s}
        <3>1. CASE j \in res \/ j = m
            BY <1>1, <3>1
        <3>2. CASE j \notin res /\ j # m
            <4>1. PICK i \in DOMAIN frames : frames[i].node = n /\ j \in frames[i].rest
                BY <1>2, <2>1, <3>2 DEF Walking
            <4>2. turn[i].node = n /\ j \in turn[i].rest
                BY <1>7, <3>2, <4>1
            <4> QED
                BY <1>8, <4>1, <4>2
        <3> QED
            BY <3>1, <3>2
    <2>2. CASE n \notin res \cup {s}
        <3>1. n = m /\ m \notin res
            BY <1>1, <1>13, <2>2
        <3>2. Frame(m).node = m /\ Frame(m).rest = Neighbours(m)
            BY DEF Frame
        <3> QED
            BY <1>8, <1>13, <3>1, <3>2
    <2> QED
        BY <2>1, <2>2
<1>14. Walking(s)'
    BY <1>1, <1>10, <1>11, <1>12, <1>13 DEF Walking, Along, s
<1>15. res' \subseteq Node
    BY <1>1, <1>2, <1>4
<1> QED
    BY <1>1, <1>8, <1>14, <1>15, DueStays DEF WalkInvariant, s

LEMMA ReturnStep ==
    ASSUME WalkInvariant, Return
    PROVE  WalkInvariant'
<1> DEFINE s == Head(left)
<1>1. /\ pc = "walk" /\ frames # <<>> /\ frames[Depth].rest = {}
      /\ frames' = SubSeq(frames, 1, Depth - 1)
      /\ UNCHANGED <<call, left, res, found, pc>>
    BY DEF Return
<1>2. frames \in Seq(Frames) /\ Walking(s)
    BY <1>1 DEF WalkInvariant
<1>3. Depth \in Nat \ {0} /\ Depth = Len(frames) /\ DOMAIN frames = 1..Depth
    BY <1>1, <1>2, EmptySeq DEF Depth
<1>4. /\ frames' \in Seq(Frames) /\ DOMAIN frames' = 1..(Depth - 1)
      /\ \A i \in 1..(Depth - 1) : frames'[i] = frames[i]
    <2>1. Len(frames') = Depth - 1
        BY <1>1, <1>2, <1>3
    <2> QED
        BY <1>1, <1>2, <1>3, <2>1
<1>5. \A i \in DOMAIN frames : frames[i].rest # {} => i \in DOMAIN frames'
    BY <1>1, <1>3, <1>4
<1>6. DOMAIN frames' \subseteq DOMAIN frames
    BY <1>3, <1>4
<1>7. \A n : Neighbours(n)' = Neighbours(n)
    BY <1>1 DEF Neighbours
<1>8. ASSUME NEW n \in res' PROVE Along(s, n)
    BY <1>1, <1>2, <1>8 DEF Walking
<1>9. ASSUME NEW i \in DOMAIN frames'
      PROVE  /\ frames'[i].node \in res' \cup {s}
             /\ frames'[i].rest \subseteq Neighbours(frames'[i].node)
    BY <1>1, <1>2, <1>4, <1>6, <1>9 DEF Walking
<1>10. ASSUME NEW n \in res' \cup {s}, NEW m \in Neighbours(n)
       PROVE  \/ m \in res'
              \/ \E i \in DOMAIN frames' : frames'[i].node = n /\ m \in frames'[i].rest
    <2>1. CASE m \in res
        BY <1>1, <2>1
    <2>2. CASE m \notin res
        <3>1. PICK i \in DOMAIN frames : frames[i].node = n /\ m \in frames[i].rest
            BY <1>1, <1>2, <1>10, <2>2 DEF Walking
        <3>2. i \in DOMAIN frames' /\ frames'[i] = frames[i]
            BY <1>4, <1>5, <3>1
        <3> QED
            BY <3>1, <3>2
    <2> QED
        BY <2>1, <2>2
<1>11. Walking(s)'
    <2>1. UNCHANGED <<call, left, res>>
        BY <1>1
    <2> QED
        BY <2>1, <1>7, <1>8, <1>9, <1>10 DEF Walking, Along, s
<1> QED
    BY <1>1, <1>4, <1>11, DueStays DEF WalkInvariant

LEMMA JoinStep ==
    ASSUME WalkInvariant, Join
    PROVE  WalkInvariant'
<1> DEFINE s == Head(left)
           D == Len(call.ids) - Len(left)
<1>1. /\ pc = "walk" /\ pc' = "next" /\ frames = <<>> /\ left # <<>>
      /\ found' = IF call.kind = "impact" THEN found \cup Walked
                  ELSE IF left = call.ids THEN Walked ELSE found \cap Walked
      /\ left' = Tail(left) /\ UNCHANGED <<call, frames, res>>
      /\ HasNode(call.graph, s) /\ found = Due
    BY DEF Join, WalkInvariant
<1>2. /\ call.ids \in Seq(Node) /\ left \in Seq(Node) /\ Len(call.ids) \in Nat
      /\ Len(left) \in Nat \ {0} /\ Len(left) <= Len(call.ids) /\ s \in Node
      /\ s = call.ids[D + 1]
    BY <1>1, CallTypes DEF WalkInvariant
<1>3. /\ left' \in Seq(Node) /\ Len(left') = Len(left) - 1
      /\ \A i \in 1..Len(left') : left'[i] = left[i + 1]
    BY <1>1, <1>2, HeadTailProperties
<1>4. D \in Nat /\ Len(call'.ids) - Len(left') = D + 1
    BY <1>1, <1>2, <1>3
<1>5. Served' = Served \cup {s}
    <2>1. 1..(D + 1) = 1..D \cup {D + 1}
        BY <1>4
    <2>2. Served' = {call.ids[i] : i \in 1..(D + 1)}
        BY <1>1, <1>4 DEF Served
    <2> QED
        BY <1>2, <2>1, <2>2 DEF Served
<1>6. \A i \in 1..Len(left') : left'[i] = call.ids[Len(call.ids) - Len(left') + i]
    <2> SUFFICES ASSUME NEW i \in 1..Len(left')
                 PROVE  left'[i] = call.ids[Len(call.ids) - Len(left') + i]
        OBVIOUS
    <2>1. i + 1 \in 1..Len(left) /\ left'[i] = left[i + 1]
        BY <1>2, <1>3
    <2>2. left[i + 1] = call.ids[Len(call.ids) - Len(left) + (i + 1)]
        BY <2>1 DEF WalkInvariant
    <2>3. \A a, b, c \in Int : a - b + (c + 1) = a - (b - 1) + c
        OBVIOUS
    <2>4. Len(call.ids) - Len(left) + (i + 1) = Len(call.ids) - (Len(left) - 1) + i
        <3>1. Len(call.ids) \in Int /\ Len(left) \in Int
            BY <1>2
        <3>2. i \in Int
            BY <2>1
        <3> QED
            BY <2>3, <3>1, <3>2, Zenon
    <2>5. Len(left') = Len(left) - 1
        BY <1>3
    <2> QED
        BY <2>1, <2>2, <2>4, <2>5, Zenon
<1>7. left = call.ids <=> Served = {}
    <2>1. ASSUME left = call.ids PROVE Served = {}
        <3>1. 1..D = {}
            BY <1>2, <2>1
        <3> QED
            BY <3>1 DEF Served
    <2>2. ASSUME Served = {} PROVE left = call.ids
        <3>1. ~(1 \in 1..D)
            BY <2>2 DEF Served
        <3>2. Len(left) = Len(call.ids)
            BY <1>2, <1>4, <3>1
        <3>3. \A i \in 1..Len(left) : left[i] = call.ids[i]
            BY <1>2, <3>2 DEF WalkInvariant
        <3> QED
            BY <1>2, <3>2, <3>3, SeqEqual
    <2> QED
        BY <2>1, <2>2
<1>8. Walked = {n \in Node : Linked(s, n)}
    BY <1>1, WalkEnds
<1>9. \A c, n : Linked(c, n)' <=> Linked(c, n)
    BY <1>1 DEF Linked
<1> HIDE DEF s
<1>10. found' = Due'
    <2>1. Due' = IF call.kind = "impact"
                 THEN {n \in Node : \E c \in Served' : Linked(c, n)}
                 ELSE {n \in Node : Served' # {} /\ \A c \in Served' : Linked(c, n)}
        BY <1>1 DEF Due, Linked
    <2>2. CASE call.kind = "impact"
        BY <1>1, <1>5, <1>8, <2>1, <2>2 DEF Due
    <2>3. CASE call.kind # "impact"
        BY <1>1, <1>5, <1>7, <1>8, <2>1, <2>3 DEF Due
    <2> QED
        BY <2>2, <2>3
<1>11. Served' \subseteq Nodes(call'.graph)
    BY <1>1, <1>2, <1>5 DEF WalkInvariant, Nodes, s
<1>12. Len(left') <= Len(call'.ids)
    BY <1>1, <1>2, <1>3
<1> QED
    BY <1>1, <1>3, <1>6, <1>10, <1>11, <1>12 DEF WalkInvariant

LEMMA WalkStep == WalkInvariant /\ [WalkNext]_walkVars => WalkInvariant'
<1> SUFFICES ASSUME WalkInvariant, [WalkNext]_walkVars PROVE WalkInvariant'
    OBVIOUS
<1>1. CASE UNCHANGED walkVars
    BY <1>1, DueStays DEF walkVars, WalkInvariant, Walking, Along, Neighbours
<1>2. CASE Refuse
    BY <1>2, DueStays DEF Refuse, WalkInvariant
<1>3. CASE Reply
    BY <1>3, DueStays DEF Reply, WalkInvariant
<1> QED
    BY <1>1, <1>2, <1>3, BeginStep, MarkStep, ReturnStep, JoinStep DEF WalkNext

(* On every graph and for every list of ids, repeated ones and cycles      *)
(* included, Upstream, Downstream, BatchImpact and CommonAncestors answer  *)
(* with exactly the nodes on a path, and refuse only unknown ids.          *)
THEOREM WalksAreReachability == WalkSpec => []ImpactIsReachability
<1>1. WalkInvariant => ImpactIsReachability
    <2> SUFFICES ASSUME WalkInvariant PROVE ImpactIsReachability
        OBVIOUS
    <2>1. ASSUME pc = "answered"
          PROVE  /\ Asked = Served /\ Asked \subseteq Nodes(call.graph)
        <3>1. Len(left) = 0 /\ DOMAIN call.ids = 1..Len(call.ids) /\ Len(call.ids) \in Nat
            BY <2>1, CallTypes DEF WalkInvariant
        <3>2. Len(call.ids) - Len(left) = Len(call.ids)
            BY <3>1
        <3> QED
            BY <3>1, <3>2 DEF WalkInvariant, Asked, Served
    <2>2. ASSUME pc = "refused"
          PROVE  ~(Asked \subseteq Nodes(call.graph))
        <3>1. /\ left # <<>> /\ ~HasNode(call.graph, Head(left))
              /\ Len(left) <= Len(call.ids)
            BY <2>2 DEF WalkInvariant
        <3>2. Len(call.ids) - Len(left) + 1 \in DOMAIN call.ids
            BY <3>1, CallTypes
        <3>3. Head(left) \in Asked
            BY <3>1, <3>2, CallTypes DEF Asked
        <3> QED
            BY <3>1, <3>3 DEF Nodes
    <2>3. ASSUME pc = "answered"
          PROVE  found = Due \ (IF call.kind = "impact" THEN Asked ELSE {})
        BY <2>3 DEF WalkInvariant
    <2> QED
        BY <2>1, <2>2, <2>3 DEF ImpactIsReachability, Due
<1> QED
    BY <1>1, WalkInvariantInit, WalkStep, PTL DEF WalkSpec

-----------------------------------------------------------------------------
(* The loops of the priority order.                                        *)

(* A set of numbers below a bound has a greatest member.                   *)
LEMMA MaxIsGreatest ==
    ASSUME NEW S \in SUBSET Nat, S # {}, NEW b \in Nat, \A k \in S : k <= b
    PROVE  Max(S) \in S /\ \A k \in S : k <= Max(S)
<1> DEFINE T == {t \in Nat : \A k \in S : k <= t}
<1>1. PICK t \in T : \A u \in T : t <= u
    <2>1. T \in SUBSET Nat /\ b \in T
        OBVIOUS
    <2> HIDE DEF T
    <2> QED
        BY <2>1, LeastExists
<1>2. t \in Nat /\ \A k \in S : k <= t
    OBVIOUS
<1>3. t \in S
    <2> SUFFICES ASSUME t \notin S PROVE FALSE
        OBVIOUS
    <2>1. \A k \in S : k < t
        BY <1>2
    <2>2. t - 1 \in Nat /\ \A k \in S : k <= t - 1
        <3>1. PICK k \in S : k < t /\ k \in Nat
            BY <2>1
        <3>2. \A i \in Nat : i < t => i <= t - 1
            BY <1>2
        <3>3. t - 1 \in Nat
            BY <1>2, <3>1
        <3> QED
            BY <2>1, <3>2, <3>3
    <2>3. t - 1 \in T
        BY <2>2
    <2> QED
        BY <1>1, <1>2, <2>3
<1>4. \E x \in S : \A y \in S : x >= y
    BY <1>2, <1>3
<1>5. Max(S) \in S /\ \A y \in S : Max(S) >= y
    BY <1>4 DEF Max
<1> QED
    BY <1>5

(* A topological order lists the nodes of its graph, each once and after   *)
(* its predecessors.                                                       *)
ListsForward(g, s) ==
    /\ s \in Seq(Node)
    /\ \A k \in 1..Len(s) :
        /\ s[k] \in Nodes(g)
        /\ \A m \in Predecessors(g, s[k]) : \E i \in 1..(k - 1) : s[i] = m
    /\ \A i, k \in 1..Len(s) : s[i] = s[k] => i = k
    /\ \A n \in Nodes(g) : \E k \in 1..Len(s) : s[k] = n

LEMMA TopoOrderListsForward ==
    ASSUME NEW g, NEW s \in TopoOrders(g)
    PROVE  ListsForward(g, s)
<1> DEFINE c == Cardinality(Nodes(g))
<1>1. Nodes(g) \in SUBSET Node
    BY DEF Nodes
<1>2. IsFiniteSet(Nodes(g)) /\ c \in Nat
    BY <1>1, PartsFinite
<1>3. /\ s \in [1..c -> Nodes(g)] /\ IsTopoOrder(g, s)
      /\ \A i, k \in 1..c : s[i] = s[k] => i = k
    BY DEF TopoOrders
<1> HIDE DEF c
<1>4. s \in Seq(Node) /\ Len(s) = c /\ DOMAIN s = 1..c
    BY <1>1, <1>2, <1>3
<1>5. ASSUME NEW k \in 1..c
      PROVE  /\ s[k] \in Nodes(g)
             /\ \A m \in Predecessors(g, s[k]) : \E i \in 1..(k - 1) : s[i] = m
    <2>1. s[k] \in Nodes(g) /\ Predecessors(g, s[k]) \subseteq Before(s, k)
        BY <1>3, <1>4 DEF IsTopoOrder, Ready
    <2> QED
        BY <2>1 DEF Before
<1>6. s \in Injection(1..c, Nodes(g))
    BY <1>3 DEF Injection, IsInjective
<1>7. Cardinality(1..c) = c
    BY <1>2, FS_Interval
<1>8. s \in Surjection(1..c, Nodes(g))
    BY <1>2, <1>6, <1>7, FS_Injection DEF c
<1> QED
    BY <1>3, <1>4, <1>5, <1>8 DEF ListsForward, Surjection

(* A list of the members of a set, each once.                              *)
Once(s, S) ==
    /\ s \in Seq(Node)
    /\ {s[i] : i \in DOMAIN s} = S
    /\ \A i, j \in DOMAIN s : s[i] = s[j] => i = j

(* The first k nodes listed have their levels, each below its place.       *)
Leveled(k) ==
    \A i \in 1..k :
        /\ level[listed[i]] = Above(Predecessors(plan.graph, listed[i]))
        /\ level[listed[i]] < i

Placed(k) == {listed[i] : i \in 1..k}

OnLevel(S, d) == {n \in S : level[n] = d}

GroupsHold(S) == \A d \in 0..TopLevel : Once(groups[d], OnLevel(S, d))

(* By level, and within a level as the strategy has it.                    *)
Precedes(m, n) ==
    \/ level[m] < level[n]
    \/ level[m] = level[n] /\ ComesFirst(plan.graph, plan.strategy, m, n)

Ascends(s) == \A i, j \in DOMAIN s : i < j => Precedes(s[i], s[j])

PlanInvariant ==
    /\ plan \in Plans
    /\ stage \in Stages
    /\ turns \in Nat
    /\ level \in [Node -> Nat]
    /\ stage \notin {"begin", "cycle"} => ListsForward(plan.graph, listed)
    /\ stage = "level" => turns <= Len(listed) /\ Leveled(turns)
    /\ stage \in {"group", "sort", "join", "ordered"} => Leveled(Len(listed))
    /\ stage \in {"group", "sort", "join"} => groups \in [0..TopLevel -> Seq(Node)]
    /\ stage = "group" => turns <= Len(listed) /\ GroupsHold(Placed(turns))
    /\ stage \in {"sort", "join"} =>
        turns <= TopLevel + 1 /\ GroupsHold(Nodes(plan.graph))
    /\ stage = "sort" => \A d \in 0..TopLevel : d < turns => Ascends(groups[d])
    /\ stage = "join" => \A d \in 0..TopLevel : Ascends(groups[d])
    /\ stage \notin {"join", "ordered"} => joined = <<>>
    /\ stage = "join" =>
        Once(joined, {n \in Nodes(plan.graph) : level[n] < turns}) /\ Ascends(joined)
    /\ stage = "ordered" => Once(joined, Nodes(plan.graph)) /\ Ascends(joined)

LEMMA AboveFacts ==
    ASSUME level \in [Node -> Nat], NEW S \in SUBSET Node, NEW b \in Nat,
           \A p \in S : level[p] < b
    PROVE  Above(S) \in Nat /\ Above(S) <= b /\ \A p \in S : level[p] < Above(S)
<1> DEFINE T == {0} \cup {level[p] + 1 : p \in S}
<1>1. T \in SUBSET Nat /\ T # {} /\ \A k \in T : k <= b
    <2>1. \A p \in S : level[p] \in Nat /\ level[p] + 1 \in Nat /\ level[p] + 1 <= b
        OBVIOUS
    <2> QED
        BY <2>1
<1>2. \A p \in S : level[p] \in Nat /\ level[p] + 1 \in T
    OBVIOUS
<1>3. Above(S) = Max(T)
    BY DEF Above
<1> HIDE DEF T
<1>4. Max(T) \in T /\ \A k \in T : k <= Max(T)
    BY <1>1, MaxIsGreatest
<1>5. Max(T) \in Nat /\ Max(T) <= b
    BY <1>1, <1>4
<1>6. \A p \in S : level[p] < Max(T)
    BY <1>2, <1>4, <1>5
<1> QED
    BY <1>3, <1>5, <1>6

(* With the levels of all nodes computed, the highest is a bound, and every *)
(* edge leads to a higher level.                                           *)
LEMMA LeveledFacts ==
    ASSUME level \in [Node -> Nat], ListsForward(plan.graph, listed), Leveled(Len(listed))
    PROVE  /\ TopLevel \in Nat
           /\ \A n \in Nodes(plan.graph) :
                /\ level[n] <= TopLevel
                /\ level[n] = Above(Predecessors(plan.graph, n))
                /\ \A m \in Predecessors(plan.graph, n) : level[m] < level[n]
<1> DEFINE b == Len(listed)
<1>1. b \in Nat /\ Nodes(plan.graph) \subseteq Node
    BY DEF ListsForward, Nodes
<1>2. ASSUME NEW n \in Nodes(plan.graph)
      PROVE  /\ level[n] \in Nat /\ level[n] < b
             /\ level[n] = Above(Predecessors(plan.graph, n))
    <2>1. PICK i \in 1..b : listed[i] = n
        BY DEF ListsForward
    <2>2. level[n] = Above(Predecessors(plan.graph, n)) /\ level[n] < i
        BY <2>1 DEF Leveled
    <2> QED
        BY <1>1, <2>1, <2>2
<1>3. ASSUME NEW n \in Nodes(plan.graph)
      PROVE  \A m \in Predecessors(plan.graph, n) : level[m] < level[n]
    <2>1. PICK k \in 1..b : listed[k] = n
        BY DEF ListsForward
    <2>2. ASSUME NEW m \in Predecessors(plan.graph, n) PROVE level[m] < b
        <3>1. PICK i \in 1..(k - 1) : listed[i] = m
            BY <2>1 DEF ListsForward
        <3>2. i \in 1..b
            BY <1>1, <2>1, <3>1
        <3>3. m \in Nodes(plan.graph)
            BY <3>1, <3>2 DEF ListsForward
        <3> QED
            BY <1>2, <3>3
    <2>3. Predecessors(plan.graph, n) \in SUBSET Node
        BY DEF Predecessors
    <2>4. \A m \in Predecessors(plan.graph, n) :
            level[m] < Above(Predecessors(plan.graph, n))
        BY <1>1, <2>2, <2>3, AboveFacts
    <2> QED
        BY <1>2, <2>4
<1> DEFINE T == {0} \cup {level[n] : n \in Nodes(plan.graph)}
<1>4. T \in SUBSET Nat /\ T # {} /\ \A k \in T : k <= b
    <2>1. \A n \in Nodes(plan.graph) : level[n] \in Nat /\ level[n] <= b
        BY <1>1, <1>2
    <2> QED
        BY <1>1, <2>1
<1>5. \A n \in Nodes(plan.graph) : level[n] \in T
    OBVIOUS
<1>6. TopLevel = Max(T)
    BY DEF TopLevel
<1> HIDE DEF T, b
<1>7. Max(T) \in T /\ \A k \in T : k <= Max(T)
    BY <1>1, <1>4, MaxIsGreatest
<1> QED
    BY <1>2, <1>3, <1>4, <1>5, <1>6, <1>7

(* A list is prolonged by a list of other nodes.                           *)
LEMMA OnceConcat ==
    ASSUME NEW S, NEW T, NEW s, NEW t, Once(s, S), Once(t, T), S \cap T = {}
    PROVE  Once(s \o t, S \cup T)
<1> DEFINE u == s \o t
<1>1. s \in Seq(Node) /\ t \in Seq(Node)
    BY DEF Once
<1>2. u \in Seq(Node) /\ Len(u) = Len(s) + Len(t) /\ Len(s) \in Nat /\ Len(t) \in Nat
    BY <1>1
<1>3. /\ \A i \in 1..Len(s) : u[i] = s[i] /\ s[i] \in S
      /\ \A i \in 1..Len(u) : i > Len(s) =>
            i - Len(s) \in 1..Len(t) /\ u[i] = t[i - Len(s)] /\ u[i] \in T
    <2>1. \A i \in 1..Len(s) : u[i] = s[i] /\ s[i] \in S
        BY <1>1 DEF Once
    <2>2. ASSUME NEW i \in 1..Len(u), i > Len(s)
          PROVE  i - Len(s) \in 1..Len(t) /\ u[i] = t[i - Len(s)] /\ u[i] \in T
        <3>1. i - Len(s) \in 1..Len(t) /\ u[i] = t[i - Len(s)]
            BY <1>1, <1>2, <2>2
        <3> QED
            BY <1>1, <3>1 DEF Once
    <2> QED
        BY <2>1, <2>2
<1>4. \A i \in 1..Len(t) : Len(s) + i \in 1..Len(u) /\ u[Len(s) + i] = t[i]
    BY <1>1, <1>2
<1> HIDE DEF u
<1>5. {u[i] : i \in DOMAIN u} = S \cup T
    <2>1. \A i \in 1..Len(u) : u[i] \in S \cup T
        BY <1>2, <1>3
    <2>2. ASSUME NEW x \in S PROVE \E i \in 1..Len(u) : u[i] = x
        <3>1. PICK i \in 1..Len(s) : s[i] = x
            BY <1>1 DEF Once
        <3>2. i \in 1..Len(u) /\ u[i] = x
            BY <1>2, <1>3, <3>1
        <3> QED
            BY <3>2
    <2>3. ASSUME NEW x \in T PROVE \E i \in 1..Len(u) : u[i] = x
        <3>1. PICK i \in 1..Len(t) : t[i] = x
            BY <1>1 DEF Once
        <3> QED
            BY <1>4, <3>1
    <2>4. DOMAIN u = 1..Len(u)
        BY <1>2
    <2> QED
        BY <2>1, <2>2, <2>3, <2>4
<1>6. ASSUME NEW i \in 1..Len(u), NEW j \in 1..Len(u), u[i] = u[j] PROVE i = j
    <2>1. CASE i <= Len(s) /\ j <= Len(s)
        <3>1. i \in 1..Len(s) /\ j \in 1..Len(s)
            BY <1>2, <2>1
        <3> QED
            BY <1>1, <1>3, <1>6, <3>1 DEF Once
    <2>2. CASE i > Len(s) /\ j > Len(s)
        <3>1. /\ i - Len(s) \in DOMAIN t /\ j - Len(s) \in DOMAIN t
              /\ t[i - Len(s)] = t[j - Len(s)]
            BY <1>1, <1>3, <1>6, <2>2
        <3>2. i - Len(s) = j - Len(s)
            BY <3>1 DEF Once
        <3> QED
            BY <1>2, <3>2
    <2>3. CASE i <= Len(s) /\ j > Len(s)
        <3>1. u[i] \in S /\ u[j] \in T
            BY <1>2, <1>3, <2>3
        <3> QED
            BY <1>6, <3>1
    <2>4. CASE i > Len(s) /\ j <= Len(s)
        <3>1. u[i] \in T /\ u[j] \in S
            BY <1>2, <1>3, <2>4
        <3> QED
            BY <1>6, <3>1
    <2> QED
        BY <1>2, <2>1, <2>2, <2>3, <2>4
<1>7. u \in Seq(Node) /\ DOMAIN u = 1..Len(u)
    BY <1>2
<1>8. Once(u, S \cup T)
    BY <1>5, <1>6, <1>7 DEF Once
<1> QED
    BY <1>8 DEF u

LEMMA AscendsConcat ==
    ASSUME NEW s \in Seq(Node), NEW t \in Seq(Node), Ascends(s), Ascends(t),
           \A i \in DOMAIN s, j \in DOMAIN t : Precedes(s[i], t[j])
    PROVE  Ascends(s \o t)
<1> DEFINE u == s \o t
<1>1. Len(u) = Len(s) + Len(t) /\ Len(s) \in Nat /\ Len(t) \in Nat /\ DOMAIN u = 1..Len(u)
    OBVIOUS
<1>2. /\ \A i \in 1..Len(s) : u[i] = s[i]
      /\ \A i \in 1..Len(u) : i > Len(s) => i - Len(s) \in 1..Len(t) /\ u[i] = t[i - Len(s)]
    OBVIOUS
<1> HIDE DEF u
<1>3. ASSUME NEW i \in 1..Len(u), NEW j \in 1..Len(u), i < j
      PROVE  Precedes(u[i], u[j])
    <2>1. CASE j <= Len(s)
        <3>1. i \in DOMAIN s /\ j \in DOMAIN s /\ u[i] = s[i] /\ u[j] = s[j]
            BY <1>1, <1>2, <1>3, <2>1
        <3> QED
            BY <1>3, <3>1 DEF Ascends
    <2>2. CASE i <= Len(s) /\ j > Len(s)
        <3>1. /\ i \in DOMAIN s /\ j - Len(s) \in DOMAIN t
              /\ u[i] = s[i] /\ u[j] = t[j - Len(s)]
            BY <1>1, <1>2, <2>2
        <3> QED
            BY <3>1
    <2>3. CASE i > Len(s)
        <3>1. /\ i - Len(s) \in DOMAIN t /\ j - Len(s) \in DOMAIN t
              /\ u[i] = t[i - Len(s)] /\ u[j] = t[j - Len(s)] /\ i - Len(s) < j - Len(s)
            BY <1>1, <1>2, <1>3, <2>3
        <3> QED
            BY <3>1 DEF Ascends
    <2> QED
        BY <1>1, <2>1, <2>2, <2>3
<1>4. Ascends(u)
    BY <1>1, <1>3 DEF Ascends
<1> QED
    BY <1>4 DEF u

LEMMA SameLevels ==
    ASSUME UNCHANGED <<plan, listed, level>>
    PROVE  /\ TopLevel' = TopLevel
           /\ \A k : Leveled(k)' <=> Leveled(k)
           /\ \A s : Ascends(s)' <=> Ascends(s)
           /\ \A S, d : OnLevel(S, d)' = OnLevel(S, d)
           /\ \A k : Placed(k)' = Placed(k)
BY DEF TopLevel, Leveled, Above, Ascends, Precedes, OnLevel, Placed

LEMMA PlanInvariantInit == PlanInit => PlanInvariant
BY DEF PlanInit, PlanInvariant, Stages

(* A turn of computeLevels: the predecessors of the node have been listed  *)
(* before it, so they have their levels, and these are below its place;    *)
(* the node is itself no predecessor of those before it.                   *)
LEMMA LevelStep ==
    ASSUME PlanInvariant, Level
    PROVE  PlanInvariant'
<1> DEFINE k == turns + 1
           n == listed[k]
           S == Predecessors(plan.graph, n)
<1>1. /\ stage = "level" /\ turns < Len(listed) /\ turns' = turns + 1 /\ stage' = stage
      /\ level' = [level EXCEPT ![n] = Above(S)]
      /\ UNCHANGED <<plan, listed, groups, joined>>
    BY DEF Level, Turn
<1>2. /\ turns \in Nat /\ level \in [Node -> Nat] /\ ListsForward(plan.graph, listed)
      /\ Leveled(turns) /\ joined = <<>> /\ plan \in Plans
    BY <1>1 DEF PlanInvariant
<1>3. listed \in Seq(Node) /\ Len(listed) \in Nat
    BY <1>2 DEF ListsForward
<1>4. k \in 1..Len(listed) /\ n \in Node
    BY <1>1, <1>2, <1>3
<1>5. S \in SUBSET Node
    BY DEF Predecessors
<1>6. \A p \in S : level[p] < turns
    <2> SUFFICES ASSUME NEW p \in S PROVE level[p] < turns
        OBVIOUS
    <2>1. PICK i \in 1..(k - 1) : listed[i] = p
        BY <1>2, <1>4 DEF ListsForward
    <2>2. i \in 1..turns
        BY <1>2, <2>1
    <2>3. level[p] < i /\ p \in Node
        BY <1>2, <2>1, <2>2 DEF Leveled, Predecessors
    <2> QED
        BY <1>2, <2>2, <2>3
<1>7. Above(S) \in Nat /\ Above(S) <= turns
    BY <1>2, <1>5, <1>6, AboveFacts
<1>8. level' \in [Node -> Nat] /\ level'[n] = Above(S)
      /\ \A m \in Node : m # n => level'[m] = level[m]
    BY <1>1, <1>2, <1>4, <1>7
<1>9. ASSUME NEW i \in 1..k
      PROVE  \A p \in Predecessors(plan.graph, listed[i]) : level'[p] = level[p]
    <2> SUFFICES ASSUME NEW p \in Predecessors(plan.graph, listed[i])
                 PROVE  level'[p] = level[p]
        OBVIOUS
    <2>1. i \in 1..Len(listed)
        BY <1>4, <1>9
    <2>2. PICK j \in 1..(i - 1) : listed[j] = p
        BY <1>2, <2>1 DEF ListsForward
    <2>3. j \in 1..Len(listed) /\ j # k
        BY <1>4, <1>9, <2>1, <2>2
    <2>4. p # n
        BY <1>2, <1>4, <2>2, <2>3 DEF ListsForward
    <2>5. p \in Node
        BY DEF Predecessors
    <2> QED
        BY <1>8, <2>4, <2>5
<1>10. ASSUME NEW i \in 1..k
       PROVE  Above(Predecessors(plan.graph, listed[i]))'
                = Above(Predecessors(plan.graph, listed[i]))
    <2> DEFINE R == Predecessors(plan.graph, listed[i])
    <2>1. \A p \in R : level'[p] = level[p]
        BY <1>9
    <2>2. R' = R
        BY <1>1
    <2> HIDE DEF R
    <2>3. {level'[p] + 1 : p \in R} = {level[p] + 1 : p \in R}
        BY <2>1
    <2>4. Above(R)' = Above(R)
        BY <2>2, <2>3 DEF Above
    <2> QED
        BY <2>4 DEF R
<1>11. ASSUME NEW i \in 1..k
       PROVE  /\ level'[listed[i]] = Above(Predecessors(plan.graph, listed[i]))
              /\ level'[listed[i]] < i
    <2>1. CASE i = k
        BY <1>2, <1>7, <1>8, <2>1
    <2>2. CASE i # k
        <3>1. i \in 1..turns /\ i \in 1..Len(listed)
            BY <1>2, <1>4, <1>11, <2>2
        <3>2. listed[i] # n /\ listed[i] \in Node
            BY <1>2, <1>3, <1>4, <2>2, <3>1 DEF ListsForward
        <3>3. level'[listed[i]] = level[listed[i]]
            BY <1>8, <3>2
        <3> QED
            BY <1>2, <3>1, <3>3 DEF Leveled
    <2> QED
        BY <2>1, <2>2
<1>12. Leveled(turns)'
    <2> SUFFICES ASSUME NEW i \in 1..k
                 PROVE  /\ level'[listed'[i]] = Above(Predecessors(plan.graph, listed[i]))'
                        /\ level'[listed'[i]] < i
        BY <1>1 DEF Leveled
    <2> QED
        BY <1>1, <1>10, <1>11
<1>13. turns' \in Nat /\ turns' <= Len(listed')
    BY <1>1, <1>2, <1>3
<1> HIDE DEF k, n, S
<1> QED
    BY <1>1, <1>2, <1>8, <1>12, <1>13 DEF PlanInvariant, Stages

(* Once the levels are there, they stay and stay right.                    *)
LEMMA LevelsFound ==
    ASSUME PlanInvariant,
           \/ stage \in {"group", "sort", "join"}
           \/ stage = "level" /\ turns = Len(listed)
    PROVE  /\ Leveled(Len(listed)) /\ ListsForward(plan.graph, listed)
           /\ TopLevel \in Nat
           /\ \A n \in Nodes(plan.graph) :
                level[n] \in Nat /\ level[n] <= TopLevel /\ level[n] \in 0..TopLevel
<1>1. /\ level \in [Node -> Nat] /\ ListsForward(plan.graph, listed)
      /\ Leveled(Len(listed))
    BY DEF PlanInvariant
<1>2. TopLevel \in Nat /\ \A n \in Nodes(plan.graph) : level[n] <= TopLevel
    BY <1>1, LeveledFacts
<1>3. \A n \in Nodes(plan.graph) : level[n] \in Nat
    BY <1>1 DEF Nodes
<1> QED
    BY <1>1, <1>2, <1>3

LEMMA OnceEmpty == Once(<<>>, {})
BY DEF Once

LEMMA MakeGroupsStep ==
    ASSUME PlanInvariant, MakeGroups
    PROVE  PlanInvariant'
<1>1. /\ stage = "level" /\ stage' = "group" /\ turns' = 0 /\ turns = Len(listed)
      /\ groups' = [d \in 0..TopLevel |-> <<>>]
      /\ UNCHANGED <<plan, listed, level, joined>>
    BY DEF MakeGroups, Goes
<1>2. Leveled(Len(listed)) /\ ListsForward(plan.graph, listed) /\ TopLevel \in Nat
    BY <1>1, LevelsFound
<1>3. TopLevel' = TopLevel /\ Leveled(Len(listed))'
    BY <1>1, <1>2 DEF TopLevel, Leveled, Above
<1>4. groups' \in [0..TopLevel' -> Seq(Node)]
    BY <1>1, <1>3
<1>5. GroupsHold(Placed(turns))'
    <2>1. Placed(turns)' = {}
        BY <1>1 DEF Placed
    <2>2. \A d \in 0..TopLevel' : groups'[d] = <<>>
        BY <1>1, <1>3
    <2>3. \A d : OnLevel(Placed(turns), d)' = {}
        BY <2>1 DEF OnLevel
    <2> QED
        BY <2>2, <2>3, OnceEmpty DEF GroupsHold
<1>6. Len(listed') \in Nat /\ turns' <= Len(listed')
    BY <1>1, <1>2 DEF ListsForward
<1> QED
    BY <1>1, <1>2, <1>3, <1>4, <1>5, <1>6 DEF PlanInvariant, Stages

(* A turn of the loop over the order: the node has not been placed, and it *)
(* goes to the end of the group of its level.                              *)
LEMMA GroupStep ==
    ASSUME PlanInvariant, Group
    PROVE  PlanInvariant'
<1> DEFINE k == turns + 1
           n == listed[k]
           e == level[n]
<1>1. /\ stage = "group" /\ turns < Len(listed) /\ turns' = turns + 1 /\ stage' = stage
      /\ groups' = [groups EXCEPT ![e] = Append(@, n)]
      /\ UNCHANGED <<plan, listed, level, joined>>
    BY DEF Group, Turn
<1>2. /\ turns \in Nat /\ level \in [Node -> Nat] /\ plan \in Plans /\ joined = <<>>
      /\ groups \in [0..TopLevel -> Seq(Node)] /\ GroupsHold(Placed(turns))
    BY <1>1 DEF PlanInvariant
<1>3. /\ Leveled(Len(listed)) /\ ListsForward(plan.graph, listed) /\ TopLevel \in Nat
      /\ \A m \in Nodes(plan.graph) : level[m] \in 0..TopLevel
    BY <1>1, LevelsFound
<1>4. listed \in Seq(Node) /\ Len(listed) \in Nat /\ k \in 1..Len(listed)
    BY <1>1, <1>2, <1>3 DEF ListsForward
<1>5. n \in Node /\ n \in Nodes(plan.graph) /\ e \in 0..TopLevel
    BY <1>3, <1>4 DEF ListsForward
<1>6. TopLevel' = TopLevel /\ Leveled(Len(listed))'
    BY <1>1, <1>3, SameLevels
<1>7. n \notin Placed(turns)
    <2> SUFFICES ASSUME NEW i \in 1..turns, listed[i] = n PROVE FALSE
        BY DEF Placed
    <2>1. i \in 1..Len(listed) /\ i # k
        BY <1>2, <1>4
    <2> QED
        BY <1>3, <1>4, <2>1 DEF ListsForward
<1>8. Placed(turns)' = Placed(turns) \cup {n}
    <2>1. 1..k = 1..turns \cup {k}
        BY <1>2
    <2>2. Placed(turns)' = {listed[i] : i \in 1..k}
        BY <1>1 DEF Placed
    <2> QED
        BY <2>1, <2>2 DEF Placed
<1>9. ASSUME NEW d
      PROVE  /\ d = e => OnLevel(Placed(turns), d)' = OnLevel(Placed(turns), d) \cup {n}
             /\ d # e => OnLevel(Placed(turns), d)' = OnLevel(Placed(turns), d)
             /\ n \notin OnLevel(Placed(turns), d)
    <2>1. OnLevel(Placed(turns), d)' = {m \in Placed(turns) \cup {n} : level[m] = d}
        BY <1>1, <1>8 DEF OnLevel
    <2> QED
        BY <1>7, <2>1 DEF OnLevel
<1> HIDE DEF k, n, e
<1>10. groups' \in [0..TopLevel' -> Seq(Node)]
    <2>1. Append(groups[e], n) \in Seq(Node)
        BY <1>2, <1>5
    <2> QED
        BY <1>1, <1>2, <1>6, <2>1
<1>11. GroupsHold(Placed(turns))'
    <2> SUFFICES ASSUME NEW d \in 0..TopLevel
                 PROVE  Once(groups'[d], OnLevel(Placed(turns), d)')
        BY <1>6 DEF GroupsHold
    <2>1. Once(groups[d], OnLevel(Placed(turns), d)) /\ groups[d] \in Seq(Node)
        BY <1>2 DEF GroupsHold
    <2>2. CASE d = e
        <3>1. Once(<<n>>, {n})
            BY <1>5 DEF Once
        <3>2. OnLevel(Placed(turns), d) \cap {n} = {}
            BY <1>9, <2>2
        <3>3. Once(groups[d] \o <<n>>, OnLevel(Placed(turns), d) \cup {n})
            BY <2>1, <3>1, <3>2, OnceConcat
        <3>4. groups'[d] = Append(groups[d], n)
            BY <1>1, <1>2, <2>2
        <3>5. Append(groups[d], n) = groups[d] \o <<n>>
            BY <1>5, <2>1, AppendIsConcat
        <3> QED
            BY <1>9, <2>2, <3>3, <3>4, <3>5
    <2>3. CASE d # e
        BY <1>1, <1>2, <1>9, <2>1, <2>3
    <2> QED
        BY <2>2, <2>3
<1>12. turns' \in Nat /\ turns' <= Len(listed')
    BY <1>1, <1>2, <1>4
<1> QED
    BY <1>1, <1>2, <1>3, <1>6, <1>10, <1>11, <1>12 DEF PlanInvariant, Stages

LEMMA BeginSortStep ==
    ASSUME PlanInvariant, BeginSort
    PROVE  PlanInvariant'
<1>1. /\ stage = "group" /\ stage' = "sort" /\ turns' = 0 /\ turns = Len(listed)
      /\ UNCHANGED <<plan, listed, level, groups, joined>>
    BY DEF BeginSort, Goes
<1>2. /\ level \in [Node -> Nat] /\ plan \in Plans /\ joined = <<>>
      /\ groups \in [0..TopLevel -> Seq(Node)] /\ GroupsHold(Placed(Len(listed)))
    BY <1>1 DEF PlanInvariant
<1>3. Leveled(Len(listed)) /\ ListsForward(plan.graph, listed) /\ TopLevel \in Nat
    BY <1>1, LevelsFound
<1>4. Placed(Len(listed)) = Nodes(plan.graph)
    BY <1>3 DEF Placed, ListsForward
<1>5. TopLevel' = TopLevel /\ Leveled(Len(listed))'
    BY <1>1, <1>3, SameLevels
<1>6. GroupsHold(Nodes(plan.graph))'
    BY <1>1, <1>2, <1>4, <1>5, SameLevels DEF GroupsHold
<1>7. turns' \in Nat /\ turns' <= TopLevel' + 1 /\ \A d \in 0..TopLevel' : ~(d < turns')
    BY <1>1, <1>3, <1>5
<1> QED
    BY <1>1, <1>2, <1>3, <1>5, <1>6, <1>7 DEF PlanInvariant, Stages

(* A turn of the loop over the levels: what the sort leaves of a group has *)
(* the same nodes, and ascends as they are all of one level.               *)
LEMMA SortGroupStep ==
    ASSUME PlanInvariant, SortGroup
    PROVE  PlanInvariant'
<1>1. PICK s \in Arranged(groups[turns]) :
        /\ stage = "sort" /\ turns < TopLevel + 1 /\ turns' = turns + 1 /\ stage' = stage
        /\ groups' = [groups EXCEPT ![turns] = s]
        /\ UNCHANGED <<plan, listed, level, joined>>
    BY DEF SortGroup, Turn
<1>2. /\ turns \in Nat /\ level \in [Node -> Nat] /\ plan \in Plans /\ joined = <<>>
      /\ groups \in [0..TopLevel -> Seq(Node)] /\ GroupsHold(Nodes(plan.graph))
      /\ \A d \in 0..TopLevel : d < turns => Ascends(groups[d])
    BY <1>1 DEF PlanInvariant
<1>3. Leveled(Len(listed)) /\ ListsForward(plan.graph, listed) /\ TopLevel \in Nat
    BY <1>1, LevelsFound
<1>4. TopLevel' = TopLevel /\ Leveled(Len(listed))'
    BY <1>1, <1>3, SameLevels
<1>5. turns \in 0..TopLevel
    BY <1>1, <1>2, <1>3
<1> DEFINE t == groups[turns]
           S == OnLevel(Nodes(plan.graph), turns)
<1>6. t \in Seq(Node) /\ DOMAIN t = 1..Len(t) /\ Len(t) \in Nat /\ {t[i] : i \in DOMAIN t} = S
    <2>1. t \in Seq(Node) /\ {t[i] : i \in DOMAIN t} = S
        BY <1>2, <1>5 DEF GroupsHold, Once
    <2> QED
        BY <2>1
<1>7. /\ s \in [1..Len(t) -> S] /\ {s[i] : i \in 1..Len(t)} = S
      /\ \A i, j \in 1..Len(t) :
            i < j => s[i] # s[j] /\ ComesFirst(plan.graph, plan.strategy, s[i], s[j])
    BY <1>1, <1>6 DEF Arranged
<1>8. S \subseteq Node /\ \A m \in S : level[m] = turns
    BY DEF OnLevel, Nodes
<1> HIDE DEF t, S
<1>9. s \in Seq(Node) /\ DOMAIN s = 1..Len(t)
    BY <1>6, <1>7, <1>8
<1>10. Once(s, S)
    <2>1. ASSUME NEW i \in 1..Len(t), NEW j \in 1..Len(t), s[i] = s[j] PROVE i = j
        <3>1. ~(i < j) /\ ~(j < i)
            BY <1>7, <2>1
        <3> QED
            BY <1>6, <3>1
    <2> QED
        BY <1>7, <1>9, <2>1 DEF Once
<1>11. Ascends(s)
    BY <1>7, <1>8, <1>9 DEF Ascends, Precedes
<1>12. groups' \in [0..TopLevel' -> Seq(Node)] /\ groups'[turns] = s
       /\ \A d \in 0..TopLevel : d # turns => groups'[d] = groups[d]
    BY <1>1, <1>2, <1>4, <1>5, <1>9
<1>13. GroupsHold(Nodes(plan.graph))'
    <2> SUFFICES ASSUME NEW d \in 0..TopLevel
                 PROVE  Once(groups'[d], OnLevel(Nodes(plan.graph), d))
        BY <1>1, <1>4, SameLevels DEF GroupsHold
    <2>1. Once(groups[d], OnLevel(Nodes(plan.graph), d))
        BY <1>2 DEF GroupsHold
    <2> QED
        BY <1>10, <1>12, <2>1 DEF S
<1>14. \A d \in 0..TopLevel' : d < turns' => Ascends(groups[d])'
    <2> SUFFICES ASSUME NEW d \in 0..TopLevel, d < turns + 1
                 PROVE  Ascends(groups'[d])
        BY <1>1, <1>4, SameLevels
    <2>1. d # turns => d < turns
        BY <1>2
    <2> QED
        BY <1>2, <1>11, <1>12, <2>1
<1>15. turns' \in Nat /\ turns' <= TopLevel' + 1
    BY <1>1, <1>2, <1>3, <1>4
<1> QED
    BY <1>1, <1>2, <1>3, <1>4, <1>12, <1>13, <1>14, <1>15 DEF PlanInvariant, Stages

LEMMA BeginJoinStep ==
    ASSUME PlanInvariant, BeginJoin
    PROVE  PlanInvariant'
<1>1. /\ stage = "sort" /\ stage' = "join" /\ turns' = 0 /\ turns = TopLevel + 1
      /\ UNCHANGED <<plan, listed, level, groups, joined>>
    BY DEF BeginJoin, Goes
<1>2. /\ level \in [Node -> Nat] /\ plan \in Plans /\ joined = <<>>
      /\ groups \in [0..TopLevel -> Seq(Node)] /\ GroupsHold(Nodes(plan.graph))
      /\ \A d \in 0..TopLevel : d < turns => Ascends(groups[d])
    BY <1>1 DEF PlanInvariant
<1>3. Leveled(Len(listed)) /\ ListsForward(plan.graph, listed) /\ TopLevel \in Nat
    BY <1>1, LevelsFound
<1>4. TopLevel' = TopLevel /\ Leveled(Len(listed))'
    BY <1>1, <1>3, SameLevels
<1>5. GroupsHold(Nodes(plan.graph))'
    BY <1>1, <1>2, <1>4, SameLevels DEF GroupsHold
<1>6. \A d \in 0..TopLevel' : Ascends(groups[d])'
    <2> SUFFICES ASSUME NEW d \in 0..TopLevel PROVE Ascends(groups[d])
        BY <1>1, <1>4, SameLevels
    <2> QED
        BY <1>1, <1>2, <1>3
<1>7. turns' \in Nat /\ turns' <= TopLevel' + 1
    BY <1>1, <1>3, <1>4
<1>8. Once(joined', {n \in Nodes(plan'.graph) : level'[n] < turns'})
    <2>1. \A n \in Nodes(plan.graph) : level[n] \in Nat /\ ~(level[n] < 0)
        BY <1>2 DEF Nodes
    <2>2. {n \in Nodes(plan'.graph) : level'[n] < turns'} = {}
        BY <1>1, <2>1
    <2> QED
        BY <1>1, <1>2, <2>2, OnceEmpty
<1>9. Ascends(joined)'
    BY <1>1, <1>2 DEF Ascends
<1> QED
    BY <1>1, <1>2, <1>3, <1>4, <1>5, <1>6, <1>7, <1>8, <1>9 DEF PlanInvariant, Stages

(* A turn of the last loop: the group holds the nodes of the next level,   *)
(* which come after all that are joined.                                   *)
LEMMA JoinGroupStep ==
    ASSUME PlanInvariant, JoinGroup
    PROVE  PlanInvariant'
<1> DEFINE t == groups[turns]
           S == {n \in Nodes(plan.graph) : level[n] < turns}
           T == OnLevel(Nodes(plan.graph), turns)
<1>1. /\ stage = "join" /\ turns < TopLevel + 1 /\ turns' = turns + 1 /\ stage' = stage
      /\ joined' = joined \o t
      /\ UNCHANGED <<plan, listed, level, groups>>
    BY DEF JoinGroup, Turn
<1>2. /\ turns \in Nat /\ level \in [Node -> Nat] /\ plan \in Plans
      /\ groups \in [0..TopLevel -> Seq(Node)] /\ GroupsHold(Nodes(plan.graph))
      /\ \A d \in 0..TopLevel : Ascends(groups[d])
      /\ Once(joined, S) /\ Ascends(joined)
    BY <1>1 DEF PlanInvariant
<1>3. Leveled(Len(listed)) /\ ListsForward(plan.graph, listed) /\ TopLevel \in Nat
    BY <1>1, LevelsFound
<1>4. TopLevel' = TopLevel /\ Leveled(Len(listed))'
    BY <1>1, <1>3, SameLevels
<1>5. turns \in 0..TopLevel
    BY <1>1, <1>2, <1>3
<1>6. Once(t, T) /\ Ascends(t)
    BY <1>2, <1>5 DEF GroupsHold
<1>7. /\ \A n \in Nodes(plan.graph) : level[n] \in Nat
      /\ \A n \in S : level[n] < turns
      /\ \A n \in T : level[n] = turns
    BY <1>2 DEF OnLevel, Nodes
<1>8. S \cap T = {}
    BY <1>2, <1>7
<1>9. S \cup T = {n \in Nodes(plan.graph) : level[n] < turns + 1}
    BY <1>2, <1>7 DEF OnLevel
<1> HIDE DEF t, S, T
<1>10. Once(joined \o t, S \cup T)
    BY <1>2, <1>6, <1>8, OnceConcat
<1>11. \A i \in DOMAIN joined, j \in DOMAIN t : Precedes(joined[i], t[j])
    <2> SUFFICES ASSUME NEW i \in DOMAIN joined, NEW j \in DOMAIN t
                 PROVE  level[joined[i]] < level[t[j]]
        BY DEF Precedes
    <2>1. joined[i] \in S /\ t[j] \in T
        BY <1>2, <1>6 DEF Once
    <2> QED
        BY <1>7, <2>1
<1>12. Ascends(joined \o t)
    <2>1. joined \in Seq(Node) /\ t \in Seq(Node)
        BY <1>2, <1>6 DEF Once
    <2> QED
        BY <1>2, <1>6, <1>11, <2>1, AscendsConcat
<1>13. Once(joined', {n \in Nodes(plan'.graph) : level'[n] < turns'})
    BY <1>1, <1>9, <1>10
<1>14. Ascends(joined)'
    BY <1>1, <1>12, SameLevels
<1>15. GroupsHold(Nodes(plan.graph))'
    BY <1>1, <1>2, <1>4, SameLevels DEF GroupsHold
<1>16. \A d \in 0..TopLevel' : Ascends(groups[d])'
    <2> SUFFICES ASSUME NEW d \in 0..TopLevel PROVE Ascends(groups[d])
        BY <1>1, <1>4, SameLevels
    <2> QED
        BY <1>2
<1>17. turns' \in Nat /\ turns' <= TopLevel' + 1
    BY <1>1, <1>2, <1>3, <1>4
<1> QED
    BY <1>1, <1>2, <1>3, <1>4, <1>13, <1>14, <1>15, <1>16, <1>17 DEF PlanInvariant, Stages

LEMMA OrderedStep ==
    ASSUME PlanInvariant, Ordered
    PROVE  PlanInvariant'
<1>1. /\ stage = "join" /\ stage' = "ordered" /\ turns' = 0 /\ turns = TopLevel + 1
      /\ UNCHANGED <<plan, listed, level, groups, joined>>
    BY DEF Ordered, Goes
<1>2. /\ level \in [Node -> Nat] /\ plan \in Plans
      /\ Once(joined, {n \in Nodes(plan.graph) : level[n] < turns}) /\ Ascends(joined)
    BY <1>1 DEF PlanInvariant
<1>3. /\ Leveled(Len(listed)) /\ ListsForward(plan.graph, listed) /\ TopLevel \in Nat
      /\ \A n \in Nodes(plan.graph) : level[n] \in Nat /\ level[n] <= TopLevel
    BY <1>1, LevelsFound
<1>4. Leveled(Len(listed))' /\ Ascends(joined)'
    BY <1>1, <1>2, <1>3, SameLevels
<1>5. {n \in Nodes(plan.graph) : level[n] < turns} = Nodes(plan.graph)
    <2>1. \A n \in Nodes(plan.graph) : level[n] < turns
        BY <1>1, <1>3
    <2> QED
        BY <2>1
<1>6. Once(joined, Nodes(plan.graph))
    BY <1>2, <1>5
<1> QED
    BY <1>1, <1>2, <1>3, <1>4, <1>6 DEF PlanInvariant, Stages

LEMMA PlanStep == PlanInvariant /\ [PlanNext]_planVars => PlanInvariant'
<1> SUFFICES ASSUME PlanInvariant, [PlanNext]_planVars PROVE PlanInvariant'
    OBVIOUS
<1>1. CASE UNCHANGED planVars
    <2>1. UNCHANGED <<plan, listed, level, groups, joined, turns, stage>>
        BY <1>1 DEF planVars
    <2> QED
        BY <2>1, SameLevels DEF PlanInvariant, GroupsHold
<1>2. CASE RefuseCycle
    BY <1>2 DEF RefuseCycle, Goes, PlanInvariant, Stages
<1>3. CASE TakeOrder
    <2>1. /\ stage = "begin" /\ stage' = "level" /\ turns' = 0
          /\ listed' \in TopoOrders(plan.graph) /\ UNCHANGED <<plan, level, groups, joined>>
        BY <1>3 DEF TakeOrder, Goes
    <2>2. ListsForward(plan.graph, listed')
        BY <2>1, TopoOrderListsForward
    <2>3. Len(listed') \in Nat
        BY <2>2 DEF ListsForward
    <2>4. Leveled(turns)'
        BY <2>1 DEF Leveled
    <2> QED
        BY <2>1, <2>2, <2>3, <2>4 DEF PlanInvariant, Stages
<1> QED
    BY <1>1, <1>2, <1>3, LevelStep, MakeGroupsStep, GroupStep, BeginSortStep, SortGroupStep,
       BeginJoinStep, JoinGroupStep, OrderedStep DEF PlanNext

(* For every graph and strategy, what PrioritizedOrder returns has every   *)
(* node once, each after all it depends on, level by level and within a    *)
(* level by the key of the strategy: it is an order Run can execute.       *)
THEOREM OrdersCanBeExecuted == PlanSpec => []OrderIsExecutable
<1>1. PlanInvariant => OrderIsExecutable
    <2> SUFFICES ASSUME PlanInvariant, stage = "ordered" PROVE OrderIsExecutable
        BY DEF OrderIsExecutable
    <2>1. /\ level \in [Node -> Nat] /\ ListsForward(plan.graph, listed)
          /\ Leveled(Len(listed)) /\ Once(joined, Nodes(plan.graph)) /\ Ascends(joined)
        BY DEF PlanInvariant
    <2>2. \A n \in Nodes(plan.graph) :
            /\ level[n] = Above(Predecessors(plan.graph, n))
            /\ \A m \in Predecessors(plan.graph, n) : level[m] < level[n]
        BY <2>1, LeveledFacts
    <2>3. DOMAIN joined \subseteq Int
        <3>1. joined \in Seq(Node)
            BY <2>1 DEF Once
        <3> QED
            BY <3>1
    <2>4. \A n \in Nodes(plan.graph) : n \in Node /\ level[n] \in Int
        BY <2>1 DEF Nodes
    <2>5. \A i \in DOMAIN joined : joined[i] \in Nodes(plan.graph)
        BY <2>1 DEF Once
    <2>6. ASSUME NEW i \in DOMAIN joined, NEW j \in DOMAIN joined,
                 HasEdge(plan.graph, joined[i], joined[j])
          PROVE  i < j
        <3>1. level[joined[i]] < level[joined[j]]
            BY <2>2, <2>4, <2>5, <2>6 DEF Predecessors
        <3>2. i # j /\ ~(j < i)
            BY <2>1, <2>4, <2>5, <3>1 DEF Ascends, Precedes
        <3> QED
            BY <2>3, <3>2
    <2> QED
        BY <2>1, <2>2, <2>6 DEF OrderIsExecutable, Once, Ascends, Precedes
<1> QED
    BY <1>1, PlanInvariantInit, PlanStep, PTL DEF PlanSpec

=============================================================================
