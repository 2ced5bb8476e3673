-------------------------- MODULE SchedulerProofs --------------------------
(***************************************************************************)
(* What Scheduler.Run keeps at every step, for every graph, and what its    *)
(* report says, when calls of Run do not overlap.                          *)
(***************************************************************************)
EXTENDS Scheduler, LineageGraphProofs

(* No two calls of Run at the same time.                                   *)
OneRun == \A r, s \in Runner : r = s

-----------------------------------------------------------------------------
(* The order lists every node once, after its predecessors.                *)

Listed ==
    /\ order \in Seq(Node)
    /\ \A k \in 1..Len(order) :
        /\ order[k] \in Nodes(graph)
        /\ \A m \in Predecessors(graph, order[k]) : \E i \in 1..(k - 1) : order[i] = m
    /\ \A i, k \in 1..Len(order) : order[i] = order[k] => i = k
    /\ \A n \in Nodes(graph) : \E k \in 1..Len(order) : order[k] = n

LEMMA TopoOrderLists ==
    ASSUME order \in TopoOrders(graph)
    PROVE  Listed
<1> DEFINE c == Cardinality(Nodes(graph))
<1>1. Nodes(graph) \in SUBSET Node
    BY DEF Nodes
<1>2. IsFiniteSet(Nodes(graph)) /\ c \in Nat
    BY <1>1, NodeIsFinite, FS_Subset, FS_CardinalityType
<1>3. order \in [1..c -> Nodes(graph)] /\ IsTopoOrder(graph, order)
    BY DEF TopoOrders
<1> HIDE DEF c
<1>4. order \in Seq(Node) /\ Len(order) = c /\ DOMAIN order = 1..c
    BY <1>1, <1>2, <1>3
<1>5. ASSUME NEW k \in 1..c
      PROVE  /\ order[k] \in Nodes(graph)
             /\ order[k] \notin Before(order, k)
             /\ Predecessors(graph, order[k]) \subseteq Before(order, k)
    BY <1>3, <1>4 DEF IsTopoOrder, Ready
<1>6. ASSUME NEW i \in 1..c, NEW k \in 1..c, order[i] = order[k], i < k
      PROVE  FALSE
    <2>1. i \in 1..(k - 1)
        BY <1>2, <1>6
    <2> QED
        BY <2>1, <1>5, <1>6 DEF Before
<1>7. \A i, k \in 1..c : order[i] = order[k] => i = k
    BY <1>2, <1>6
<1>8. order \in Injection(1..c, Nodes(graph))
    BY <1>3, <1>7 DEF Injection, IsInjective
<1>9. Cardinality(1..c) = c
    BY <1>2, FS_Interval
<1>10. order \in Surjection(1..c, Nodes(graph))
    BY <1>2, <1>8, <1>9, FS_Injection DEF c
<1>11. \A n \in Nodes(graph) : \E k \in 1..c : order[k] = n
    BY <1>10 DEF Surjection
<1>12. \A k \in 1..c : \A m \in Predecessors(graph, order[k]) :
          \E i \in 1..(k - 1) : order[i] = m
    BY <1>5 DEF Before
<1> QED
    BY <1>4, <1>5, <1>7, <1>11, <1>12 DEF Listed

-----------------------------------------------------------------------------
(* A node the loop has passed: its task was executed above dependencies    *)
(* that are all done, or it was skipped below one that is not.             *)
Passed(res, n) ==
    /\ res[n] \in {"done", "failed", "skipped"}
    /\ res[n] \in {"done", "failed"} =>
         \A m \in Predecessors(graph, n) : res[m] = "done"
    /\ res[n] = "skipped" =>
         \E m \in Predecessors(graph, n) : res[m] \in {"failed", "skipped"}

OnlyNodes(res) == \A n \in Node : ~HasNode(graph, n) => res[n] = Absent

(* A map that may be returned: a beginning of the order was passed and the *)
(* rest was cancelled.                                                     *)
Report(res, stopped) ==
    /\ OnlyNodes(res)
    /\ \E k \in 0..Len(order) :
        /\ \A i \in 1..k : Passed(res, order[i])
        /\ \A i \in (k + 1)..Len(order) : res[order[i]] = "cancelled"
        /\ k # Len(order) => stopped

Busy == {"check", "preds", "skip", "start", "task", "mark"}

(* Where the loop stands: everything before next is passed, the task of    *)
(* next may be running, and nothing behind has a status.                   *)
LoopInvariant(r) ==
    pc[r] \in Busy =>
        /\ next[r] \in 1..(Len(order) + 1)
        /\ OnlyNodes(results)
        /\ \A i \in 1..(next[r] - 1) : Passed(results, order[i])
        /\ \A i \in next[r]..Len(order) :
             results[order[i]] =
               IF pc[r] = "task" /\ i = next[r] THEN "running" ELSE Absent
        /\ pc[r] # "check" => next[r] <= Len(order)
        /\ pc[r] \in {"start", "task"} => AllPredsOK(order[next[r]])
        /\ pc[r] = "skip" => ~AllPredsOK(order[next[r]])
        /\ pc[r] = "mark" => cancelled[r]

ReturnInvariant(r) ==
    /\ pc[r] = "copy" => Report(results, cancelled[r])
    /\ pc[r] # "returned" => returned[r] = Absent
    /\ returned[r] # Absent => Report(returned[r], cancelled[r])

RunInvariant ==
    /\ TypeOK
    /\ IsDag(graph)
    /\ Listed
    /\ \A r \in Runner : LoopInvariant(r) /\ ReturnInvariant(r)

-----------------------------------------------------------------------------
LEMMA RunInit == Init => RunInvariant
<1> SUFFICES ASSUME Init PROVE RunInvariant
    OBVIOUS
<1>1. graph \in Graphs /\ IsDag(graph)
    BY DagsAssumption DEF Init
<1>2. Listed
    BY TopoOrderLists DEF Init
<1>3. Len(order) \in Nat
    BY <1>2 DEF Listed
<1>4. TypeOK
    BY <1>1, <1>3 DEF Init, TypeOK, TopoOrders, Results, Blank
<1>5. ASSUME NEW r \in Runner
      PROVE  LoopInvariant(r) /\ ReturnInvariant(r)
    BY DEF Init, LoopInvariant, ReturnInvariant, Busy
<1> QED
    BY <1>1, <1>2, <1>4, <1>5 DEF RunInvariant

(* Nodes that are passed stay passed while later ones change.              *)
LEMMA PassedStays ==
    ASSUME NEW res \in Results, NEW new \in Results, NEW n \in Node, Passed(res, n),
           \A m \in Node : res[m] \in {"done", "failed", "skipped"} => new[m] = res[m]
    PROVE  Passed(new, n)
BY DEF Passed, Predecessors

(* The predecessors of the node the loop has reached are all passed.       *)
LEMMA PredecessorsPassed ==
    ASSUME Listed, NEW res, NEW k \in 1..Len(order),
           \A i \in 1..(k - 1) : Passed(res, order[i])
    PROVE  \A m \in Predecessors(graph, order[k]) : res[m] \in {"done", "failed", "skipped"}
BY DEF Listed, Passed

(* One call of Run at a time: what holds of the one that takes a step      *)
(* holds of all.                                                           *)
LEMMA OneIsAll ==
    ASSUME OneRun, NEW r \in Runner, RunInvariant, UNCHANGED <<graph, order>>,
           TypeOK', LoopInvariant(r)', ReturnInvariant(r)'
    PROVE  RunInvariant'
<1>1. \A s \in Runner : s = r
    BY DEF OneRun
<1>2. IsDag(graph)'
    BY DEF RunInvariant
<1>3. Listed'
    BY DEF RunInvariant, Listed
<1> QED
    BY <1>1, <1>2, <1>3 DEF RunInvariant

LEMMA BeginStep ==
    ASSUME OneRun, RunInvariant, NEW r \in Runner, Begin(r)
    PROVE  RunInvariant'
<1> USE DEF Begin, Goto
<1>1. Listed /\ Len(order) \in Nat
    BY DEF RunInvariant, Listed
<1>2. TypeOK'
    BY <1>1 DEF RunInvariant, TypeOK, Results, Blank
<1>3. pc'[r] = "check" /\ next'[r] = 1 /\ returned'[r] = Absent
    BY DEF RunInvariant, TypeOK
<1>4. \A n \in Node : results'[n] = Absent
    BY DEF Blank
<1>5. \A i \in 1..Len(order) : order[i] \in Node
    BY <1>1 DEF Listed
<1>6. LoopInvariant(r)'
    BY <1>1, <1>3, <1>4, <1>5 DEF LoopInvariant, OnlyNodes
<1>7. ReturnInvariant(r)'
    BY <1>3 DEF ReturnInvariant
<1> QED
    BY <1>2, <1>6, <1>7, OneIsAll

LEMMA CancelStep ==
    ASSUME OneRun, RunInvariant, NEW r \in Runner, Cancel(r)
    PROVE  RunInvariant'
<1> USE DEF Cancel
<1>1. TypeOK'
    BY DEF RunInvariant, TypeOK
<1>2. cancelled'[r] /\ returned[r] = Absent
    BY DEF RunInvariant, TypeOK, ReturnInvariant
<1>3. LoopInvariant(r)'
    BY <1>2 DEF RunInvariant, LoopInvariant, OnlyNodes, Passed, AllPredsOK
<1>4. pc[r] = "copy" => Report(results, TRUE)
    BY DEF RunInvariant, ReturnInvariant, Report
<1>5. ReturnInvariant(r)'
    BY <1>2, <1>4 DEF RunInvariant, ReturnInvariant, Report, OnlyNodes, Passed
<1> QED
    BY <1>1, <1>3, <1>5, OneIsAll

LEMMA CheckStep ==
    ASSUME OneRun, RunInvariant, NEW r \in Runner, Check(r)
    PROVE  RunInvariant'
<1> USE DEF Check, Goto
<1>1. Listed /\ Len(order) \in Nat /\ LoopInvariant(r) /\ ReturnInvariant(r)
    BY DEF RunInvariant, Listed
<1>2. TypeOK'
    BY DEF RunInvariant, TypeOK
<1>3. /\ next[r] > Len(order) => pc'[r] = "copy"
      /\ next[r] <= Len(order) => pc'[r] = IF cancelled[r] THEN "mark" ELSE "preds"
    BY <1>1 DEF RunInvariant, TypeOK
<1>4. next[r] \in 1..(Len(order) + 1)
    BY <1>1 DEF LoopInvariant, Busy
<1>5. LoopInvariant(r)'
    BY <1>1, <1>3, <1>4 DEF LoopInvariant, Busy, OnlyNodes, Passed
<1>6. ASSUME next[r] > Len(order)
      PROVE  Report(results, cancelled[r])
    <2>1. next[r] - 1 = Len(order)
        BY <1>1, <1>4, <1>6
    <2>2. Len(order) \in 0..Len(order) /\ (Len(order) + 1)..Len(order) = {}
        BY <1>1
    <2>3. \A i \in 1..Len(order) : Passed(results, order[i])
        BY <1>1, <2>1 DEF LoopInvariant, Busy
    <2>4. OnlyNodes(results)
        BY <1>1 DEF LoopInvariant, Busy
    <2> QED
        BY <2>2, <2>3, <2>4 DEF Report
<1>7. ReturnInvariant(r)'
    BY <1>1, <1>3, <1>4, <1>6 DEF ReturnInvariant, Report, OnlyNodes, Passed
<1> QED
    BY <1>2, <1>5, <1>7, OneIsAll

LEMMA TestPredsStep ==
    ASSUME OneRun, RunInvariant, NEW r \in Runner, TestPreds(r)
    PROVE  RunInvariant'
<1> USE DEF TestPreds, Goto
<1>1. LoopInvariant(r) /\ ReturnInvariant(r)
    BY DEF RunInvariant
<1>2. TypeOK'
    BY DEF RunInvariant, TypeOK
<1>3. pc'[r] = IF AllPredsOK(order[next[r]]) THEN "start" ELSE "skip"
    BY DEF RunInvariant, TypeOK
<1>4. LoopInvariant(r)'
    BY <1>1, <1>3 DEF LoopInvariant, Busy, OnlyNodes, Passed, AllPredsOK
<1>5. ReturnInvariant(r)'
    BY <1>1, <1>3 DEF ReturnInvariant, Report, OnlyNodes, Passed
<1> QED
    BY <1>2, <1>4, <1>5, OneIsAll

LEMMA SkipStep ==
    ASSUME OneRun, RunInvariant, NEW r \in Runner, Skip(r)
    PROVE  RunInvariant'
<1> USE DEF Skip, Goto, Advance, SetResult
<1> DEFINE k == next[r]
           n == order[next[r]]
<1>1. Listed /\ Len(order) \in Nat /\ LoopInvariant(r) /\ ReturnInvariant(r)
    BY DEF RunInvariant, Listed
<1>2. k \in 1..Len(order) /\ n \in Node /\ HasNode(graph, n)
    BY <1>1 DEF LoopInvariant, Busy, Listed, Nodes
<1>3. TypeOK'
    BY <1>1, <1>2 DEF RunInvariant, TypeOK, Results, Status
<1>4. pc'[r] = "check" /\ next'[r] = k + 1 /\ returned'[r] = Absent
    BY DEF RunInvariant, TypeOK, ReturnInvariant
<1>5. results \in Results /\ results' \in Results
    BY <1>3 DEF RunInvariant, TypeOK
<1>6. /\ results'[n] = "skipped"
      /\ \A m \in Node : m # n => results'[m] = results[m]
      /\ results[n] = Absent
    BY <1>1, <1>2, <1>5 DEF Results, LoopInvariant, Busy
<1>7. \A m \in Node : results[m] \in {"done", "failed", "skipped"} => results'[m] = results[m]
    BY <1>6, StatusAssumption DEF Status
<1>8. \A i \in 1..(k - 1) : Passed(results, order[i]) /\ order[i] \in Node
    BY <1>1, <1>2 DEF LoopInvariant, Busy, Listed
<1>9. \A i \in 1..(k - 1) : Passed(results', order[i])
    BY <1>5, <1>7, <1>8, PassedStays
<1>10. \A m \in Predecessors(graph, n) :
          results[m] \in {"done", "failed", "skipped"} /\ m \in Node
    BY <1>1, <1>2, <1>8, PredecessorsPassed DEF Predecessors
<1>11. \E m \in Predecessors(graph, n) : results[m] \in {"failed", "skipped"}
    BY <1>1, <1>10 DEF LoopInvariant, Busy, AllPredsOK
<1>12. Passed(results', n)
    BY <1>6, <1>7, <1>10, <1>11 DEF Passed
<1>13. ASSUME NEW i \in 1..k
       PROVE  Passed(results', order[i])
  <2>1. CASE i = k
    BY <2>1, <1>12
  <2>2. CASE i # k
    <3>1. i \in 1..(k - 1)
        BY <1>1, <1>2, <2>2
    <3> QED
        BY <3>1, <1>9
  <2> QED
    BY <2>1, <2>2
<1>14. \A i \in (k + 1)..Len(order) : results'[order[i]] = Absent
    BY <1>1, <1>2, <1>6 DEF LoopInvariant, Busy, Listed
<1>15. OnlyNodes(results')
    BY <1>1, <1>2, <1>6 DEF LoopInvariant, Busy, OnlyNodes
<1>16. LoopInvariant(r)'
  <2>1. /\ OnlyNodes(results)'
        /\ (\A i \in 1..(next[r] - 1) : Passed(results, order[i]))'
    BY <1>2, <1>4, <1>13, <1>15 DEF OnlyNodes, Passed
  <2>2. (next[r] \in 1..(Len(order) + 1))'
    BY <1>1, <1>2, <1>4
  <2>3. (\A i \in next[r]..Len(order) :
             results[order[i]] =
               IF pc[r] = "task" /\ i = next[r] THEN "running" ELSE Absent)'
    BY <1>4, <1>14
  <2> QED
    BY <1>4, <2>1, <2>2, <2>3 DEF LoopInvariant
<1>17. ReturnInvariant(r)'
    BY <1>4 DEF ReturnInvariant
<1> QED
    BY <1>3, <1>16, <1>17, OneIsAll

LEMMA StartStep ==
    ASSUME OneRun, RunInvariant, NEW r \in Runner, Start(r)
    PROVE  RunInvariant'
<1> USE DEF Start, Goto, SetResult
<1> DEFINE k == next[r]
           n == order[next[r]]
<1>1. Listed /\ Len(order) \in Nat /\ LoopInvariant(r) /\ ReturnInvariant(r)
    BY DEF RunInvariant, Listed
<1>2. k \in 1..Len(order) /\ n \in Node /\ HasNode(graph, n)
    BY <1>1 DEF LoopInvariant, Busy, Listed, Nodes
<1>3. TypeOK'
    BY <1>1, <1>2 DEF RunInvariant, TypeOK, Results, Status
<1>4. pc'[r] = "task" /\ next'[r] = k /\ returned'[r] = Absent
    BY DEF RunInvariant, TypeOK, ReturnInvariant
<1>5. results \in Results /\ results' \in Results
    BY <1>3 DEF RunInvariant, TypeOK
<1>6. /\ results'[n] = "running"
      /\ \A m \in Node : m # n => results'[m] = results[m]
      /\ results[n] = Absent
    BY <1>1, <1>2, <1>5 DEF Results, LoopInvariant, Busy
<1>7. \A m \in Node : results[m] \in {"done", "failed", "skipped"} => results'[m] = results[m]
    BY <1>6, StatusAssumption DEF Status
<1>8. \A i \in 1..(k - 1) : Passed(results, order[i]) /\ order[i] \in Node
    BY <1>1, <1>2 DEF LoopInvariant, Busy, Listed
<1>9. \A i \in 1..(k - 1) : Passed(results', order[i])
    BY <1>5, <1>7, <1>8, PassedStays
<1>10. AllPredsOK(n)'
    BY <1>1, <1>7 DEF LoopInvariant, Busy, AllPredsOK, Predecessors
<1>11. \A i \in (k + 1)..Len(order) : results'[order[i]] = Absent
    BY <1>1, <1>2, <1>6 DEF LoopInvariant, Busy, Listed
<1>12. OnlyNodes(results')
    BY <1>1, <1>2, <1>6 DEF LoopInvariant, Busy, OnlyNodes
<1>13. LoopInvariant(r)'
  <2>1. /\ OnlyNodes(results)'
        /\ (\A i \in 1..(next[r] - 1) : Passed(results, order[i]))'
        /\ AllPredsOK(order[next[r]])'
    BY <1>2, <1>4, <1>9, <1>10, <1>12 DEF OnlyNodes, Passed, AllPredsOK
  <2>2. (next[r] \in 1..(Len(order) + 1))'
    BY <1>1, <1>2, <1>4
  <2>3. (\A i \in next[r]..Len(order) :
             results[order[i]] =
               IF pc[r] = "task" /\ i = next[r] THEN "running" ELSE Absent)'
    BY <1>4, <1>1, <1>2, <1>6, <1>11
  <2>4. (next[r] <= Len(order))'
    BY <1>1, <1>2, <1>4
  <2> QED
    BY <1>4, <2>1, <2>2, <2>3, <2>4 DEF LoopInvariant
<1>14. ReturnInvariant(r)'
    BY <1>4 DEF ReturnInvariant
<1> QED
    BY <1>3, <1>13, <1>14, OneIsAll

LEMMA FinishStep ==
    ASSUME OneRun, RunInvariant, NEW r \in Runner, Finish(r)
    PROVE  RunInvariant'
<1> USE DEF Finish, Goto, Advance, SetResult
<1> DEFINE k == next[r]
           n == order[next[r]]
<1>1. Listed /\ Len(order) \in Nat /\ LoopInvariant(r) /\ ReturnInvariant(r)
    BY DEF RunInvariant, Listed
<1>2. k \in 1..Len(order) /\ n \in Node /\ HasNode(graph, n)
    BY <1>1 DEF LoopInvariant, Busy, Listed, Nodes
<1>3. TypeOK'
    BY <1>1, <1>2 DEF RunInvariant, TypeOK, Results, Status
<1>4. pc'[r] = "check" /\ next'[r] = k + 1 /\ returned'[r] = Absent
    BY DEF RunInvariant, TypeOK, ReturnInvariant
<1>5. results \in Results /\ results' \in Results
    BY <1>3 DEF RunInvariant, TypeOK
<1>6. /\ results'[n] \in {"done", "failed"}
      /\ \A m \in Node : m # n => results'[m] = results[m]
      /\ results[n] = "running"
    BY <1>1, <1>2, <1>5 DEF Results, LoopInvariant, Busy
<1>7. \A m \in Node : results[m] \in {"done", "failed", "skipped"} => results'[m] = results[m]
    BY <1>6
<1>8. \A i \in 1..(k - 1) : Passed(results, order[i]) /\ order[i] \in Node
    BY <1>1, <1>2 DEF LoopInvariant, Busy, Listed
<1>9. \A i \in 1..(k - 1) : Passed(results', order[i])
    BY <1>5, <1>7, <1>8, PassedStays
<1>10. \A m \in Predecessors(graph, n) : results'[m] = "done"
    BY <1>1, <1>7 DEF LoopInvariant, Busy, AllPredsOK, Predecessors
<1>11. Passed(results', n)
    BY <1>6, <1>10 DEF Passed
<1>12. ASSUME NEW i \in 1..k
       PROVE  Passed(results', order[i])
  <2>1. CASE i = k
    BY <2>1, <1>11
  <2>2. CASE i # k
    <3>1. i \in 1..(k - 1)
        BY <1>1, <1>2, <2>2
    <3> QED
        BY <3>1, <1>9
  <2> QED
    BY <2>1, <2>2
<1>13. \A i \in (k + 1)..Len(order) : results'[order[i]] = Absent
    BY <1>1, <1>2, <1>6 DEF LoopInvariant, Busy, Listed
<1>14. OnlyNodes(results')
    BY <1>1, <1>2, <1>6 DEF LoopInvariant, Busy, OnlyNodes
<1>15. LoopInvariant(r)'
  <2>1. /\ OnlyNodes(results)'
        /\ (\A i \in 1..(next[r] - 1) : Passed(results, order[i]))'
    BY <1>2, <1>4, <1>12, <1>14 DEF OnlyNodes, Passed
  <2>2. (next[r] \in 1..(Len(order) + 1))'
    BY <1>1, <1>2, <1>4
  <2>3. (\A i \in next[r]..Len(order) :
             results[order[i]] =
               IF pc[r] = "task" /\ i = next[r] THEN "running" ELSE Absent)'
    BY <1>4, <1>13
  <2> QED
    BY <1>4, <2>1, <2>2, <2>3 DEF LoopInvariant
<1>16. ReturnInvariant(r)'
    BY <1>4 DEF ReturnInvariant
<1> QED
    BY <1>3, <1>15, <1>16, OneIsAll

LEMMA MarkRemainingStep ==
    ASSUME OneRun, RunInvariant, NEW r \in Runner, MarkRemaining(r)
    PROVE  RunInvariant'
<1>1. Listed /\ Len(order) \in Nat /\ LoopInvariant(r) /\ ReturnInvariant(r)
    BY DEF RunInvariant, Listed
<1> DEFINE k == next[r]
<1>2. k \in 1..Len(order) /\ cancelled[r] /\ OnlyNodes(results)
    BY <1>1 DEF MarkRemaining, LoopInvariant, Busy
<1>3. TypeOK'
    BY DEF MarkRemaining, Goto, RunInvariant, TypeOK, Results, Status
<1>4. pc'[r] = "copy" /\ returned'[r] = Absent
    BY <1>1 DEF MarkRemaining, Goto, RunInvariant, TypeOK, ReturnInvariant
<1>5. results \in Results /\ results' \in Results
    BY <1>3 DEF RunInvariant, TypeOK
<1>6. \A m \in Node : results[m] \in {"done", "failed", "skipped"} => results'[m] = results[m]
    BY StatusAssumption DEF MarkRemaining, Status
<1>7. \A i \in 1..(k - 1) : Passed(results, order[i]) /\ order[i] \in Node
    BY <1>1, <1>2 DEF MarkRemaining, LoopInvariant, Busy, Listed
<1>8. \A i \in 1..(k - 1) : Passed(results', order[i])
    BY <1>5, <1>6, <1>7, PassedStays
<1>9. \A i \in k..Len(order) : results'[order[i]] = "cancelled"
    BY <1>1, <1>2 DEF MarkRemaining, LoopInvariant, Busy, Listed
<1>10. OnlyNodes(results')
    BY <1>1, <1>2 DEF MarkRemaining, OnlyNodes, Listed, Nodes
<1>11. k - 1 \in 0..Len(order) /\ (k - 1) + 1 = k
    BY <1>1, <1>2
<1>12. Report(results', cancelled[r])
  <2>1. /\ \A i \in 1..(k - 1) : Passed(results', order[i])
        /\ \A i \in ((k - 1) + 1)..Len(order) : results'[order[i]] = "cancelled"
        /\ k - 1 # Len(order) => cancelled[r]
    BY <1>2, <1>8, <1>9, <1>11
  <2> QED
    BY <1>10, <1>11, <2>1 DEF Report
<1>13. LoopInvariant(r)'
    BY <1>4 DEF LoopInvariant, Busy
<1>14. UNCHANGED <<graph, order, cancelled>>
    BY DEF MarkRemaining
<1>15. Report(results, cancelled[r])'
    BY <1>12, <1>14 DEF Report, OnlyNodes, Passed
<1>16. ReturnInvariant(r)'
    BY <1>4, <1>15 DEF ReturnInvariant
<1> QED
    BY <1>3, <1>13, <1>14, <1>16, OneIsAll

LEMMA CopyResultsStep ==
    ASSUME OneRun, RunInvariant, NEW r \in Runner, CopyResults(r)
    PROVE  RunInvariant'
<1> USE DEF CopyResults, Goto
<1>1. Report(results, cancelled[r])
    BY DEF RunInvariant, ReturnInvariant
<1>2. TypeOK'
    BY DEF RunInvariant, TypeOK
<1>3. pc'[r] = "returned" /\ returned'[r] = results
    BY DEF RunInvariant, TypeOK
<1>4. LoopInvariant(r)'
    BY <1>3 DEF LoopInvariant, Busy
<1>5. ReturnInvariant(r)'
    BY <1>1, <1>3 DEF ReturnInvariant, Report, OnlyNodes, Passed
<1> QED
    BY <1>2, <1>4, <1>5, OneIsAll

LEMMA RunNext ==
    ASSUME OneRun, RunInvariant, [Next]_vars
    PROVE  RunInvariant'
<1>1. CASE UNCHANGED vars
    BY <1>1 DEF vars, RunInvariant, TypeOK, Listed, LoopInvariant, ReturnInvariant,
                Report, OnlyNodes, Passed, AllPredsOK
<1>2. CASE Next
    BY <1>2, BeginStep, CancelStep, CheckStep, TestPredsStep, SkipStep, StartStep,
       FinishStep, MarkRemainingStep, CopyResultsStep DEF Next, Run
<1> QED
    BY <1>1, <1>2

(* What Run keeps at every step.                                           *)
LEMMA RunAlways ==
    ASSUME OneRun
    PROVE  Spec => []RunInvariant
<1>1. RunInvariant /\ [Next]_vars => RunInvariant'
    BY RunNext
<1> QED
    BY <1>1, RunInit, PTL DEF Spec

-----------------------------------------------------------------------------
(* From what holds of direct predecessors to what holds of all that a node *)
(* depends on.                                                             *)

(* The nodes that are not done, without n, contain every successor of one  *)
(* of them, so none of them reaches n.                                     *)
LEMMA AncestorsDone ==
    ASSUME NEW res, NEW n \in Node, NEW m \in Node, DependsOn(graph, n, m),
           \A x \in Node : res[x] = "done" =>
               \A p \in Predecessors(graph, x) : res[p] = "done",
           \A p \in Predecessors(graph, n) : res[p] = "done"
    PROVE  res[m] = "done"
<1> SUFFICES ASSUME res[m] # "done" PROVE FALSE
    OBVIOUS
<1> DEFINE S == {x \in Node : res[x] # "done" /\ x # n}
<1>1. Closed(graph, S)
    BY DEF Closed, Predecessors
<1>2. PICK p \in Successors(graph, m) : Reaches(graph, p, n)
    BY DEF DependsOn
<1>3. p \in S
    BY <1>2 DEF Successors, Predecessors
<1> QED
    BY <1>1, <1>2, <1>3, ClosedSeparates

(* Going from a skipped node to a predecessor that is skipped too must end, *)
(* for the graph has no cycle; it ends at a node that failed.              *)
LEMMA FailedAncestor ==
    ASSUME NEW res, NEW n \in Node, res[n] = "skipped", IsDag(graph),
           \A x \in Node : res[x] = "skipped" =>
               \E p \in Predecessors(graph, x) : res[p] \in {"failed", "skipped"}
    PROVE  \E m \in Nodes(graph) : DependsOn(graph, n, m) /\ res[m] = "failed"
<1> DEFINE S == {x \in Node : res[x] = "skipped" /\ Reaches(graph, x, n)}
<1>1. n \in S
    BY ReachesReflexive
<1>2. PICK x \in S : \A p \in S : ~HasEdge(graph, p, x)
    BY <1>1 DEF IsDag, Acyclic
<1>3. PICK p \in Predecessors(graph, x) : res[p] \in {"failed", "skipped"}
    BY <1>2
<1>4. p \in Node /\ HasEdge(graph, p, x)
    BY <1>3 DEF Predecessors
<1>5. Reaches(graph, p, n)
    BY <1>2, <1>4 DEF Reaches, Closed
<1>6. res[p] = "failed"
    BY <1>2, <1>3, <1>4, <1>5
<1>7. DependsOn(graph, n, p) /\ p \in Nodes(graph)
    BY <1>2, <1>4 DEF DependsOn, Successors, IsDag, EndsPresent, Nodes
<1> QED
    BY <1>6, <1>7

(* In a map that may be returned, nodes are related to their predecessors  *)
(* as Passed says, whatever their place in the order.                      *)
LEMMA ReportIsPassed ==
    ASSUME Listed, NEW res, NEW stopped, Report(res, stopped), NEW n \in Node,
           res[n] \in {"done", "failed", "skipped"}
    PROVE  Passed(res, n)
<1>1. PICK k \in 0..Len(order) :
        /\ \A i \in 1..k : Passed(res, order[i])
        /\ \A i \in (k + 1)..Len(order) : res[order[i]] = "cancelled"
    BY DEF Report
<1>2. HasNode(graph, n)
    BY StatusAssumption DEF Report, OnlyNodes, Status
<1>3. PICK i \in 1..Len(order) : order[i] = n
    BY <1>2 DEF Listed, Nodes
<1>4. i \in 1..k \/ i \in (k + 1)..Len(order)
    BY Len(order) \in Nat DEF Listed
<1> QED
    BY <1>1, <1>3, <1>4

(* While the loop is at work what is done is above what is done.           *)
LEMMA DoneAboveDone ==
    ASSUME RunInvariant, NEW r \in Runner, pc[r] \in Busy, NEW n \in Node,
           results[n] = "done"
    PROVE  \A m \in Predecessors(graph, n) : results[m] = "done"
<1>1. Listed /\ LoopInvariant(r) /\ Len(order) \in Nat
    BY DEF RunInvariant, Listed
<1>2. HasNode(graph, n)
    BY <1>1, StatusAssumption DEF LoopInvariant, OnlyNodes, Status
<1>3. PICK i \in 1..Len(order) : order[i] = n
    BY <1>1, <1>2 DEF Listed, Nodes
<1>4. next[r] \in 1..(Len(order) + 1)
    BY <1>1 DEF LoopInvariant
<1>5. ~(i \in next[r]..Len(order))
    BY <1>1, <1>3, StatusAssumption DEF LoopInvariant, Status
<1>6. i \in 1..(next[r] - 1)
    BY <1>1, <1>4, <1>5
<1> QED
    BY <1>1, <1>3, <1>6 DEF LoopInvariant, Passed

-----------------------------------------------------------------------------
(* What the runs check, for every graph.                                   *)

(* The variables keep their types; the loop index of Run never leaves the  *)
(* order by more than one (scheduler.go, Run).                             *)
THEOREM RunTypeCorrect ==
    ASSUME OneRun
    PROVE  Spec => []TypeOK
<1>1. RunInvariant => TypeOK
    BY DEF RunInvariant
<1> QED
    BY <1>1, RunAlways, PTL

(* Run executes a task only above dependencies that are all done, though   *)
(* allPredsOK looks at the direct predecessors only.                       *)
THEOREM TasksWaitForAll ==
    ASSUME OneRun
    PROVE  Spec => []DependenciesDone
<1>1. RunInvariant => DependenciesDone
  <2> SUFFICES ASSUME RunInvariant, NEW r \in Runner, pc[r] = "task",
                      NEW m \in Nodes(graph), DependsOn(graph, order[next[r]], m)
               PROVE  results[m] = "done"
      BY DEF DependenciesDone
  <2>1. Listed /\ LoopInvariant(r) /\ pc[r] \in Busy /\ m \in Node
      BY DEF RunInvariant, Busy, Nodes
  <2>2. order[next[r]] \in Node
      BY <2>1 DEF LoopInvariant, Listed, Nodes
  <2>3. \A p \in Predecessors(graph, order[next[r]]) : results[p] = "done"
      BY <2>1 DEF LoopInvariant, AllPredsOK
  <2>4. \A x \in Node : results[x] = "done" =>
           \A p \in Predecessors(graph, x) : results[p] = "done"
      BY <2>1, DoneAboveDone
  <2> QED
      BY <2>1, <2>2, <2>3, <2>4, AncestorsDone
<1> QED
    BY <1>1, RunAlways, PTL

(* The map Run returns has one final status for every node of the graph    *)
(* and no other key, wherever the context was cancelled.                   *)
THEOREM RunReportsAll ==
    ASSUME OneRun
    PROVE  Spec => []ReportIsComplete
<1>1. RunInvariant => ReportIsComplete
  <2> SUFFICES ASSUME RunInvariant, NEW r \in Runner, returned[r] # Absent, NEW n \in Node
               PROVE  IF HasNode(graph, n)
                      THEN returned[r][n] \in {"done", "failed", "skipped", "cancelled"}
                      ELSE returned[r][n] = Absent
      BY DEF ReportIsComplete
  <2>1. Listed /\ Report(returned[r], cancelled[r])
      BY DEF RunInvariant, ReturnInvariant
  <2>2. CASE ~HasNode(graph, n)
      BY <2>1, <2>2 DEF Report, OnlyNodes
  <2>3. CASE HasNode(graph, n)
    <3>1. PICK k \in 0..Len(order) :
            /\ \A i \in 1..k : Passed(returned[r], order[i])
            /\ \A i \in (k + 1)..Len(order) : returned[r][order[i]] = "cancelled"
        BY <2>1 DEF Report
    <3>2. PICK i \in 1..Len(order) : order[i] = n
        BY <2>1, <2>3 DEF Listed, Nodes
    <3>3. i \in 1..k \/ i \in (k + 1)..Len(order)
        BY <2>1, Len(order) \in Nat DEF Listed
    <3> QED
        BY <2>3, <3>1, <3>2, <3>3 DEF Passed
  <2> QED
      BY <2>2, <2>3
<1> QED
    BY <1>1, RunAlways, PTL

(* In the map Run returns every skipped node depends on one that failed,   *)
(* and every executed node only on nodes that are done.                    *)
THEOREM RunExplainsSkips ==
    ASSUME OneRun
    PROVE  Spec => []SkipsAreExplained
<1>1. RunInvariant => SkipsAreExplained
  <2> SUFFICES ASSUME RunInvariant, NEW r \in Runner, returned[r] # Absent,
                      NEW n \in Nodes(graph)
               PROVE  /\ returned[r][n] = "skipped" =>
                            \E m \in Nodes(graph) :
                                DependsOn(graph, n, m) /\ returned[r][m] = "failed"
                      /\ returned[r][n] \in {"done", "failed"} =>
                            \A m \in Nodes(graph) :
                                DependsOn(graph, n, m) => returned[r][m] = "done"
      BY DEF SkipsAreExplained
  <2>1. Listed /\ IsDag(graph) /\ Report(returned[r], cancelled[r]) /\ n \in Node
      BY DEF RunInvariant, ReturnInvariant, Nodes
  <2>2. \A x \in Node : returned[r][x] \in {"done", "failed", "skipped"} =>
           Passed(returned[r], x)
      BY <2>1, ReportIsPassed
  <2>3. \A x \in Node : returned[r][x] = "skipped" =>
           \E p \in Predecessors(graph, x) : returned[r][p] \in {"failed", "skipped"}
      BY <2>2 DEF Passed
  <2>4. \A x \in Node : returned[r][x] \in {"done", "failed"} =>
           \A p \in Predecessors(graph, x) : returned[r][p] = "done"
      BY <2>2 DEF Passed
  <2>5. returned[r][n] = "skipped" =>
           \E m \in Nodes(graph) : DependsOn(graph, n, m) /\ returned[r][m] = "failed"
      BY <2>1, <2>3, FailedAncestor
  <2>6. ASSUME returned[r][n] \in {"done", "failed"}, NEW m \in Nodes(graph),
               DependsOn(graph, n, m)
        PROVE  returned[r][m] = "done"
      BY <2>1, <2>4, <2>6, AncestorsDone DEF Nodes
  <2> QED
      BY <2>5, <2>6
<1> QED
    BY <1>1, RunAlways, PTL

(* What Run reports as cancelled is the end of the order, and only of a    *)
(* run whose context was cancelled.                                        *)
THEOREM RunCancelsTheRest ==
    ASSUME OneRun
    PROVE  Spec => []CancelledIsSuffix
<1>1. RunInvariant => CancelledIsSuffix
  <2> SUFFICES ASSUME RunInvariant, NEW r \in Runner, returned[r] # Absent,
                      NEW i \in DOMAIN order, returned[r][order[i]] = "cancelled"
               PROVE  /\ cancelled[r]
                      /\ \A j \in i..Len(order) : returned[r][order[j]] = "cancelled"
      BY DEF CancelledIsSuffix
  <2>1. Report(returned[r], cancelled[r]) /\ order \in Seq(Node)
      BY DEF RunInvariant, ReturnInvariant, Listed
  <2>2. Len(order) \in Nat /\ i \in 1..Len(order)
      BY <2>1
  <2>3. PICK k \in 0..Len(order) :
          /\ \A j \in 1..k : Passed(returned[r], order[j])
          /\ \A j \in (k + 1)..Len(order) : returned[r][order[j]] = "cancelled"
          /\ k # Len(order) => cancelled[r]
      BY <2>1 DEF Report
  <2>4. ~(i \in 1..k)
      BY <2>3 DEF Passed
  <2>5. i > k /\ \A j \in i..Len(order) : j \in (k + 1)..Len(order)
      BY <2>2, <2>4
  <2> QED
      BY <2>2, <2>3, <2>5
<1> QED
    BY <1>1, RunAlways, PTL

-----------------------------------------------------------------------------
(* The scheduler implements DagExecution.                                  *)

(* Both specifications speak of the same graphs.                           *)
LEMMA SameExecutions ==
    /\ Execution!Graphs = Graphs
    /\ \A g : Execution!IsDag(g) <=> IsDag(g)
    /\ \A g : Execution!Nodes(g) = Nodes(g)
    /\ \A g, n : Execution!Predecessors(g, n) = Predecessors(g, n)
<1>1. Execution!Graphs = Graphs
    BY DEF Execution!Graphs, Graphs
<1>2. ASSUME NEW g PROVE Execution!IsDag(g) <=> IsDag(g)
    BY DEF Execution!IsDag, IsDag, Execution!Acyclic, Acyclic, Execution!EndsPresent,
        EndsPresent, Execution!HasEdge, HasEdge, Execution!HasNode, HasNode
<1>3. ASSUME NEW g PROVE Execution!Nodes(g) = Nodes(g)
    BY DEF Execution!Nodes, Nodes, Execution!HasNode, HasNode
<1>4. ASSUME NEW g, NEW n PROVE Execution!Predecessors(g, n) = Predecessors(g, n)
    BY DEF Execution!Predecessors, Predecessors, Execution!HasEdge, HasEdge
<1> QED
    BY <1>1, <1>2, <1>3, <1>4

(* The report of the only call of Run.                                     *)
LEMMA OneReport ==
    ASSUME OneRun, NEW r \in Runner
    PROVE  LastReport = returned[r] /\ LastReport' = returned'[r]
<1>1. ASSUME NEW report, \E s \in Runner : report[s] # Absent
      PROVE  (CHOOSE s \in Runner : report[s] # Absent) = r
    BY <1>1 DEF OneRun
<1>2. \A s \in Runner : s = r
    BY DEF OneRun
<1> QED
    BY <1>1, <1>2 DEF LastReport

(* No task runs but the one the loop has reached, and while the loop is at *)
(* its other steps none does.                                              *)
LEMMA NothingRuns ==
    ASSUME RunInvariant, NEW r \in Runner, pc[r] \in Busy \ {"task"},
           NEW n \in Nodes(graph)
    PROVE  results[n] # "running"
<1>1. LoopInvariant(r) /\ Listed /\ Len(order) \in Nat
    BY DEF RunInvariant, Listed
<1>2. PICK i \in 1..Len(order) : order[i] = n
    BY <1>1 DEF Listed
<1>3. next[r] \in 1..(Len(order) + 1)
    BY <1>1 DEF LoopInvariant
<1>4. i \in 1..(next[r] - 1) \/ i \in next[r]..Len(order)
    BY <1>1, <1>3
<1>5. ASSUME i \in 1..(next[r] - 1) PROVE results[n] # "running"
    BY <1>1, <1>2, <1>5 DEF LoopInvariant, Passed
<1>6. ASSUME i \in next[r]..Len(order) PROVE results[n] # "running"
    BY <1>1, <1>2, <1>6, StatusAssumption DEF LoopInvariant, Status
<1> QED
    BY <1>4, <1>5, <1>6

(* The node the loop has reached is a node of the graph that waits.        *)
LEMMA NextWaits ==
    ASSUME RunInvariant, NEW r \in Runner, pc[r] \in {"skip", "start", "task"}
    PROVE  /\ order[next[r]] \in Nodes(graph)
           /\ results[order[next[r]]] = IF pc[r] = "task" THEN "running" ELSE Absent
<1>1. LoopInvariant(r) /\ Listed /\ Len(order) \in Nat
    BY DEF RunInvariant, Listed
<1>2. next[r] \in 1..Len(order) /\ next[r] \in next[r]..Len(order)
    BY <1>1 DEF LoopInvariant, Busy
<1> QED
    BY <1>1, <1>2 DEF LoopInvariant, Busy, Listed

(* A node that is skipped has a predecessor that failed or was skipped.    *)
LEMMA SkipIsExplained ==
    ASSUME RunInvariant, NEW r \in Runner, pc[r] = "skip"
    PROVE  \E m \in Predecessors(graph, order[next[r]]) :
               results[m] \in {"failed", "skipped"}
<1>1. LoopInvariant(r) /\ Listed /\ Len(order) \in Nat
    BY DEF RunInvariant, Listed
<1>2. /\ next[r] \in 1..Len(order)
      /\ \A i \in 1..(next[r] - 1) : Passed(results, order[i])
      /\ ~AllPredsOK(order[next[r]])
    BY <1>1 DEF LoopInvariant, Busy
<1>3. \A m \in Predecessors(graph, order[next[r]]) :
          results[m] \in {"done", "failed", "skipped"}
    BY <1>1, <1>2, PredecessorsPassed
<1> QED
    BY <1>2, <1>3 DEF AllPredsOK

(* The nodes MarkRemaining marks are all that wait.                        *)
LEMMA MarksAllWaiting ==
    ASSUME RunInvariant, NEW r \in Runner, MarkRemaining(r)
    PROVE  results' = [n \in Node |->
               IF n \in Nodes(graph) /\ results[n] = Absent
               THEN "cancelled" ELSE results[n]]
<1>1. LoopInvariant(r) /\ Listed /\ Len(order) \in Nat /\ pc[r] \in Busy
    BY DEF RunInvariant, Listed, MarkRemaining, Busy
<1>2. /\ next[r] \in 1..(Len(order) + 1)
      /\ \A i \in 1..(next[r] - 1) : Passed(results, order[i])
    BY <1>1 DEF LoopInvariant
<1>3. ASSUME NEW n \in Node, results[n] = Absent
      PROVE  n \in Nodes(graph) <=> \E k \in next[r]..Len(order) : order[k] = n
    <2>1. ASSUME n \in Nodes(graph) PROVE \E k \in next[r]..Len(order) : order[k] = n
        <3>1. PICK i \in 1..Len(order) : order[i] = n
            BY <1>1, <2>1 DEF Listed
        <3>2. ~(i \in 1..(next[r] - 1))
            BY <1>2, <1>3, <3>1, StatusAssumption DEF Passed, Status
        <3>3. i \in next[r]..Len(order)
            BY <1>1, <1>2, <3>2
        <3> QED
            BY <3>1, <3>3
    <2>2. ASSUME NEW k \in next[r]..Len(order), order[k] = n PROVE n \in Nodes(graph)
        <3>1. k \in 1..Len(order)
            BY <1>1, <1>2
        <3> QED
            BY <1>1, <2>2, <3>1 DEF Listed
    <2> QED
        BY <2>1, <2>2
<1> QED
    BY <1>3 DEF MarkRemaining

(* What is copied has a final status for every node.                       *)
LEMMA CopiesFinal ==
    ASSUME RunInvariant, NEW r \in Runner, pc[r] = "copy", NEW n \in Nodes(graph)
    PROVE  results[n] \in {"done", "failed", "skipped", "cancelled"}
<1>1. Report(results, cancelled[r]) /\ Listed /\ Len(order) \in Nat
    BY DEF RunInvariant, ReturnInvariant, Listed
<1>2. PICK k \in 0..Len(order) :
        /\ \A i \in 1..k : Passed(results, order[i])
        /\ \A i \in (k + 1)..Len(order) : results[order[i]] = "cancelled"
    BY <1>1 DEF Report
<1>3. PICK i \in 1..Len(order) : order[i] = n
    BY <1>1 DEF Listed
<1>4. i \in 1..k \/ i \in (k + 1)..Len(order)
    BY <1>1
<1> QED
    BY <1>2, <1>3, <1>4 DEF Passed

LEMMA ExecutionInit == Init => Execution!Init
<1> SUFFICES ASSUME Init PROVE Execution!Init
    OBVIOUS
<1>1. graph \in Graphs /\ IsDag(graph)
    BY DagsAssumption DEF Init
<1>2. LastReport = Absent
    BY DEF Init, LastReport
<1>3. results = Execution!Blank
    BY DEF Init, Blank, Execution!Blank
<1> QED
    BY <1>1, <1>2, <1>3, SameExecutions DEF Execution!Init

LEMMA ExecutionStep ==
    ASSUME OneRun
    PROVE  RunInvariant /\ [Next]_vars => [Execution!Next]_(Execution!vars)
<1> SUFFICES ASSUME RunInvariant, [Next]_vars
             PROVE  [Execution!Next]_(Execution!vars)
    OBVIOUS
<1> DEFINE Stays == UNCHANGED <<graph, results, returned>>
<1>1. ASSUME Stays PROVE [Execution!Next]_(Execution!vars)
    BY <1>1 DEF Execution!vars, LastReport
<1>2. CASE UNCHANGED vars
    BY <1>1, <1>2 DEF vars
<1>3. ASSUME NEW r \in Runner, Begin(r) \/ Cancel(r) \/ Run(r)
      PROVE  [Execution!Next]_(Execution!vars)
    <2> DEFINE n == order[next[r]]
    <2>0. /\ LastReport = returned[r] /\ LastReport' = returned'[r]
          /\ results \in Results /\ returned \in [Runner -> Results \cup {Absent}]
        BY OneReport DEF RunInvariant, TypeOK
    <2>1. CASE Begin(r)
        <3>1. results' = Execution!Blank /\ LastReport' = Absent
            BY <2>0, <2>1 DEF Begin, Blank, Execution!Blank
        <3> QED
            BY <2>1, <3>1 DEF Begin, Execution!Next, Execution!Begin
    <2>2. CASE Cancel(r) \/ Check(r) \/ TestPreds(r)
        BY <1>1, <2>2 DEF Cancel, Check, TestPreds
    <2>3. CASE Skip(r)
        <3>1. n \in Nodes(graph) /\ results[n] = Absent
            BY <2>3, NextWaits DEF Skip
        <3>2. \E m \in Predecessors(graph, n) : results[m] \in {"failed", "skipped"}
            BY <2>3, SkipIsExplained DEF Skip
        <3>3. results' = [results EXCEPT ![n] = "skipped"] /\ UNCHANGED <<graph, returned>>
            BY <2>3 DEF Skip, SetResult, Advance
        <3>4. n \in Node /\ Execution!Skip(n)
            BY <2>0, <3>1, <3>2, <3>3, SameExecutions
            DEF Execution!Skip, Execution!Waiting, Nodes
        <3> QED
            BY <3>4 DEF Execution!Next
    <2>4. CASE Start(r)
        <3>1. n \in Nodes(graph) /\ results[n] = Absent
            BY <2>4, NextWaits DEF Start
        <3>2. \A m \in Predecessors(graph, n) : results[m] = "done"
            BY <2>4 DEF Start, RunInvariant, LoopInvariant, Busy, AllPredsOK
        <3>3. \A m \in Nodes(graph) : results[m] # "running"
            BY <2>4, NothingRuns DEF Start, Busy
        <3>4. results' = [results EXCEPT ![n] = "running"] /\ UNCHANGED <<graph, returned>>
            BY <2>4 DEF Start, SetResult
        <3>5. n \in Node /\ Execution!Start(n)
            BY <2>0, <3>1, <3>2, <3>3, <3>4, SameExecutions
            DEF Execution!Start, Execution!Waiting, Execution!Running, Nodes
        <3> QED
            BY <3>5 DEF Execution!Next
    <2>5. CASE Finish(r)
        <3>1. n \in Node /\ results[n] = "running"
            BY <2>5, NextWaits DEF Finish, Nodes
        <3>2. /\ \E s \in {"done", "failed"} : results' = [results EXCEPT ![n] = s]
              /\ UNCHANGED <<graph, returned>>
            BY <2>5 DEF Finish, SetResult, Advance
        <3>3. Execution!Finish(n)
            BY <2>0, <3>1, <3>2 DEF Execution!Finish
        <3> QED
            BY <3>1, <3>3 DEF Execution!Next
    <2>6. CASE MarkRemaining(r)
        <3>1. \A m \in Nodes(graph) : results[m] # "running"
            BY <2>6, NothingRuns DEF MarkRemaining, Busy
        <3>2. /\ results' = [m \in Node |->
                    IF m \in Execution!Waiting THEN "cancelled" ELSE results[m]]
              /\ UNCHANGED <<graph, returned>>
            BY <2>6, MarksAllWaiting, SameExecutions DEF Execution!Waiting, MarkRemaining
        <3>3. Execution!GiveUp
            BY <2>0, <3>1, <3>2, SameExecutions DEF Execution!GiveUp, Execution!Running
        <3> QED
            BY <3>3 DEF Execution!Next
    <2>7. CASE CopyResults(r)
        <3>1. \A m \in Nodes(graph) : results[m] \in Execution!Terminal
            BY <2>7, CopiesFinal DEF CopyResults, Execution!Terminal
        <3>2. LastReport' = results /\ UNCHANGED <<graph, results>>
            BY <2>0, <2>7 DEF CopyResults
        <3>3. Execution!Report
            BY <3>1, <3>2, SameExecutions DEF Execution!Report
        <3> QED
            BY <3>3 DEF Execution!Next
    <2> QED
        BY <1>3, <2>1, <2>2, <2>3, <2>4, <2>5, <2>6, <2>7 DEF Run
<1> QED
    BY <1>2, <1>3 DEF Next

(* With one call at a time Run executes the graph as DagExecution promises: *)
(* one task at a time, each above tasks that are all done, skipping only    *)
(* below a failure, giving up only everything that waits, and reporting    *)
(* only when every node has its final status.                              *)
THEOREM RunImplementsExecution ==
    ASSUME OneRun
    PROVE  Spec => ExecutionSpec
<1>1. Init => Execution!Init
    BY ExecutionInit
<1>2. RunInvariant /\ [Next]_vars => [Execution!Next]_(Execution!vars)
    BY ExecutionStep
<1> QED
    BY <1>1, <1>2, RunAlways, PTL DEF Spec, ExecutionSpec, Execution!Spec
=============================================================================
