----------------------------- MODULE Scheduler -----------------------------
(***************************************************************************)
(* internal/scheduler: Scheduler.Run executes one task per node in the     *)
(* order New computed.  The map `results` belongs to the Scheduler and is  *)
(* shared by every call of Run on it; its mutex is held by resetting,      *)
(* testing the predecessors, writing one result, marking and copying, so   *)
(* each of these is a step and anything may happen between two of them:    *)
(* the context may be cancelled, and another Run may do a step of its own. *)
(***************************************************************************)
EXTENDS Topology

CONSTANTS
    Dags,      \* the graphs a scheduler may be created for
    Runner     \* calls of Run that may overlap

ASSUME DagsAssumption == \A g \in Dags : g \in Graphs /\ IsDag(g)

VARIABLES
    graph,      \* s.g
    order,      \* s.order
    results,    \* s.results, a status or Absent for each node
    pc,         \* the next step of each call of Run
    next,       \* index in order of the node its loop has reached
    cancelled,  \* whether its context is done
    returned    \* the map it returned, Absent before

vars == <<graph, order, results, pc, next, cancelled, returned>>
call == <<pc, next, cancelled, returned>>

Status == {"running", "done", "failed", "skipped", "cancelled"}

ASSUME StatusAssumption == Absent \notin Status

Results == [Node -> Status \cup {Absent}]
Blank == [n \in Node |-> Absent]

Init ==
    /\ graph \in Dags
    /\ order \in TopoOrders(graph)
    /\ results = Blank
    /\ pc = [r \in Runner |-> "idle"]
    /\ next = [r \in Runner |-> 0]
    /\ cancelled = [r \in Runner |-> FALSE]
    /\ returned = [r \in Runner |-> Absent]

Goto(r, step) == pc' = [pc EXCEPT ![r] = step]

SetResult(n, s) == results' = [results EXCEPT ![n] = s]

Advance(r) ==
    /\ next' = [next EXCEPT ![r] = @ + 1]
    /\ Goto(r, "check")
    /\ UNCHANGED <<graph, order, cancelled, returned>>

BeginKeepsResults(r) ==
    /\ pc[r] \in {"idle", "returned"}
    /\ Goto(r, "check")
    /\ next' = [next EXCEPT ![r] = 1]
    /\ \E done \in BOOLEAN : cancelled' = [cancelled EXCEPT ![r] = done]
    /\ returned' = [returned EXCEPT ![r] = Absent]
    /\ UNCHANGED <<graph, order, results>>

(* A call of Run, with a context that may be done already.                 *)
Begin(r) ==
    /\ pc[r] \in {"idle", "returned"}
    /\ results' = Blank
    /\ Goto(r, "check")
    /\ next' = [next EXCEPT ![r] = 1]
    /\ \E done \in BOOLEAN : cancelled' = [cancelled EXCEPT ![r] = done]
    /\ returned' = [returned EXCEPT ![r] = Absent]
    /\ UNCHANGED <<graph, order>>

Cancel(r) ==
    /\ pc[r] \notin {"idle", "returned"}
    /\ ~cancelled[r]
    /\ cancelled' = [cancelled EXCEPT ![r] = TRUE]
    /\ UNCHANGED <<graph, order, results, pc, next, returned>>

(* The head of the loop; ctx.Done() is looked at here and nowhere else.    *)
Check(r) ==
    /\ pc[r] = "check"
    /\ Goto(r, CASE next[r] > Len(order) -> "copy"
                 [] next[r] <= Len(order) /\ cancelled[r] -> "mark"
                 [] OTHER -> "preds")
    /\ UNCHANGED <<graph, order, results, next, cancelled, returned>>

AllPredsNotFailed(n) == \A m \in Predecessors(graph, n) : results[m] # "failed"

AllPredsOK(n) == \A m \in Predecessors(graph, n) : results[m] = "done"

TestPreds(r) ==
    /\ pc[r] = "preds"
    /\ Goto(r, IF AllPredsOK(order[next[r]]) THEN "start" ELSE "skip")
    /\ UNCHANGED <<graph, order, results, next, cancelled, returned>>

SkipPending(r) ==
    /\ pc[r] = "skip"
    /\ SetResult(order[next[r]], "pending")
    /\ Advance(r)

SkipStays(r) ==
    /\ pc[r] = "skip"
    /\ SetResult(order[next[r]], "skipped")
    /\ Goto(r, "check")
    /\ UNCHANGED <<graph, order, next, cancelled, returned>>

Skip(r) ==
    /\ pc[r] = "skip"
    /\ SetResult(order[next[r]], "skipped")
    /\ Advance(r)

Start(r) ==
    /\ pc[r] = "start"
    /\ SetResult(order[next[r]], "running")
    /\ Goto(r, "task")
    /\ UNCHANGED <<graph, order, next, cancelled, returned>>

(* The task function returns, with an error or without.                    *)
Finish(r) ==
    /\ pc[r] = "task"
    /\ \E s \in {"done", "failed"} : SetResult(order[next[r]], s)
    /\ Advance(r)

MarkAfter(r) ==
    /\ pc[r] = "mark"
    /\ results' = [n \in Node |->
         IF results[n] = Absent /\ \E k \in (next[r] + 1)..Len(order) : order[k] = n
         THEN "cancelled" ELSE results[n]]
    /\ Goto(r, "copy")
    /\ UNCHANGED <<graph, order, next, cancelled, returned>>

MarkOne(r) ==
    /\ pc[r] = "mark"
    /\ SetResult(order[next[r]], "cancelled")
    /\ Goto(r, "copy")
    /\ UNCHANGED <<graph, order, next, cancelled, returned>>

MarkRemaining(r) ==
    /\ pc[r] = "mark"
    /\ results' = [n \in Node |->
         IF results[n] = Absent /\ \E k \in next[r]..Len(order) : order[k] = n
         THEN "cancelled" ELSE results[n]]
    /\ Goto(r, "copy")
    /\ UNCHANGED <<graph, order, next, cancelled, returned>>

CopyResults(r) ==
    /\ pc[r] = "copy"
    /\ returned' = [returned EXCEPT ![r] = results]
    /\ Goto(r, "returned")
    /\ UNCHANGED <<graph, order, results, next, cancelled>>

Run(r) ==
    \/ Check(r) \/ TestPreds(r) \/ Skip(r) \/ Start(r) \/ Finish(r)
    \/ MarkRemaining(r) \/ CopyResults(r)

Next == \E r \in Runner : Begin(r) \/ Cancel(r) \/ Run(r)

Spec == Init /\ [][Next]_vars

(* A call of Run keeps going, its tasks return; nobody has to cancel it.   *)
FairSpec == Spec /\ \A r \in Runner : WF_vars(Run(r))

-----------------------------------------------------------------------------
TypeOK ==
    /\ graph \in Graphs
    /\ IsTopoOrder(graph, order)
    /\ results \in Results
    /\ pc \in [Runner -> {"idle", "check", "preds", "skip", "start", "task",
                          "mark", "copy", "returned"}]
    /\ next \in [Runner -> 0..(Len(order) + 1)]
    /\ cancelled \in [Runner -> BOOLEAN]
    /\ returned \in [Runner -> Results \cup {Absent}]

(* While a task executes, everything it depends on, directly or not, is    *)
(* done, although Run tests the direct predecessors only.                  *)
DependenciesDone ==
    \A r \in Runner : pc[r] = "task" =>
        \A m \in Nodes(graph) :
            DependsOn(graph, order[next[r]], m) => results[m] = "done"

(* The map Run returns has a final status for every node and nothing else, *)
(* even if the context was cancelled while a task was executing.           *)
ReportIsComplete ==
    \A r \in Runner : returned[r] # Absent =>
        \A n \in Node :
            IF HasNode(graph, n)
            THEN returned[r][n] \in {"done", "failed", "skipped", "cancelled"}
            ELSE returned[r][n] = Absent

(* In the map Run returns a node is skipped exactly when it was reached    *)
(* and something it depends on failed, and a node whose task was executed  *)
(* depends on nothing that was not done.                                   *)
SkipsAreExplained ==
    \A r \in Runner : returned[r] # Absent =>
        \A n \in Nodes(graph) :
            LET ancestors == {m \in Nodes(graph) : DependsOn(graph, n, m)}
            IN  /\ returned[r][n] = "skipped" =>
                     \E m \in ancestors : returned[r][m] = "failed"
                /\ returned[r][n] \in {"done", "failed"} =>
                     \A m \in ancestors : returned[r][m] = "done"

(* What cancellation gives up is the end of the order, and it gives up      *)
(* something only if the context was cancelled.                            *)
CancelledIsSuffix ==
    \A r \in Runner : returned[r] # Absent =>
        \A i \in DOMAIN order : returned[r][order[i]] = "cancelled" =>
            /\ cancelled[r]
            /\ \A j \in i..Len(order) : returned[r][order[j]] = "cancelled"

(* How calls of Run that do not overlap implement the execution of one     *)
(* graph: its report is the map the last call returned.                    *)
LastReport ==
    IF \E r \in Runner : returned[r] # Absent
    THEN returned[CHOOSE r \in Runner : returned[r] # Absent]
    ELSE Absent

Execution == INSTANCE DagExecution WITH
    status <- results,
    report <- LastReport

(* With one call at a time the scheduler executes the graph as specified.   *)
ExecutionSpec == Execution!Spec

(* Every call of Run returns.                                              *)
RunReturns == \A r \in Runner : pc[r] = "check" ~> pc[r] = "returned"
=============================================================================
