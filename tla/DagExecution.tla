---------------------------- MODULE DagExecution ----------------------------
(***************************************************************************)
(* What internal/scheduler promises: the tasks of a graph are executed one  *)
(* at a time, in some order that respects the dependencies.  A task starts *)
(* only when everything it depends on is done, is skipped only when one of *)
(* its dependencies failed or was skipped, and cancellation gives up all   *)
(* the tasks that have no status yet.  The report is made when every task  *)
(* has its final status.                                                   *)
(***************************************************************************)
EXTENDS LineageGraph

VARIABLES
    graph,      \* the graph of dependencies
    status,     \* of each node; Absent: waiting, or not a node
    report      \* the map Run returned, Absent while it runs

vars == <<graph, status, report>>

Terminal == {"done", "failed", "skipped", "cancelled"}
Waiting == {n \in Nodes(graph) : status[n] = Absent}
Blank == [n \in Node |-> Absent]

Init ==
    /\ graph \in Graphs
    /\ IsDag(graph)
    /\ status = Blank
    /\ report = Absent

Begin ==
    /\ status' = Blank
    /\ report' = Absent
    /\ UNCHANGED graph

Running == {n \in Nodes(graph) : status[n] = "running"}

Start(n) ==
    /\ n \in Waiting
    /\ Running = {}
    /\ \A m \in Predecessors(graph, n) : status[m] = "done"
    /\ status' = [status EXCEPT ![n] = "running"]
    /\ UNCHANGED <<graph, report>>

Finish(n) ==
    /\ status[n] = "running"
    /\ \E s \in {"done", "failed"} : status' = [status EXCEPT ![n] = s]
    /\ UNCHANGED <<graph, report>>

Skip(n) ==
    /\ n \in Waiting
    /\ \E m \in Predecessors(graph, n) : status[m] \in {"failed", "skipped"}
    /\ status' = [status EXCEPT ![n] = "skipped"]
    /\ UNCHANGED <<graph, report>>

GiveUp ==
    /\ Running = {}
    /\ status' = [n \in Node |-> IF n \in Waiting THEN "cancelled" ELSE status[n]]
    /\ UNCHANGED <<graph, report>>

Report ==
    /\ \A n \in Nodes(graph) : status[n] \in Terminal
    /\ report' = status
    /\ UNCHANGED <<graph, status>>

Next ==
    \/ Begin \/ GiveUp \/ Report
    \/ \E n \in Node : Start(n) \/ Finish(n) \/ Skip(n)

Spec == Init /\ [][Next]_vars
=============================================================================
