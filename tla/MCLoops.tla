------------------------------ MODULE MCLoops ------------------------------
(* The loops of the program, side by side: the search behind the cycle     *)
(* test, the topological sort, the walks of the impact queries, the loops  *)
(* of the priority order, and the reader and the writer of the text        *)
(* format.  Each behaviour runs one of them on one input while the others  *)
(* have finished with nothing to do.                                       *)
EXTENDS ReachesSearch, TopoSort, Impact, PriorityOrder, SpecReader, SpecWriter, MCInputs

loopsVars == <<searchVars, vars, walkVars, planVars, readerVars, writerVars>>

(* The graphs on ns, all nodes and edges alike, with cycles and self-loops *)
(* among the nodes of es.                                                  *)
Plain(ns, es) == {G(ns, links) : links \in SUBSET (es \X es)}

GraphsOver3 == Plain(Node, {1, 2, 3})

Unattributed == \E ns \in SUBSET Node : \E links \in SUBSET (ns \X ns) : graph = G(ns, links)

(* Node 4 is unknown to the graphs asked about.                            *)
Queries ==
    [kind : {"impact", "common"}, graph : Plain({1, 2, 3}, {1, 2, 3}),
     ids : {<<>>, <<1>>, <<3, 2>>, <<2, 2>>, <<1, 4>>}]

SearchOver ==
    /\ searched = EmptyGraph /\ from = 1 /\ target = 2
    /\ seen = {} /\ stack = <<>> /\ answer = "no"

SortOver ==
    /\ graph = EmptyGraph /\ indeg = [n \in Node |-> 0]
    /\ visited = {} /\ order = <<>> /\ outcome = "sorted"

WalkOver ==
    /\ call = [kind |-> "impact", graph |-> EmptyGraph, ids |-> <<>>] /\ left = <<>>
    /\ frames = <<>> /\ res = {} /\ found = {} /\ pc = "answered"

(* Every acyclic graph, and some that are not.                             *)
Prioritized == [graph : AllDags \cup Plain({1, 2}, {1, 2}), strategy : Strategies]

PlanOver ==
    /\ plan = [graph |-> G({1}, {<<1, 1>>}), strategy |-> "alphabetic"]
    /\ listed = <<>> /\ level = [n \in Node |-> 0] /\ groups = <<>>
    /\ joined = <<>> /\ turns = 0 /\ stage = "cycle"

ReaderOver ==
    /\ text = <<>> /\ at = 1 /\ word = 0 /\ attr = NoAttr
    /\ built = EmptyGraph /\ verdict = "accepted"

WriterOver ==
    /\ source = EmptyGraph /\ names = <<>> /\ targets = <<>> /\ group = {} /\ lines = <<>>

LoopsInit ==
    \/ SearchInit /\ SortOver /\ WalkOver /\ PlanOver /\ ReaderOver /\ WriterOver
    \/ SearchOver /\ Unattributed /\ Init /\ WalkOver /\ PlanOver /\ ReaderOver /\ WriterOver
    \/ SearchOver /\ SortOver /\ WalkInit /\ PlanOver /\ ReaderOver /\ WriterOver
    \/ SearchOver /\ SortOver /\ WalkOver /\ PlanInit /\ ReaderOver /\ WriterOver
    \/ SearchOver /\ SortOver /\ WalkOver /\ PlanOver /\ ReaderInit /\ WriterOver
    \/ SearchOver /\ SortOver /\ WalkOver /\ PlanOver /\ ReaderOver /\ WriterInit

LoopsNext ==
    \/ /\ Pop \/ Exhausted
       /\ UNCHANGED <<vars, walkVars, planVars, readerVars, writerVars>>
    \/ /\ List \/ Stuck \/ Sorted
       /\ UNCHANGED <<searchVars, walkVars, planVars, readerVars, writerVars>>
    \/ /\ Begin \/ Refuse \/ Mark \/ Return \/ Join \/ Reply
       /\ UNCHANGED <<searchVars, vars, planVars, readerVars, writerVars>>
    \/ /\ \/ RefuseCycle \/ TakeOrder \/ Level \/ MakeGroups \/ Group \/ BeginSort
          \/ SortGroup \/ BeginJoin \/ JoinGroup \/ Ordered
       /\ UNCHANGED <<searchVars, vars, walkVars, readerVars, writerVars>>
    \/ /\ \/ SkipLine \/ RefuseLine \/ BeginAttr \/ TakePair \/ RefusePair \/ EndAttr
          \/ BeginDep \/ SkipDep \/ TakeDep \/ RefuseDep \/ EndDep \/ Accept
       /\ UNCHANGED <<searchVars, vars, walkVars, planVars, writerVars>>
    \/ /\ WriteAttr \/ TakeTarget \/ WriteDeps
       /\ UNCHANGED <<searchVars, vars, walkVars, planVars, readerVars>>

LoopsSpec == LoopsInit /\ [][LoopsNext]_loopsVars /\ WF_loopsVars(LoopsNext)

(* Every loop comes to its end, on cycles too: the search and the walks    *)
(* answer, the sort and the priority order return, a text is accepted or   *)
(* refused, and the writer finishes.                                       *)
AllTerminate ==
    <>(SearchEnded /\ SortEnded /\ WalkEnded /\ PlanEnded /\ ReaderEnded /\ WriterDone)
=============================================================================
