# Verification of etl-lineage

TLA+ models of etl-lineage, the configurations that model-check them with TLC,
and theorems about them whose proofs TLAPS checks. Every module is translated
from the Go source; `PROJECT.json` gives, for each definition, the lines it
stands for.

    tlc -config Store.cfg MCStore.tla      # any of the runs below
    tlapm StoreProofs.tla                  # any of the proof modules

## 1. The system

etl-lineage keeps a directed acyclic graph of data tables. `graph` is the
value everything else works on; `parse` builds one from a text, `store` keeps
one on disk, `scheduler` executes one, `diff` compares and merges two, and the
other packages ask questions of one. `main` and `server` dispatch to them.
There are three places with concurrency or failure: `store` (a mutex, files,
crashes), `scheduler` (a mutex, a context that may be cancelled, tasks that
fail) and the saving of a `column` map (files, crashes). A further source of
nondeterminism is everywhere: Go iterates maps in random order.

| Component | State | Operations | What is hard | What makes it correct |
|---|---|---|---|---|
| `graph` | `nodes`, `edges`, `nodeOrder` | AddNode, AddNodeWithAttr, SetNodeAttr, AddEdgeWithAttr, RemoveEdge, RemoveNode, Clone, SubGraph, MarshalJSON, UnmarshalJSON, TopoSort, `reaches` | `nodeOrder` is a second record of the node set, kept in four places; copies insert edges in random order and drop errors; UnmarshalJSON checks little | always a DAG; `nodeOrder` lists the nodes; copies are faithful; a document reads back; the cycle test decides reachability; TopoSort finds an order or a cycle |
| `store` | `g`, `snapshot.json`, `wal.log`, `walFd`, `walSize` | Open and replay, AddNode, SetNodeAttr, AddEdge, RemoveEdge, RemoveNode, Compact, LoadSnapshot, Snapshot, Graph, Close | a death or a failing system call between any two system calls; replay on a newer snapshot; AddNode logs first, the others apply first | readers see what the files stand for; recovery never gives a cyclic graph; the log is cut last; the store comes back |
| `scheduler` | `graph`, `results` | New, Run, the result counters | cancellation between any two steps, failing tasks, overlapping calls, only direct predecessors are tested | nothing runs before its dependencies are done; a complete report; Run returns |
| `scheduler` priorities | none | PrioritizedOrder (four strategies), EstimateCriticalPathLength | levels computed in one pass, nodes regrouped | the order can be executed; the strategy decides within a level |
| `diff` | none; MergeResult under construction | Compare, Merge, ThreeWayMerge | edges of both sides inserted in random order may close cycles; shortcuts skip conflict detection | the result is a DAG; nothing is lost silently |
| `lineage`, `impact` | none | Upstream, Downstream, BatchImpact, Distance, AllPaths, LongestPath, CriticalPath, LayerOrder, CommonAncestors | three traversals of one graph that must agree; caps on paths | each equals its definition on the graph |
| `column` | the mappings and two indexes over them; a file | Add, SourcesOf, TargetsOf, transitive traces, Tables, ColumnsOfTable, Save, Load, MergeLineageMaps | index keys joined with a dot, so fields may share one; the indexes hold positions; the file is replaced by way of a temporary one | both indexes list exactly the mappings of a key; a merge loses nothing; the file is one whole saved map; traces are reachability and agree in both directions |
| `parse` | the graph under construction | ParseSpec, FormatSpec | lines in any order, later ones overriding; transforms written in random order; a limit on the length of a line | a text is accepted exactly when it declares a DAG; a formatted graph parses back or is refused |
| `policy`, `validate`, `metrics` | none | rules, checks, measures and health over one graph | thresholds, empty and cyclic graphs; tables kept twice | the parts do not contradict each other |
| `report` | none | JSON report, impact summary, statistics, owners, matrix; DOT and text | several computations side by side | each part is right about the graph |
| `export` | none | writers | text only | |
| `server` | none | four POST routes and a health route | text and ids of a request need not fit together | refuses before it computes; answers as the command line does |
| `main` | none | commands on a spec; `store` subcommands, each a process of its own | `store load` ignores the errors of AddNode and AddEdge and keeps no record of its progress | a load run again until it succeeds leaves what one load would |

### How the components interact

All calls are synchronous. `store` owns its graph and hands out clones
(`Store.Graph`), so a reader can never change it; all of its calls hold one
mutex from the first line to the last. `scheduler` takes the topological order
once, in `New`, and reads the predecessors from the caller's graph during
`Run`; its mutex is held only for single reads and writes of `results`. `diff`,
`lineage`, `impact` and the rest only read graphs, and `Merge` builds a new one
through the ordinary mutators. `server` and `main` parse a text of their own for
every request, so two requests share nothing; the `store` subcommands share the
directory, one process after another. `graph` itself has no lock: its callers
serialise access.

## 2. The modules

Component modules (operators marked *pure* have no state):

| Module | Code | Extends |
|---|---|---|
| `LineageGraph` | *pure*: the graph as a value, the effect of each mutator, `Reaches`, `Acyclic` | |
| `Topology` | *pure*: what TopoSort promises | `LineageGraph` |
| `Graph` | `internal/graph`, the object: mutators, copies, documents | `LineageGraph` |
| `ReachesSearch` | the loop of `reaches` | `LineageGraph` |
| `TopoSort` | the loop of `TopoSort` | `Topology` |
| `Impact` | Upstream, Downstream, BatchImpact, CommonAncestors, Impact: the walks call by call | `Topology` |
| `Store` | `internal/store`, one step per system call | `LineageGraph` |
| `DurableGraph` | abstract specification of `Store` | `LineageGraph` |
| `StoreCommand` | `runStore` of `main.go` as processes over `Store` | `Store` |
| `Scheduler` | `Scheduler.Run`, one step per critical section | `Topology` |
| `DagExecution` | abstract specification of `Scheduler` | `LineageGraph` |
| `Merge` | `internal/diff` | `LineageGraph` |
| `Lineage` | *pure*: `internal/lineage` | `Topology` |
| `Priority` | *pure*: `scheduler/priority.go`, the keys of the strategies and the estimate | `Topology` |
| `PriorityOrder` | the loops of PrioritizedOrder, turn by turn | `Priority` |
| `Metrics` | *pure*: `internal/metrics`, Compute | `Lineage` |
| `Queries` | one call of `lineage`, `priority.go` or `metrics` per action | `Lineage`, `Priority`, `Metrics` |
| `SpecFormat` | *pure*: the text format of `internal/parse` and what a text says | `Topology` |
| `SpecReader` | the loop of ParseSpec, word by word | `SpecFormat` |
| `SpecWriter` | the loops of FormatSpec, line by line | `SpecFormat` |
| `Checks` | *pure*: `internal/validate`, `internal/policy`, CheckHealth, `internal/report` | `Metrics` |
| `Console` | the routes of `server` and the commands of `main.go` that read a spec | `Queries`, `SpecFormat`, `Checks` |
| `Column` | `internal/column`: a map, its loads, merges and saves | |
| `ColumnTrace` | the transitive traces call by call, and the tables of a map | `Column` |

`MCx` gives module `x` its instances for TLC; `MCLoops` runs `ReachesSearch`,
`TopoSort`, `Impact`, `PriorityOrder`, `SpecReader` and `SpecWriter`, `MCQueries`
runs `Console`,
`MCColumn` runs `ColumnTrace`, and `MCInputs` has the graphs and texts that the
first two share. `xProofs` holds theorems: `LineageGraphProofs` (the values and
mutators), `GraphProofs`, `LoopProofs` (the four loops over a graph),
`StoreProofs` (with `StoreCommand`), `MergeProofs`, `SchedulerProofs`,
`ColumnProofs` and `SpecProofs` (reader and writer).

### The graph as a value

A graph is a pair of functions, `attr` (node to attribute, `Absent` when the
node is not there) and `edge` (node to node to attribute). Ids, node attributes
and edge attributes are values of three sets; that ids compare as strings
matters only where the code sorts, and there they are numbers. `NoAttr` and
`Direct` are the zero `NodeAttr` and the `{Transform: "direct"}` of AddEdge.

`Reaches` and `Acyclic` are stated with closed sets instead of the search the
code runs: `n` is reached from `m` when it lies in every set that contains `m`
and is closed under the edges, and a graph is acyclic when every non-empty set
of nodes has a member without predecessor in the set. They are right for
infinite sets and provable without induction. `ReachesSearch`, `TopoSort` and
`Impact` model the code's own loops and tie them to these definitions, so the
other modules may use the definitions.

`EdgeAllowed`, `PutEdge` etc. are guard and effect of one mutator. They are
shared by `Graph`, `Store` and `Merge`, as the Go methods are.

### `Graph`

`graph` stands for the maps `nodes` and `edges`, `nodeOrder` for the slice of
that name. Each exported mutator is an action whose guard is its early
return. UnmarshalJSON appends ids without testing for repetition and stores
edges without a cycle test; at the first edge with an end that is not listed it
returns an error and keeps what it has stored so far (`Loaded`). Clone and
SubGraph are two loops. The node loop takes one step per id of `ids`
(`CopyNode`); an id the graph does not have is passed over by SubGraph and
dereferenced by Clone (`UnknownNode`), and the state `panicked` this leads to
has no successor, so TLC's deadlock check reports it. The edge loop inserts one
edge of `todo` per step, in any order (`CopyEdge`), through the same guard as
AddEdgeWithAttr and dropping its error, as the code does. `asked` is a ghost:
the nodes the caller wants in the copy. `Ascending` is what sort.Strings and
sort.Slice return, stated as a choice.

### `Store`

`mem` is `s.g`, `snap` and `wal` are the files, `fd` is `walFd`. The operations
hold `Store.mu` throughout, so they do not interleave with each other and the
steps of one operation are those between which the process can die or a system
call can fail: `append` and `sync` (appendWAL), `rename` and `truncate`
(Compact), `snapwrite`, `snapfill` and `truncate` (LoadSnapshot), `replay`
(Open). `pc` names the next one. A record that does not decode is `Torn`; so is
an emptied snapshot. AddNode logs before it changes the graph, the other four
after, and this is visible in every intermediate state.

Two constants say what goes wrong: `Faults`, the system calls that may fail,
and `CrashAt`, the steps at which the process may die. A failing write may
leave nothing, a fragment or the whole record. `Compact` writes its temporary
file in one step with its request: nobody reads that file, and a failure
writing it only ends the call, which is a stutter.

`history` is a ghost: the graphs that the snapshot and each longer beginning of
the log stand for. `Logged`, its last element, is what the next Open would
recover if nothing went wrong.

`DurableGraph` is what the store promises: one graph, changed by one request at
a time, at once or not at all; the process may go down at any point and, when
it is back, a request that was in progress took place or did not. Its variables
are `durable`, `shown` (what readers see) and `status`. The refinement maps
`durable` to `Logged`, `shown` to `mem` when the store is idle, and `status` to
the progress of the request. The commit point is the write of the record for
the five operations and the fill of the snapshot for LoadSnapshot.

### `StoreCommand`

A subcommand of `store` is a process that opens the directory, makes its
requests of `Store` and closes it. `todo` holds the requests it has still to
make: for `load` one for every node and every edge of the spec, in the order
Nodes() and Edges() list them, then Compact. A request the store answers
without touching a file is passed over (`PassOver`), because `load` drops the
error; an error of Compact is the command's (`answer`). Every step inside a
request is a step of `Store`, so a load may die at any of them. `edit` stands
for a program that imports the package and changes the store between two
commands. `base` is a ghost, the graph stored when the spec was first tried.
`LoadStates` are the graphs an uninterrupted load goes through, one per request.

### `Scheduler`

`Runner` are the concurrent calls of `Run` on one `Scheduler`; `results` is the
map they share. Each critical section of `Scheduler.mu` and each test of the
context is a step. `Begin` allows a context that is cancelled already; `Cancel`
may happen at any step, and a later call may follow an earlier one. A task is
one step that ends with or without an error. `DagExecution` is the promise:
tasks start only when all they depend on is done, are skipped only because of a
failed or skipped dependency, and the report is made when every task has its
final status. `returned` is the map `Run` gave back.

### `Merge`

The node loop is one step (theirs wins, every difference reported; the order of
nodes decides nothing). The edge loop is one step per edge in any order,
because the map of edges is iterated in random order and rejection depends on
what is there already. ThreeWayMerge's two shortcuts are `AdoptTheirs` and
`AdoptOurs`. An edge attribute is a value with a `Transform` of its own, so
that two attributes may differ in the comment alone. `Compare` is an operator
with the same six parts as the code.

### `Column`, `ColumnTrace`

`lm` is the map a program holds. Add is one step; LoadLineageMap and
MergeLineageMaps build `result` one mapping per step, through the same Add.
SaveLineageMap is one step per system call: the temporary file is emptied,
filled, renamed, and removed when the rename failed; the program may die, and a
call fail, at each of them, and the files survive. `KeyOf` is
FieldRef.String(): two fields may have one key, and the model keeps the code's
behaviour for them. `ColumnTrace` adds TransitiveSourcesOf and
TransitiveTargetsOf: while a program is between two calls that change its map it
asks for a trace (`asked`), and each recursive call of the closure `walk` is one
of `frames`, with its field and its place in the list that SourcesOf or
TargetsOf returned. `res` is both the result and, by its keys, the set `visited`
of the code; the start is not in it until a mapping leads back to it.

### `SpecFormat`, `SpecReader`, `SpecWriter`

A text is a sequence of lines, a line what the parser's splitting makes of it:
the target, the bracket and the dependencies, or the node and the pairs of a
directive. `SpecReader` is the loop of ParseSpec: `at` is the line, `word` the
word of it that comes next, `built` the graph under construction and `attr` the
attribute that parseAttrDirective puts together before it sets it. A word that
names a dependency adds its node and its edge through the guard of
AddEdgeWithAttr (`TakeDep`); every refusal is a step to `refused`, the scanner's
limit on a line (`LineCap`) and the bracket that is not closed included.

`SpecWriter` is FormatSpec: a directive for every node with attributes, then the
targets in topological order, or in that of Nodes() when there is a cycle. The
lines of one target are a set (`group`) of which any is written next, because
they come from the random order of a map.

What a text says is defined apart from the loop: `Says` reads a set of places all
at once, the last place on an edge or an attribute deciding, and a text is
`Legal` when each line is well formed and the edges declared have no cycle.
`ParseSpec(text)` is the answer this gives; `SpecReader` is shown to compute it,
so that `SpecWriter` and `Console` may use it.

### `Checks`, `Console`

`Checks` has the issues of `validate`, the violations of the rule engine, the
health report with exact fractions, and the summaries of `report`. `Console`
answers one request of the server, one command, or one verdict on a graph per
behaviour; its properties speak of the declared graph.

### `Impact`

A call walks from one id after the other. The recursive closure `dfs` is a stack
of `frames`, one for each call that has not returned, with the neighbours it has
still to look at; one step is one turn of its loop (`Mark`) or a return. The
graph may have cycles, because documents may bring them in, so a walk may mark
its own start, which is taken out afterwards (`Walked`). `Join` adds a walk to
the union or intersects it with the common part, and the batch loses the ids
asked about (`Reply`). An unknown id ends the call (`Refuse`).

### `Lineage`, `Priority`, `Metrics`, `Queries`

The queries are operators that follow the code's algorithm: `Bfs` layer by
layer, `PathsFrom` in depth-first order with its cap, `LongestPath` and
`LayerOrder` along the topological order, `DownstreamDepth` and `FanOut` as the
recursions they are, `Compute` with the measures of metrics, quotients and
coupling left out.
`Upstream`, `Downstream` and `BatchImpact` are what the walks of `Impact` return.
`Queries` makes one call per behaviour and keeps its answer; its
invariants compare the answer with a definition that does not follow the
algorithm (`Reaches`, the set of all paths, the longest of them).

### `PriorityOrder`

One call of PrioritizedOrder: TopoSort's order or its error (`TakeOrder`,
`RefuseCycle`; its loop is in `TopoSort`), then one loop after the other, one
step per turn. `Level` is a turn of computeLevels over the map `level`, `Group` a
turn of the loop that appends each node to the group of its level, `SortGroup`
replaces a group by its listing in the order of the strategy, and `JoinGroup`
appends a group to the result. The inner loop over the predecessors of a node is
a maximum (`Above`), and of `sort.Slice` only the result is modelled: keys are
compared first and then ids, so a group has one sorted listing (`Arranged`).

## 3. The runs

All cfgs leave symmetry off: in most runs ids are ordered, in the others the
graphs are few.

| Run | Question | Instance and why it is enough |
|---|---|---|
| `graph` | Does any sequence of calls keep the object a DAG, `nodeOrder` in step, copies faithful, documents readable? | Three nodes, two node attributes, two edge attributes, two hand-written documents and every document MarshalJSON writes. Three nodes are the least with a cycle that no single edge pair shows; the two documents hold an edge listed twice, an edge to an unlisted node after one that is stored, and unsorted nodes. `MaxIds` 2 bounds the list given to SubGraph (repeated and unknown ids included). |
| `loops` | Does the search decide reachability, does the sort find the order or a cycle, do the walks find what is on a path, can the priority orders be executed, does the parser accept exactly the legal texts and read back what the writer writes, and do all end? | For the search every graph with edges among three of the four nodes, cycles and self-loops included (512), every source and target, every order of the map iteration; for the sort every graph on the four nodes or any of them, cycles and self-loops included; for the walks every graph on three nodes, and lists of no id, one id, two ids, one id twice, and an unknown id behind a known one; for the priority order every DAG on four nodes and on three of them, every graph on two nodes, which may have cycles, and every strategy; for the reader every text of three good lines and of up to two lines good or bad, in every order; for the writer attributed graphs on three nodes, cyclic ones and transforms that are none included, and fan-ins of three on four nodes, which exceed `LineCap` 2 with one transform and meet it with two. 368,015 states. |
| `store` | Is the store one durable graph, and does it come back? | Two nodes, all attributes, every operation; the process dies at every step but `snapfill` and `truncate`; renames fail. `MaxWal` 2 bounds the log. |
| `store_load` | What does `store load` leave when commands and processes die? | Three nodes, two graphs to start from and two specs, one of which closes cycles with the stored graph while the other gives an edge of it another transform; up to three commands (an edit counts twice), each dying at any step, the window between rename and truncation included; renames fail. An edit adds nodes and edges, sets attributes and compacts; it removes nothing, because with removals the defect of section 5 shows. `MaxEdits` 2 bounds what an edit logs, `MaxWal` 18 is never reached. |
| `store_faults` | What holds whatever fails and wherever the process dies? | Two nodes, every fault, every step. |
| `scheduler` | Does Run execute the graph as specified and return a complete report? | Every DAG on four nodes and on three of them, cancellation at every step, every outcome of every task, one call after another. Four nodes are the least with a diamond. |
| `merge` | Is the result a DAG, is everything present or reported, is Compare complete? | Every pair of DAGs on three nodes, and every base and pair of versions on two nodes with every attribute. |
| `column` | Do indexes, traces and the file stay right whatever is added, loaded, merged and saved? | Four fields of which two share a key; a cycle of three mappings to add and two maps to merge, one of which holds a mapping twice; `MaxLen` 2 bounds the map that is added to or merged; every system call of a save fails and the program dies anywhere. A trace of either kind from any field is asked of every map that comes about. 636,747 states. |
| `queries` | Does every query about paths, layers, keys of strategies and measures compute what its definition says, does every request get the right answer, do the checkers agree? | Every DAG on four nodes and on three of them with every argument; the texts of `loops` with every request and command and five lists of ids; the attributed graphs of `loops`. The limits of rules, health checks and lines are set low enough to be crossed and met. 96,730 states. |
| `store_compact_crash`, `store_torn_tail`, `merge_three_way` | Findings, see 5. | The smallest instances that show them. |

### Fairness

Safety needs none. The four liveness properties are these.

- `MCLoops!AllTerminate`: weak fairness of the loop's steps; a sequential loop
  runs on.
- `Store!ServesAgain`: weak fairness of `Process`, the steps of an operation
  that holds the mutex and the opening of a directory whose process ended. No
  caller has to make a request. The property is conditional on the process
  eventually ceasing to die; failing renames are not excluded. That somebody
  opens the directory again is an assumption about the environment.
- `StoreCommand!LoadIsAnswered`: weak fairness of `Run`, the steps of a command
  that has begun. Nobody has to begin one, and it may die.
- `Scheduler!RunReturns`: weak fairness of the steps of each call of `Run`,
  this includes that a task returns. Nobody has to cancel, and nobody has to
  call `Run`.

### Deadlock

TLC's deadlock check is on except where the modelled system really ends:
`loops`, `merge`, `merge_three_way` and `queries` model one call, `store_load`
a bounded number of commands, and in `store_faults` a process that dies inside
LoadSnapshot's write leaves a directory that Open refuses.

### Defective variants

Next to a definition there is often a second one with a longer name, as
`CompactRenameIgnored` beside `CompactRenameFails`. It is a slip that is easy
to make in that place. No specification uses it; `PROJECT.json` ("mutants")
lists, for every property of a run, the variant that makes the property fail
when it takes the place of the original. So each property is known to depend on
the code it speaks of.

## 4. What holds

- **Graph.** Whatever calls are made, in any order, the object is a DAG whose
  edges join nodes it has (`DagInvariant`), `nodeOrder` lists its nodes once
  each (`OrderListsNodes`), and Clone and SubGraph return exactly the induced
  part although they drop errors (`CopyIsInduced`): a DAG's edges can be
  inserted in any order without one being refused. The condition is that
  documents from outside are acyclic and list ids once.
- **Cycle test and sort.** `reaches` decides reachability although a node may
  lie on its stack many times; TopoSort returns the smallest-first order or
  reports a cycle, and its counts are always those of the predecessors not yet
  listed (`SortInvariant`).
- **Impact.** On every graph and for every list of ids a batch is affected in
  exactly the nodes that one of its ids leads to, its own ids left out, and the
  common ancestors are those of all ids (`ImpactIsReachability`), although the
  walks are cut short at whatever is marked.
- **Store.** If writes and syncs succeed, and either the process does not die in
  one of the two windows of section 5 or callers only add nodes and edges and set
  attributes, the store implements `DurableGraph`, and whenever it is idle
  readers see what its files stand for (`MemoryIsLogged`). In spite of AddNode's
  different order this needs no locking beyond the mutex. Whatever happens, what
  is recovered is a DAG and the log is cut last.
- **Loads.** `store load` drops errors and records no progress, yet a user whose
  load died may simply run it again: the first one that answers without an error
  leaves in the snapshot what one uninterrupted load would have left, and never
  less than was stored (`LoadConverges`). The window of Compact, harmful in
  general (section 5), is harmless here, because a log that only adds nodes and
  edges and sets attributes, replayed on its own result, leaves it as it is. With
  removals it does not: besides the log of section 5, which removes edges, the
  log "remove x, add x, add u->x, add x->y, remove u, add u, add y->u" on the
  nodes x, y and u, which only removes nodes, loses the edge x->y when it is
  replayed on its result. Every load answers or dies (`LoadIsAnswered`).
- **Scheduler.** One call of Run at a time implements `DagExecution`: testing
  the direct predecessors is enough for all ancestors, a skip is always
  explained by a failure above it, cancelled nodes are a suffix of the order,
  and Run returns.
- **Merge.** The result is a DAG though the union of two DAGs may be cyclic, in
  every order of the edges; every edge is in the result or reported; only edges
  on a cycle of the union are rejected.
- **Column maps.** After any sequence of calls and deaths both indexes list
  exactly the mappings of a key (`IndexesAgree`), a merge has the first mapping of
  every key of both sides (`MergeCovers`), the file is the whole map of the last
  save that succeeded (`FileIsWhole`), and the two traces are reachability over
  the mappings and converse to each other (`TracesAgree`), cycles included. For
  two fields with one key all of this speaks of the key.
- **Priority orders.** Whatever the strategy, the order has every node once and
  after all it depends on; nodes are listed by level, and the strategy decides
  within a level (`OrderIsExecutable`). A graph with a cycle is refused.
- **Queries.** All agree with their definitions on the instances, which
  stay below the cap of 100 paths in CriticalPath.
- **Texts.** A text is accepted exactly when each line is well formed and the
  edges it declares are acyclic, whatever the order of the lines, and the graph
  is the one declared (`ParseDecides`). What FormatSpec writes reads back as the
  graph without comments or is refused, never misread (`SpecRoundTrip`).
- **Requests.** Server and command line answer the same about the same text, and
  refuse an id the text does not declare before they compute (`AnswersAreRight`).
- **Verdicts.** Validator, rule engine, measures, health and statistics do not
  contradict each other, on cyclic graphs neither (`ChecksAgree`).

## 5. Disagreements with the documentation

Three runs end in a counterexample that contradicts a line of the repository's
README; `PROJECT.json` quotes it.

1. `store_compact_crash`: Compact renames the snapshot and then truncates the
   log. If the process dies in between, Open replays the old log on the new
   snapshot. Replay is not idempotent: the run's log removes a->b, adds b->c,
   adds a->b, removes b->c and adds c->a; on its own result the second add of
   a->b closes a cycle, is skipped, and the edge is gone.
2. `store_torn_tail`: a fragment at the end of the log stops the replay without
   an error and is never cut off. Open appends behind it, and what is appended
   is unreadable at the following Open although it was acknowledged.
3. `merge_three_way`: when both sides differ from the base, ThreeWayMerge merges
   ours and theirs without the base. A change that only our side made to an edge
   gives way to the old value of the other side, and if it is a comment or a
   removal no conflict names it.

Other weaknesses met while modelling are recorded as hazards with a note, not
as findings, because no line of the repository promises otherwise: documents
with cycles or repeated ids are accepted by UnmarshalJSON; SetNodeAttr, AddEdge,
RemoveEdge and RemoveNode leave the graph changed when the log cannot be
written, and a record whose Sync fails is replayed although the caller was told
of an error; LoadSnapshot overwrites the snapshot in place, so that a death
inside it can leave a directory that Open refuses, and one before the log is cut
a mixture of two graphs; overlapping calls of Run erase each other's results;
conflicts ignore comments; the width of a graph does not count its roots.

## 6. What is proved

The theorems hold for every value of the constants allowed by the named
assumptions: any set of nodes (finite where a search or a sort counts), any
attributes, any length of the log, any graphs.

| Theorem | Statement | Assumes |
|---|---|---|
| `GraphProofs!GraphStaysDag` | the object and every copy under construction are DAGs | finite `Node`, `ProperDocs` |
| `GraphProofs!OrderAlwaysListsNodes` | `nodeOrder` lists the nodes, each once | the same |
| `GraphProofs!CopiesAreFaithful` | Clone and SubGraph return the induced part | the same |
| `GraphProofs!DocumentsReadBack` | what MarshalJSON writes is read back | the same |
| `LoopProofs!SearchIsSound`, `SearchDecidesReachability` | the search's invariant; its answer is right | |
| `LoopProofs!SortIsSound`, `SortReportsCycles`, `SortIsTopological` | the loop's invariant; an order or a cycle | finite `Node` |
| `LoopProofs!WalksAreReachability` | the impact queries answer what is on a path | |
| `LoopProofs!OrdersCanBeExecuted` | every priority order can be executed, by level and then by strategy | finite `Node` |
| `StoreProofs!StoreTypeCorrect` | types | |
| `StoreProofs!LogCutLast` | the log is emptied only below a snapshot equal to memory | |
| `StoreProofs!RecoversDags` | memory is a DAG | first snapshots and documents are DAGs |
| `StoreProofs!StepsStayAligned` | files and memory agree at every step | `Unbroken` |
| `StoreProofs!GrowingStaysAligned` | the log may be replayed again without harm | `Growing`, DAGs as above |
| `StoreProofs!ReadersSeeWhatIsLogged` | readers see what is logged | `Safe` |
| `StoreProofs!StoreImplementsDurable` | `Spec => Durable!Spec` | `Safe`, DAGs as above |
| `StoreProofs!CommandsSeeWhatIsLogged` | the same of a directory that subcommands and edits work on | finite `Node`, `Safe`, DAGs as above |
| `StoreProofs!LoadsConverge` | a load that answers leaves what one uninterrupted load leaves, and that extends what was stored | the same |
| `SchedulerProofs!RunImplementsExecution` | `Spec => Execution!Spec` | `OneRun` |
| `SchedulerProofs!RunTypeCorrect`, `TasksWaitForAll`, `RunReportsAll`, `RunExplainsSkips`, `RunCancelsTheRest` | the five safety properties of Run | `OneRun` |
| `MergeProofs!CompareListsAll`, `CompareDecidesEquality` | patching with the changes gives the new graph; no change means equal | |
| `MergeProofs!MergeGivesDags`, `MergeLosesNothingSilently`, `MergeRejectsOnlyCycles` | the three safety properties of a merge | |
| `ColumnProofs!IndexesAlwaysAgree`, `FileStaysWhole`, `MergeAlwaysCovers` | the three safety properties of a column map and its file | |
| `ColumnProofs!TracesAlwaysAgree` | the traces answer with the keys on a chain of mappings, each once | |
| `ColumnProofs!TracingKeepsSpec` | `TraceSpec => Spec`: the three above hold with traces asked at any time | |
| `SpecProofs!ReaderDecides` | ParseSpec accepts exactly the legal texts, with the graph they declare | finite `Node` |
| `SpecProofs!WriterReadsBack` | what FormatSpec writes is read back, or refused | the same |

`ProperDocs` says that the documents callers hand to UnmarshalJSON decode to
acyclic graphs and list no id twice. The code tests neither, and a document that
breaks it breaks the theorems at once.
`Unbroken` says that no system call but the rename fails and that the process
dies neither at `truncate` nor at `snapfill`. `Growing` says that no system call
but the rename fails and that callers do not remove nodes or edges and do not
load a snapshot; the process may die anywhere. `Safe` is either of the two, the
second with the DAGs. The findings show that it cannot be dropped.
`StoreTypeCorrect`, `LogCutLast` and `RecoversDags` do not need it. The requests
of the subcommands themselves are all of the growing kind, so under `Growing`
the last two theorems restrict only what other programs do to the directory.
`OneRun` says that `Runner` has at most one member, that is, that calls of Run
follow one another; overlapping ones share `results` and lose each other's
entries.

### The arguments

- **Graphs** (`LineageGraphProofs`). The one fact with content is
  `PutEdgeAcyclic`: adding m->n to an acyclic graph in which m is not reachable
  from n leaves it acyclic. If every member of a set had a predecessor inside
  it, then the part of the set outside some closed set that separates n from m
  would have had one before. From it follows that each mutator preserves
  `IsDag`.
- **Graph** (`GraphProofs`). `GraphInvariant` adds to the four properties what
  the two loops of a copy have done: the nodes copied and those among the ids
  still to come are the nodes asked for (`NodesSoFar`), and the edges copied and
  those still to do are the edges between them (`EdgesSoFar`). No edge is
  refused, because the copy with that edge is part of a DAG: a path back would
  be one in the source too (`NoWayBack`). The document needs that a finite set
  can be listed in ascending order; `ListingExists` gets this without induction
  over data, from a part of least size that cannot be listed. `RemoveEnumerates`
  is the step of RemoveNode: taking out the first occurrence of an id from a
  list without repetitions takes it out of the set.
- **Search.** The answer alone is not inductive. `SearchInvariant` adds that
  everything visited or on the stack is reachable from the start, that the start is on
  the stack or visited, and that successors of visited nodes are visited or on
  the stack. When the stack is empty, `visited` is closed: it is the set that
  separates the source from a target not found.
- **Sort.** `SortInvariant`: `visited` is what `order` lists, each count is the
  number of unlisted predecessors, and each listed node was the least of those
  ready at its turn. A stuck loop shows a set without a source, the unlisted
  nodes; a finished one shows a DAG, since the first listed member of any set
  has no predecessor in it.
- **Walks.** `WalkInvariant`: what is marked lies along a path from the start
  (`Along`), and each neighbour of a marked node, or of the start, is marked or
  in the rest of a frame of that node. When the last frame is gone the marked
  nodes and the start are closed under the neighbours, hence they are all that a
  path leads to (`WalkEnds`; for Upstream the complement is the closed set).
  `found` is described by the ids whose walks are joined (`Served`, `Due`).
- **Store.** `MemoryIsLogged` speaks of `idle` only. `StoreInvariant` says at each
  step how memory, snapshot, log and the request in progress are related: the
  log is `Aligned` with `history` except in the two windows, replay position
  `pos` shows `history[pos]`, and at `append` and `sync` memory and `Logged` differ
  by exactly the entry in progress, on the side that AddNode's or the others'
  order gives. `Consistent` (types, and which request belongs to which step) is
  the part that needs no assumption. `RecoversDags` follows from `Recoverable`:
  memory, snapshot and documents are DAGs, and `Replayed` preserves DAGs
  whatever the entry, so not even a record replayed on the wrong snapshot makes
  a cycle.
- **Store, growing.** Between the rename and the cut the log overlaps the
  snapshot, and `Aligned` is false. `GrownInvariant` replaces it: the first
  `Covered` records are in the snapshot already, the others take it along
  `history` (`Follows`), and the whole log is `Settled` in `Logged`: every record
  has its node or edge there, and the last record about each has its attribute.
  A replay of such a log on its own result only disturbs attributes, and a later
  record sets them right (`CatchesUp`); no edge is refused, because each of them
  is there already and a DAG that holds an edge has no path back.
  Removing breaks `Settled`, and with it the theorem.
- **Loads.** `CommandInvariant`: what the files stand for is always one of the
  graphs `LoadStates` of an uninterrupted load, at least as far on as the
  requests made (`Reached`, `OnTheWay`). A load that starts again finds the
  first part of its requests done already, and a request that is done changes
  nothing (`DoneIsDone`): adding a node that is there, an edge that is there with
  the spec's attribute, or an edge that closed a cycle before and still does,
  since graphs only grow. `LoadStates` is a recursive function; that it exists
  and takes its steps (`StatesExist`, `StatesAreSteps`) is proved without the
  library's induction theorem, from a least number of requests for which it
  would not.
  `LoadExtends` reads off its last graph what was added.
- **Refinement.** Under these invariants each step maps to a step of
  `DurableGraph` or to a stutter: writing the record and filling the snapshot
  commit, an answer finishes, `ReplayEnd` recovers, `Crash` and `Close` crash.
  `Requested` adds what `Commit`
  asks for: that the entry in progress is one operation and its result a DAG.
- **Scheduler.** `RunInvariant` describes `results` by the loop index alone: what
  is before it is `Passed` (executed above direct predecessors that are all
  done, or skipped below one that is not), the node at it may be running, and
  nothing behind it has a status. What holds of direct predecessors is carried
  to all ancestors without induction: the nodes that are not done form, without
  the running one, a set closed under the edges, so none of them reaches it
  (`AncestorsDone`); and a set of skipped nodes has a first member, whose
  predecessor must have failed (`FailedAncestor`). `Listed`, that the order lists every
  node once and after its predecessors, is `TopoOrderLists`.
- **Execution.** Each step of Run maps to one of `DagExecution` or a stutter
  (`ExecutionStep`): SetResult's running entry starts a task, whose ancestors are
  done by `AncestorsDone`; a skip has a failed ancestor (`SkipIsExplained`); marking
  the rest gives up exactly what waits (`MarksAllWaiting`); the copy reports a map
  whose entries are all final (`CopiesFinal`).
- **Compare.** For each node and each edge at most one change names it, and it
  exists exactly when the two graphs differ there (`ChangesAreRight`,
  `ChangesAreAll`), so the choices in `Patched` have one outcome (`ChangesPatch`).
- **Merge.** `MergeInvariant`: the result has the nodes of both sides and only edges of
  either; each edge of either is still to do, in the result or reported; every
  rejected edge lies on a cycle of `Joined`, because the partial result has no
  more edges than `Joined` (`MoreEdgesReach`).
- **Column map.** `Places` says of an index and a list of keys that the index has
  the places of each key in ascending order; appending a key and its place keeps
  it (`PlacesOneMore`), and Add does this to both indexes. For the file, `Written`
  says what the temporary file holds at each step of a save: at `rename` it is the
  whole map of this save. For the loops, each turn extends what has been read by
  one mapping (`TurnReads`), and the result covers it by its first occurrences
  (`CoversOneSeen`, `CoversOneNew`).
- **Column traces.** `TraceInvariant`: what is found lies on a chain of mappings
  (`OnChain`), and every key that is one mapping further from a key found, or
  from the start, is found or ahead in a frame for that key (`Ahead`). That the
  lists walked over hold exactly those keys is `IndexesAgree` (`SourcesFacts`,
  `TargetsFacts`), which is therefore part of the invariant. A turn of the loop
  takes one key from what is ahead (`TurnTakes`), and it is found by then. When
  the last frame is gone the keys found are closed, so they are all on a chain
  (`ClosedHoldsChains`; for sources the complement is the closed set).
- **Priority order.** `PlanInvariant`: a node that has its level is one above the
  highest of its predecessors and below its own place in the topological order
  (`Leveled`), because these come before it and the node is itself no predecessor
  of those before it (`LevelStep`). The bound makes the maxima exist
  (`MaxIsGreatest`). Each group holds the nodes placed so far on its level, each
  once (`GroupsHold`, `OnceConcat`), a sorted group and what is joined ascend, and
  the next group is above all that is joined (`JoinGroupStep`). An edge leads to a
  higher level (`LeveledFacts`), hence forward in the order.
- **Parser.** `ReaderInvariant`: before each word the graph built is what the
  places read so far say (`Current`), and it is acyclic. One more place is later
  than the others, so it decides the edge or the attribute it is about and
  leaves the rest alone (`EdgesGrow`, `ValuesGrow`); inside a directive, whose
  pairs reach the graph only at its end, `attr` is what they say. A refused edge
  would close a cycle with edges declared before it, and the whole text declares
  all of those (`MorePlacesMoreEdges`), so no later line could have made it
  legal, nor any other order of the lines.
- **Writer.** `WriterInvariant`: a directive is written or its node is among the
  names to come, and a line of a target is written, in the group, or its target
  is to come. At the end the text has the lines of the graph and no others, in
  some order (`IsTextOf`). Such a text names the nodes of the graph, and
  although the order is open it declares one graph: all its places on an edge
  or an attribute say the same (`EdgesWritten`, `ValuesWritten`). Its lines are
  well formed when the graph `Fits` (`LinesFit`), and an edge that does not fit
  spoils the line it is on.

### What is only model-checked

Liveness (all four properties): TLAPS 1.4.5 has no rules for `ENABLED` and
fairness here. `Lineage`, `Metrics`, `Queries`, `Checks` and
`Console` rest on recursive operators, which the SMT backend does not accept,
and on folds over sequences, about which nothing can be proved without
induction over data; `Priority` has recursive functions instead, whose values
cannot be computed by proof either. So `PathsAreExact`, `MeasuresAreRight`,
`AnswersAreRight` and `ChecksAgree` hold on the instances and are not proved; nor
is that the loops end, nor that the keys of the strategies are what they are
meant to be: `OrdersCanBeExecuted` holds for any keys.

## 7. What is not modelled

- The loss of data the operating system has not flushed: files survive the
  death of the process in `Store` and `Column`. Nothing in the code syncs the
  snapshot or the directory, so a power loss is strictly worse than what is
  modelled.
- Two processes on one store directory, which nothing locks, and two programs
  saving one column map at once, which would share the temporary file.
- A graph that changes while a Scheduler holds it, overlapping calls of Run on
  one Scheduler (the module has them, no run does: they lose each other's
  results), and tasks that panic.
- Times, counters, summaries and text: `TaskResult` times, `DiffResult` filters
  and counters, `WALSize`, all of `export`, the DOT and text renderings of
  `report`, formatting and flags in `main`. They decide nothing.
- The spelling of ids and attribute values: words that contain a blank, a comma
  or an arrow break the text format, and the naming check of ValidateComplete
  looks at characters. Duplicate edges, which it also looks for, cannot exist in
  a map of maps.
- Averages, ComplexityScore and Hotspots of `metrics`, which are quotients and
  sums of the measures modelled; the ratios of the health checks are exact
  fractions, not floating-point numbers.
- NoSelfOwnerRule of `policy`, which no engine of the repository uses, and the
  health route of `server`, which is constant.

Bounds, all in the cfgs: `MaxWal` (records in the log), `MaxIds` (length of the
list given to SubGraph), `MaxEdits` and `MaxRuns` (records an edit leaves in the
log, commands run), `MaxLen` (mappings in a column map that is added to),
`LineCap` (dependencies on the longest line the scanner returns, standing for
64 KiB), `PathCap` (the 100 of CriticalPath, its true value; no instance has
that many paths, so CriticalPath is checked below its cap only).

## 8. Plan

Done, in this order: graph values and object, search and sort; store with its
abstract specification and proofs; scheduler with its abstract specification;
merge; queries, priorities and measures; the store commands; column maps with
their proofs; texts, checks, server and commands; the proofs about the graph
object; the proofs about loads, growing logs, Compare and the walks, and that
`Scheduler` refines `DagExecution`; the loops of parser, writer and priority order
and the traces of a column map as state machines, with their proofs.

Left:

1. Unflushed data: a durable and a volatile copy of each file, and a power loss
   that keeps any beginning of the unflushed writes.
2. Two processes on one directory, and a reader while another compacts.
3. The scheduler with a graph that changes, and overlapping calls.
4. The loops of `Lineage` as state machines, in the way of `Impact`
   and `ColumnTrace`, so that their answers can be proved.
5. CriticalPath above its cap, with a smaller `PathCap` and larger graphs.
