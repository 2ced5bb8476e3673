---------------------------- MODULE StoreCommand ----------------------------
(***************************************************************************)
(* runStore in main.go: the subcommands of `store`, each a process of its  *)
(* own that opens the directory, makes its requests of the store and       *)
(* closes it.  `load` makes one request for every node and every edge of a *)
(* spec, ignores their errors, and compacts.  Nothing records how far a    *)
(* load has come: a user whose load died runs it again.                    *)
(*                                                                         *)
(* "show" stands for init, export and show, which make no request; "edit"  *)
(* for a program that uses package store by itself.  Ids are numbers that  *)
(* compare as the strings do.                                              *)
(***************************************************************************)
EXTENDS Store

CONSTANTS
    Commands,   \* the subcommands users run
    Specs,      \* the graphs loadSpec returns
    MaxEdits,   \* bound: records in the log while a program edits
    MaxRuns     \* bound: commands run on the directory, an edit counts twice

ASSUME NodeAssumption == Node \subseteq Nat
Subcommands == {"load", "compact", "show", "edit"}

ASSUME CommandsAssumption == Commands \subseteq Subcommands /\ None \notin Subcommands
ASSUME SpecsAssumption == Specs \subseteq {g \in Graphs : IsDag(g)}
ASSUME BoundsAssumption == MaxEdits \in Nat /\ MaxRuns \in Nat

VARIABLES
    command,   \* the subcommand that is running, None when there is none
    spec,      \* the graph of the last load, None after another change
    todo,      \* the requests the command has still to make
    answer,    \* "error", the last command if it succeeded, or "none"
    base,      \* ghost: the stored graph when spec was first tried
    started    \* the commands run so far

command_vars == <<command, spec, todo, answer, base, started>>
all == <<vars, command_vars>>

-----------------------------------------------------------------------------
(* The requests of `store load`: nodes and edges in the order Nodes() and  *)
(* Edges() list them, then Compact.                                        *)

LoadScript(g) ==
    LET ids   == Ascending(Nodes(g), <)
        pairs == Ascending(EdgeSet(g), EdgeBefore)
    IN  [i \in DOMAIN ids |-> [op |-> "add_node", id |-> ids[i], attr |-> g.attr[ids[i]]]]
        \o [i \in DOMAIN pairs |->
              [op |-> "add_edge", from |-> pairs[i][1], to |-> pairs[i][2],
               attr |-> g.edge[pairs[i][1]][pairs[i][2]]]]
        \o <<[op |-> "compact"]>>

Script(c, g) ==
    CASE c = "load"    -> LoadScript(g)
      [] c = "compact" -> <<[op |-> "compact"]>>
      [] OTHER         -> <<>>

InitCommand ==
    /\ Init
    /\ command = None
    /\ spec = None
    /\ todo = <<>>
    /\ answer = "none"
    /\ base = Logged
    /\ started = 0

(* The spec is read and parsed before the directory is opened.             *)
Start(c, g) ==
    /\ command = None
    /\ started' = started + (IF c = "edit" THEN 2 ELSE 1)
    /\ started' <= MaxRuns
    /\ Open
    /\ command' = c
    /\ todo' = Script(c, g)
    /\ answer' = "none"
    /\ CASE c = "load" -> spec' = g /\ base' = IF spec = g THEN base ELSE Logged
         [] c = "edit" -> spec' = None /\ UNCHANGED base
         [] OTHER      -> UNCHANGED <<spec, base>>

(* The requests that reach the log or the snapshot.                        *)
Issue ==
    /\ pc = "idle"
    /\ todo # <<>>
    /\ LET r == Head(todo)
       IN  CASE r.op = "add_node" -> AddNode(r.id, r.attr)
             [] r.op = "add_edge" -> AddEdge(r.from, r.to, r.attr)
             [] OTHER             -> Compact
    /\ todo' = Tail(todo)
    /\ UNCHANGED <<command, spec, answer, base, started>>

(* AddNode of a node that is there returns nil at once; the error of an    *)
(* AddEdge that would close a cycle is dropped.                            *)
Ignored(r) ==
    \/ r.op = "add_node" /\ HasNode(mem, r.id)
    \/ r.op = "add_edge" /\ ~EdgeAllowed(mem, r.from, r.to)

PassOver ==
    /\ pc = "idle"
    /\ todo # <<>>
    /\ Ignored(Head(todo))
    /\ todo' = Tail(todo)
    /\ UNCHANGED <<vars, command, spec, answer, base, started>>

(* Inside a request.  An error of Compact is the error of the command.     *)
Work ==
    /\ ReplayEntry \/ ReplayEnd \/ AppendWrite \/ AppendSync \/ CompactRename \/ Truncate
    /\ UNCHANGED command_vars

CompactFails ==
    /\ CompactRenameFails
    /\ answer' = "error"
    /\ UNCHANGED <<command, spec, todo, base, started>>

Edit ==
    /\ command = "edit"
    /\ pc = "idle"
    /\ \/ Len(wal) < MaxEdits /\ Caller
       \/ Compact
       \/ Close
    /\ command' = IF pc' = "down" THEN None ELSE command
    /\ UNCHANGED <<spec, todo, answer, base, started>>

(* The command prints its result and the deferred Close runs.              *)
Finish ==
    /\ command \notin {None, "edit"}
    /\ pc = "idle"
    /\ todo = <<>>
    /\ Stopped
    /\ UNCHANGED files
    /\ command' = None
    /\ answer' = IF answer = "error" THEN "error" ELSE command
    /\ UNCHANGED <<spec, todo, base, started>>

Die ==
    /\ Crash
    /\ command' = None
    /\ todo' = <<>>
    /\ answer' = "none"
    /\ UNCHANGED <<spec, base, started>>

Run == Issue \/ PassOver \/ Work \/ CompactFails \/ Finish

NextCommand ==
    \/ \E c \in Commands \cap {"load"}, g \in Specs : Start(c, g)
    \/ \E c \in Commands \ {"load"} : Start(c, EmptyGraph)
    \/ Run \/ Edit \/ Die

(* A process that has begun a command goes on with it.                     *)
CommandSpec == InitCommand /\ [][NextCommand]_all /\ WF_all(Run)

-----------------------------------------------------------------------------
(* The graphs that one load of the spec g, which nothing interrupts, makes  *)
(* of the graph b.                                                         *)
Loaded(h, r) ==
    IF r.op = "compact" \/ (r.op = "add_node" /\ HasNode(h, r.id)) THEN h
    ELSE Replayed(h, r)

LoadStates(b, g) ==
    LET script == LoadScript(g)
        state[i \in 0..Len(script)] ==
            IF i = 0 THEN b ELSE Loaded(state[i - 1], script[i])
    IN  state

LoadedInto(b, g) == LoadStates(b, g)[Len(LoadScript(g))]

(* What a user may expect of it: the stored attributes of nodes and the    *)
(* spec's attributes of edges win, nothing stored is lost, nothing is      *)
(* invented, and an edge of the spec is missing only if it closes a cycle. *)
Extends(h, b, g) ==
    /\ \A n \in Node : h.attr[n] = IF HasNode(b, n) THEN b.attr[n] ELSE g.attr[n]
    /\ \A m, n \in Node :
        IF HasEdge(g, m, n)
        THEN \/ h.edge[m][n] = g.edge[m][n]
             \/ ~HasEdge(h, m, n) /\ ~HasEdge(b, m, n) /\ Reaches(h, n, m)
        ELSE h.edge[m][n] = b.edge[m][n]

(* `store load` keeps no record of its progress, yet running it again is   *)
(* enough: however many loads of the spec died before, and at whatever     *)
(* step, a load that answers without an error leaves in the snapshot alone *)
(* what one uninterrupted load would have left.                            *)
LoadConverges ==
    answer = "load" =>
        /\ wal = <<>>
        /\ snap = LoadedInto(base, spec)
        /\ Extends(snap, base, spec)

(* A process that loads a spec answers or dies: no request it makes is one *)
(* the store cannot finish.                                                *)
LoadIsAnswered == command = "load" ~> command = None
=============================================================================
