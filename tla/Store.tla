------------------------------- MODULE Store -------------------------------
(***************************************************************************)
(* internal/store: a graph in memory, a snapshot file and a write-ahead    *)
(* log beside it.  One process at a time has the directory open and every  *)
(* operation holds Store.mu from its first line to its last, so operations *)
(* do not interleave with each other; what they interleave with is the     *)
(* file system.  Each system call that changes a file or can fail is a     *)
(* step, and the process may die between two steps.                        *)
(*                                                                         *)
(* The files survive the death of the process; the loss of what the        *)
(* operating system has not flushed is not modelled.                       *)
(***************************************************************************)
EXTENDS LineageGraph, Integers, Sequences

CONSTANTS
    Requests,    \* the operations callers use
    NodeArgs,    \* what callers pass to AddNode, Absent for a nil attribute
    EdgeArgs,    \* what callers pass to AddEdge, Absent for a nil attribute
    Docs,        \* the graphs callers hand to LoadSnapshot
    InitGraphs,  \* the graphs the directory may hold at first
    Faults,      \* the system calls that may fail
    CrashAt,     \* the steps at which the process may die
    Torn,        \* a log record or a snapshot that does not decode
    None,        \* no request in progress
    MaxWal       \* bound: records in the log

Kinds == {"add_node", "set_attr", "add_edge", "rm_edge", "rm_node",
          "compact", "load", "close"}
Steps == {"replay", "idle", "append", "sync", "rename", "truncate",
          "snapwrite", "snapfill"}

ASSUME RequestsAssumption == Requests \subseteq Kinds
ASSUME ArgsAssumption ==
    NodeArgs \subseteq Attr \cup {Absent} /\ EdgeArgs \subseteq EdgeAttr \cup {Absent}
ASSUME DocsAssumption == Docs \subseteq Graphs /\ InitGraphs \subseteq Graphs
ASSUME FaultsAssumption ==
    Faults \subseteq {"write", "tear", "sync", "rename", "reopen"}
ASSUME CrashAssumption == CrashAt \subseteq Steps
ASSUME MaxWalAssumption == MaxWal \in Nat

(* WalEntry.  A nil NodeAttr or EdgeAttr is Absent.                        *)
Entries ==
         [op : {"add_node"}, id : Node, attr : Attr \cup {Absent}]
    \cup [op : {"set_attr"}, id : Node, attr : Attr]
    \cup [op : {"add_edge"}, from : Node, to : Node, attr : EdgeAttr \cup {Absent}]
    \cup [op : {"rm_edge"}, from : Node, to : Node]
    \cup [op : {"rm_node"}, id : Node]

ASSUME TornAssumption == Torn \notin Graphs /\ Torn \notin Entries
ASSUME NoneAssumption == None \notin Graphs /\ None \notin Entries

VARIABLES
    mem,       \* s.g
    snap,      \* snapshot.json; a missing file is the empty graph
    wal,       \* wal.log, a sequence of records
    fd,        \* "open" or "closed": s.walFd
    pc,        \* the next step of the process, "down" when there is none
    op,        \* the entry or request in progress
    pos,       \* index of the next record to replay, 0 when not replaying
    history    \* ghost: the graphs the files have stood for since the snapshot

vars == <<mem, snap, wal, fd, pc, op, pos, history>>
files == <<snap, wal, history>>

-----------------------------------------------------------------------------
(* applyEntry.  Applicable says that it returns no error.                  *)

Applicable(g, e) ==
    CASE e.op = "add_node" -> TRUE
      [] e.op = "set_attr" -> HasNode(g, e.id)
      [] e.op = "add_edge" -> EdgeAllowed(g, e.from, e.to)
      [] e.op = "rm_edge"  -> HasEdge(g, e.from, e.to)
      [] e.op = "rm_node"  -> HasNode(g, e.id)

AddedAttr(g, e) ==
    IF e.attr # Absent THEN e.attr
    ELSE IF HasNode(g, e.id) THEN g.attr[e.id] ELSE NoAttr

AddedEdgeAttr(e) == IF e.attr = Absent THEN Direct ELSE e.attr

Effect(g, e) ==
    CASE e.op = "add_node" -> PutNode(g, e.id, AddedAttr(g, e))
      [] e.op = "set_attr" -> PutNode(g, e.id, e.attr)
      [] e.op = "add_edge" -> PutEdge(g, e.from, e.to, AddedEdgeAttr(e))
      [] e.op = "rm_edge"  -> DropEdge(g, e.from, e.to)
      [] e.op = "rm_node"  -> DropNode(g, e.id)

(* The replay loop goes on after an entry that does not apply.             *)
Replayed(g, e) == IF Applicable(g, e) THEN Effect(g, e) ELSE g

-----------------------------------------------------------------------------
(* The ghost variable history: a new snapshot starts it and each whole      *)
(* record written to the log extends it.                                   *)

Logged == history[Len(history)]

Init ==
    /\ snap \in InitGraphs
    /\ wal = <<>>
    /\ history = <<snap>>
    /\ mem = EmptyGraph
    /\ fd = "closed"
    /\ pc = "down"
    /\ op = None
    /\ pos = 0

(* Open reads the snapshot, replays the log and opens it for append.  A    *)
(* snapshot that does not decode makes it return an error.                 *)
Open ==
    /\ pc = "down"
    /\ snap # Torn
    /\ mem' = snap
    /\ pc' = "replay"
    /\ pos' = 1
    /\ UNCHANGED <<snap, wal, fd, op, history>>

MoreToReplayButLast == pos < Len(wal) /\ wal[pos] # Torn
MoreToReplay == pos <= Len(wal) /\ wal[pos] # Torn

ReplayEntryAgain ==
    /\ pc = "replay"
    /\ MoreToReplay
    /\ mem' = Replayed(mem, wal[pos])
    /\ UNCHANGED <<snap, wal, fd, pc, op, pos, history>>

ReplayEntry ==
    /\ pc = "replay"
    /\ MoreToReplay
    /\ mem' = Replayed(mem, wal[pos])
    /\ pos' = pos + 1
    /\ UNCHANGED <<snap, wal, fd, pc, op, history>>

(* replayWAL returns nil at the end of the log and at the first record     *)
(* that does not decode; the file keeps what follows.                      *)
ReplayEnd ==
    /\ pc = "replay"
    /\ ~MoreToReplay
    /\ fd' = "open"
    /\ pc' = "idle"
    /\ pos' = 0
    /\ UNCHANGED <<mem, snap, wal, op, history>>

-----------------------------------------------------------------------------
(* The five logged operations.  AddNode writes the log before it changes   *)
(* the graph, the other four after.                                        *)

Request(kind) ==
    /\ pc = "idle"
    /\ kind \in Requests
    /\ UNCHANGED <<snap, wal, fd, pos, history>>

LogFirst(e) ==
    /\ Request(e.op)
    /\ Len(wal) < MaxWal
    /\ op' = e
    /\ pc' = "append"
    /\ UNCHANGED mem

ApplyFirst(e) ==
    /\ Request(e.op)
    /\ Len(wal) < MaxWal
    /\ Applicable(mem, e)
    /\ mem' = Effect(mem, e)
    /\ op' = e
    /\ pc' = "append"

AddNode(id, attr) ==
    /\ ~HasNode(mem, id)
    /\ LogFirst([op |-> "add_node", id |-> id, attr |-> attr])

SetNodeAttr(id, attr) ==
    ApplyFirst([op |-> "set_attr", id |-> id, attr |-> attr])

AddEdge(from, to, attr) ==
    ApplyFirst([op |-> "add_edge", from |-> from, to |-> to, attr |-> attr])

RemoveEdge(from, to) ==
    ApplyFirst([op |-> "rm_edge", from |-> from, to |-> to])

RemoveNode(id) ==
    ApplyFirst([op |-> "rm_node", id |-> id])

Answer ==
    /\ pc' = "idle"
    /\ op' = None

(* appendWAL: Write, then Sync.                                            *)
AppendRecord ==
    /\ wal' = Append(wal, op)
    /\ history' = Append(history, Replayed(Logged, op))

AppendWrite ==
    /\ pc = "append"
    /\ fd = "open"
    /\ AppendRecord
    /\ pc' = "sync"
    /\ UNCHANGED <<mem, snap, fd, op, pos>>

(* A short write returns an error too: it may leave nothing, a fragment,   *)
(* or the whole entry without its newline.                                 *)
AppendWriteFails ==
    /\ pc = "append"
    /\ \/ fd = "closed" /\ UNCHANGED <<wal, history>>
       \/ /\ fd = "open"
          /\ "write" \in Faults
          /\ \/ UNCHANGED <<wal, history>>
             \/ "tear" \in Faults /\ wal' = Append(wal, Torn) /\ UNCHANGED history
             \/ AppendRecord
    /\ Answer
    /\ UNCHANGED <<mem, snap, fd, pos>>

AppendSync ==
    /\ pc = "sync"
    /\ mem' = IF op.op = "add_node" THEN Replayed(mem, op) ELSE mem
    /\ Answer
    /\ UNCHANGED <<snap, wal, fd, pos, history>>

AppendSyncFails ==
    /\ pc = "sync"
    /\ "sync" \in Faults
    /\ Answer
    /\ UNCHANGED <<mem, snap, wal, fd, pos, history>>

-----------------------------------------------------------------------------
CompactOnlyTruncates ==
    /\ Request("compact")
    /\ op' = [op |-> "compact"]
    /\ pc' = "truncate"
    /\ UNCHANGED mem

(* Compact.  The temporary file is never read, so a failure to write it    *)
(* only ends the call.                                                     *)
Compact ==
    /\ Request("compact")
    /\ op' = [op |-> "compact"]
    /\ pc' = "rename"
    /\ UNCHANGED mem

CompactRename ==
    /\ pc = "rename"
    /\ snap' = mem
    /\ history' = <<mem>>
    /\ pc' = "truncate"
    /\ UNCHANGED <<mem, wal, fd, op, pos>>

CompactRenameIgnored ==
    /\ pc = "rename"
    /\ "rename" \in Faults
    /\ pc' = "truncate"
    /\ UNCHANGED <<mem, snap, wal, fd, op, pos, history>>

CompactRenameFails ==
    /\ pc = "rename"
    /\ "rename" \in Faults
    /\ Answer
    /\ UNCHANGED <<mem, snap, wal, fd, pos, history>>

(* Closing the log and reopening it with O_TRUNC ends Compact and          *)
(* LoadSnapshot.                                                           *)
Truncate ==
    /\ pc = "truncate"
    /\ wal' = <<>>
    /\ fd' = "open"
    /\ Answer
    /\ UNCHANGED <<mem, snap, pos, history>>

TruncateFails ==
    /\ pc = "truncate"
    /\ "reopen" \in Faults
    /\ fd' = "closed"
    /\ Answer
    /\ UNCHANGED <<mem, snap, wal, pos, history>>

(* LoadSnapshot replaces the graph, then overwrites the snapshot in place:  *)
(* os.WriteFile empties the file before it fills it.                       *)
LoadSnapshot(g) ==
    /\ Request("load")
    /\ mem' = g
    /\ op' = [op |-> "load"]
    /\ pc' = "snapwrite"

SnapEmpty ==
    /\ pc = "snapwrite"
    /\ snap' = Torn
    /\ pc' = "snapfill"
    /\ UNCHANGED <<mem, wal, fd, op, pos, history>>

SnapFill ==
    /\ pc = "snapfill"
    /\ snap' = mem
    /\ history' = <<mem>>
    /\ pc' = "truncate"
    /\ UNCHANGED <<mem, wal, fd, op, pos>>

SnapWriteFails ==
    /\ pc \in {"snapwrite", "snapfill"}
    /\ "write" \in Faults
    /\ Answer
    /\ UNCHANGED <<mem, snap, wal, fd, pos, history>>

-----------------------------------------------------------------------------
Stopped ==
    /\ pc' = "down"
    /\ mem' = EmptyGraph
    /\ fd' = "closed"
    /\ op' = None
    /\ pos' = 0

(* The command line tool closes the store when the process ends.           *)
Close ==
    /\ pc = "idle"
    /\ "close" \in Requests
    /\ Stopped
    /\ UNCHANGED files

(* A process that dies in the middle of a Write may leave a fragment.      *)
Crash ==
    /\ pc \in CrashAt
    /\ Stopped
    /\ \/ UNCHANGED wal
       \/ pc = "append" /\ "tear" \in Faults /\ wal' = Append(wal, Torn)
    /\ UNCHANGED <<snap, history>>

-----------------------------------------------------------------------------
Caller ==
    \/ \E id \in Node, a \in NodeArgs : AddNode(id, a)
    \/ \E id \in Node, a \in Attr : SetNodeAttr(id, a)
    \/ \E m, n \in Node, a \in EdgeArgs : AddEdge(m, n, a)
    \/ \E m, n \in Node : RemoveEdge(m, n)
    \/ \E id \in Node : RemoveNode(id)
    \/ Compact
    \/ \E g \in Docs : LoadSnapshot(g)
    \/ Close

Process ==
    \/ Open \/ ReplayEntry \/ ReplayEnd
    \/ AppendWrite \/ AppendWriteFails \/ AppendSync \/ AppendSyncFails
    \/ CompactRename \/ CompactRenameFails \/ Truncate \/ TruncateFails
    \/ SnapEmpty \/ SnapFill \/ SnapWriteFails

Next == Caller \/ Process \/ Crash

Spec == Init /\ [][Next]_vars

(* An operation that holds the lock runs on, and a directory whose process *)
(* ended is opened again; nothing obliges a caller to make a request.      *)
FairSpec == Spec /\ WF_vars(Process)

-----------------------------------------------------------------------------
TypeOK ==
    /\ mem \in Graphs
    /\ snap \in Graphs \cup {Torn}
    /\ wal \in Seq(Entries \cup {Torn})
    /\ fd \in {"open", "closed"}
    /\ pc \in Steps \cup {"down"}
    /\ op \in Entries \cup {[op |-> "compact"], [op |-> "load"], None}
    /\ pos \in Nat
    /\ history \in Seq(Graphs) \ {<<>>}

(* Whenever the store is open and no operation is running, the graph it    *)
(* shows its readers is the one its files stand for: nothing that was      *)
(* logged is missing after a recovery, nothing that was never logged is    *)
(* shown.                                                                  *)
MemoryIsLogged == pc = "idle" => mem = Logged

(* Replaying the files never yields a graph with a cycle or an edge to a   *)
(* node that is gone, whatever record the process died at.                 *)
DagInvariant == IsDag(mem)

(* The snapshot decodes whenever no process is writing it, so that Open    *)
(* succeeds.                                                               *)
Openable == pc = "down" => snap # Torn

(* The log is cut only when the snapshot holds everything it said, whatever *)
(* system call failed before.                                              *)
LogIsCutLast == [][wal' = <<>> /\ wal # <<>> => snap = mem]_vars

(* Where each step stands between the memory and the files, if the process *)
(* dies neither between the two halves of LoadSnapshot's write nor before   *)
(* the log is cut, and no system call but the rename fails.                *)
Aligned ==
    /\ Len(history) = Len(wal) + 1
    /\ history[1] = snap
    /\ \A i \in 1..Len(wal) :
        wal[i] \in Entries /\ history[i + 1] = Replayed(history[i], wal[i])

StoreInvariant ==
    /\ TypeOK
    /\ pc \notin {"snapfill", "truncate"} => Aligned
    /\ pc \notin {"down", "replay"} => fd = "open"
    /\ pc = "replay" => pos \in 1..(Len(wal) + 1) /\ mem = history[pos]
    /\ pc \in {"idle", "rename"} => mem = Logged
    /\ pc \in {"append", "sync"} => op \in Entries
    /\ pc = "append" =>
         mem = IF op.op = "add_node" THEN Logged ELSE Replayed(Logged, op)
    /\ pc = "sync" =>
         Logged = IF op.op = "add_node" THEN Replayed(mem, op) ELSE mem
    /\ pc = "truncate" => snap = mem /\ history = <<mem>>

(* How the store implements one durable graph: the graph its files stand   *)
(* for, what readers see of it and how far a request has come.             *)
Shown == IF pc = "idle" THEN mem ELSE None

Status ==
    CASE pc \in {"down", "replay"} -> "down"
      [] pc = "idle" -> "serving"
      [] pc = "sync" -> "committed"
      [] pc = "truncate" -> IF op.op = "load" THEN "committed" ELSE "busy"
      [] OTHER -> "busy"

Durable == INSTANCE DurableGraph WITH
    Down    <- None,
    durable <- Logged,
    shown   <- Shown,
    status  <- Status

DurableSpec == Durable!Spec

(* If the process stops dying, the store is open and free again and again:  *)
(* every request is answered and every recovery ends.                      *)
ServesAgain == <>[][~Crash]_vars => []<>(pc = "idle")
=============================================================================
