----------------------------- MODULE StoreProofs -----------------------------
(***************************************************************************)
(* Proofs about the store.  Recoverable is an invariant of every behaviour, *)
(* with any failing system call and any death of the process; from it no   *)
(* graph with a cycle is ever recovered or shown, and the log is never cut *)
(* too early.  StoreInvariant needs the process not to die inside the two  *)
(* windows the code leaves open and only the rename to fail; from it what  *)
(* readers see is what a recovery would show.                              *)
(*                                                                         *)
(* A load that answers has left what one uninterrupted load leaves, for    *)
(* every spec and any number of loads that died.  That argument follows    *)
(* the states an uninterrupted load goes through: whatever a load that is  *)
(* run again has in its files is one of them, never behind the requests    *)
(* the load has made.                                                      *)
(***************************************************************************)
EXTENDS StoreCommand, LineageGraphProofs, SequenceTheorems

-----------------------------------------------------------------------------
(* Entries and what applyEntry does with them.                             *)

LEMMA EntryCases ==
    ASSUME NEW e \in Entries
    PROVE  \/ e.op = "add_node" /\ e.id \in Node /\ e.attr \in Attr \cup {Absent}
           \/ e.op = "set_attr" /\ e.id \in Node /\ e.attr \in Attr
           \/ e.op = "add_edge" /\ e.from \in Node /\ e.to \in Node
                                /\ e.attr \in EdgeAttr \cup {Absent}
           \/ e.op = "rm_edge" /\ e.from \in Node /\ e.to \in Node
           \/ e.op = "rm_node" /\ e.id \in Node
BY DEF Entries

LEMMA NewAttrs ==
    ASSUME NEW g \in Graphs, NEW e \in Entries
    PROVE  /\ e.op = "add_node" => AddedAttr(g, e) \in Attr
           /\ e.op = "add_edge" => AddedEdgeAttr(e) \in EdgeAttr
<1>1. ASSUME e.op = "add_node" PROVE AddedAttr(g, e) \in Attr
    <2>1. e.id \in Node /\ e.attr \in Attr \cup {Absent}
        BY <1>1, EntryCases
    <2>2. g.attr[e.id] \in Attr \cup {Absent}
        BY <2>1 DEF Graphs
    <2> QED
        BY <2>1, <2>2, AttrAssumption DEF AddedAttr, HasNode
<1>2. ASSUME e.op = "add_edge" PROVE AddedEdgeAttr(e) \in EdgeAttr
    BY <1>2, EntryCases, EdgeAttrAssumption DEF AddedEdgeAttr
<1> QED
    BY <1>1, <1>2

(* applyEntry keeps a graph a graph and a DAG a DAG.                       *)
LEMMA EffectFacts ==
    ASSUME NEW g \in Graphs, NEW e \in Entries, Applicable(g, e)
    PROVE  Effect(g, e) \in Graphs /\ (IsDag(g) => IsDag(Effect(g, e)))
<1>1. CASE e.op = "add_node"
    <2>1. Effect(g, e) = PutNode(g, e.id, AddedAttr(g, e))
        BY <1>1 DEF Effect
    <2> QED
        BY <1>1, <2>1, EntryCases, NewAttrs, PutNodeType, PutNodeDag
<1>2. CASE e.op = "set_attr"
    <2>1. Effect(g, e) = PutNode(g, e.id, e.attr)
        BY <1>2 DEF Effect
    <2> QED
        BY <1>2, <2>1, EntryCases, PutNodeType, PutNodeDag
<1>3. CASE e.op = "add_edge"
    <2>1. Effect(g, e) = PutEdge(g, e.from, e.to, AddedEdgeAttr(e))
        BY <1>3 DEF Effect
    <2>2. EdgeAllowed(g, e.from, e.to)
        BY <1>3 DEF Applicable
    <2> QED
        BY <1>3, <2>1, <2>2, EntryCases, NewAttrs, PutEdgeType, PutEdgeDag
<1>4. CASE e.op = "rm_edge"
    <2>1. Effect(g, e) = DropEdge(g, e.from, e.to)
        BY <1>4 DEF Effect
    <2> QED
        BY <1>4, <2>1, EntryCases, DropEdgeType, DropEdgeDag
<1>5. CASE e.op = "rm_node"
    <2>1. Effect(g, e) = DropNode(g, e.id)
        BY <1>5 DEF Effect
    <2> QED
        BY <1>5, <2>1, EntryCases, DropNodeType, DropNodeDag
<1> QED
    BY <1>1, <1>2, <1>3, <1>4, <1>5, EntryCases

LEMMA ReplayedFacts ==
    ASSUME NEW g \in Graphs, NEW e \in Entries
    PROVE  Replayed(g, e) \in Graphs /\ (IsDag(g) => IsDag(Replayed(g, e)))
BY EffectFacts DEF Replayed

(* The entries the five operations write.                                  *)
LEMMA NewEntries ==
    /\ \A id \in Node, a \in NodeArgs : [op |-> "add_node", id |-> id, attr |-> a] \in Entries
    /\ \A id \in Node, a \in Attr : [op |-> "set_attr", id |-> id, attr |-> a] \in Entries
    /\ \A m, n \in Node, a \in EdgeArgs :
         [op |-> "add_edge", from |-> m, to |-> n, attr |-> a] \in Entries
    /\ \A m, n \in Node : [op |-> "rm_edge", from |-> m, to |-> n] \in Entries
    /\ \A id \in Node : [op |-> "rm_node", id |-> id] \in Entries
BY ArgsAssumption DEF Entries

(* A logged operation starts in one of two ways.                           *)
StartsLogging(e) ==
    \/ e.op = "add_node" /\ LogFirst(e)
    \/ e.op # "add_node" /\ ApplyFirst(e)

Logs == \E e \in Entries : StartsLogging(e)

(* The process may also end between two requests, as Close ends it.        *)
Ends == pc = "idle" /\ Stopped /\ UNCHANGED files

(* The steps of a store, whoever makes the requests and with whatever      *)
(* arguments.                                                              *)
AnyStep ==
    \/ Logs \/ Compact \/ (\E g \in Docs : LoadSnapshot(g)) \/ Ends
    \/ Process \/ Crash

LEMMA CallerCases ==
    ASSUME Caller
    PROVE  Logs \/ Compact \/ (\E g \in Docs : LoadSnapshot(g)) \/ Ends
<1>1. ASSUME NEW id \in Node, NEW a \in NodeArgs, AddNode(id, a) PROVE Logs
    BY <1>1, NewEntries DEF Logs, StartsLogging, AddNode
<1>2. ASSUME NEW id \in Node, NEW a \in Attr, SetNodeAttr(id, a) PROVE Logs
    BY <1>2, NewEntries DEF Logs, StartsLogging, SetNodeAttr
<1>3. ASSUME NEW m \in Node, NEW n \in Node, NEW a \in EdgeArgs, AddEdge(m, n, a) PROVE Logs
    BY <1>3, NewEntries DEF Logs, StartsLogging, AddEdge
<1>4. ASSUME NEW m \in Node, NEW n \in Node, RemoveEdge(m, n) PROVE Logs
    BY <1>4, NewEntries DEF Logs, StartsLogging, RemoveEdge
<1>5. ASSUME NEW id \in Node, RemoveNode(id) PROVE Logs
    BY <1>5, NewEntries DEF Logs, StartsLogging, RemoveNode
<1> QED
    BY <1>1, <1>2, <1>3, <1>4, <1>5 DEF Caller, Close, Ends

LEMMA NextIsAnyStep == [Next]_vars => [AnyStep]_vars
BY CallerCases DEF Next, AnyStep

-----------------------------------------------------------------------------
(* What holds in every behaviour, whatever fails and wherever the process  *)
(* dies.                                                                   *)

Consistent ==
    /\ TypeOK
    /\ pc \in {"append", "sync"} => op \in Entries
    /\ pc = "replay" => pos \in Nat \ {0}
    /\ pc = "truncate" => snap = mem

LEMMA ConsistentInit == Init => Consistent
<1> SUFFICES ASSUME Init PROVE Consistent
    OBVIOUS
<1>1. snap \in Graphs
    BY DocsAssumption DEF Init
<1>2. history \in Seq(Graphs) \ {<<>>}
    BY <1>1 DEF Init
<1> QED
    BY <1>1, <1>2, EmptyGraphType DEF Init, Consistent, TypeOK

(* The graph the files stand for is a graph.                               *)
LEMMA LoggedType ==
    ASSUME TypeOK
    PROVE  Logged \in Graphs
<1>1. history \in Seq(Graphs) /\ Len(history) \in 1..Len(history)
    BY DEF TypeOK
<1> QED
    BY <1>1 DEF Logged

LEMMA AppendRecordType ==
    ASSUME TypeOK, op \in Entries, AppendRecord
    PROVE  /\ wal' \in Seq(Entries \cup {Torn})
           /\ history' \in Seq(Graphs) \ {<<>>}
           /\ Logged' = Replayed(Logged, op)
<1>1. Replayed(Logged, op) \in Graphs
    BY LoggedType, ReplayedFacts
<1>2. wal' = Append(wal, op) /\ history' = Append(history, Replayed(Logged, op))
    BY DEF AppendRecord
<1>3. history \in Seq(Graphs) /\ Len(history') = Len(history) + 1
    BY <1>1, <1>2 DEF TypeOK
<1>4. history'[Len(history')] = Replayed(Logged, op)
    BY <1>1, <1>2, <1>3
<1> QED
    BY <1>1, <1>2, <1>4 DEF TypeOK, Logged

(* What a logged operation does before it writes the log.                  *)
LEMMA LogsFacts ==
    ASSUME NEW e \in Entries, StartsLogging(e)
    PROVE  /\ pc = "idle" /\ pc' = "append" /\ op' = e
           /\ UNCHANGED <<snap, wal, fd, pos, history>>
           /\ \/ e.op = "add_node" /\ mem' = mem
              \/ e.op # "add_node" /\ Applicable(mem, e) /\ mem' = Effect(mem, e)
BY DEF StartsLogging, LogFirst, ApplyFirst, Request

LEMMA ConsistentStep == Consistent /\ [AnyStep]_vars => Consistent'
<1> SUFFICES ASSUME Consistent, [AnyStep]_vars PROVE Consistent'
    OBVIOUS
<1> USE DEF Consistent, TypeOK
<1>1. CASE UNCHANGED vars
    BY <1>1 DEF vars
<1>2. CASE Logs \/ Compact \/ (\E g \in Docs : LoadSnapshot(g)) \/ Ends
    <2>1. ASSUME NEW e \in Entries, StartsLogging(e) PROVE Consistent'
        <3>1. mem' \in Graphs
            BY <2>1, LogsFacts, EffectFacts
        <3> QED
            BY <2>1, <3>1, LogsFacts DEF Steps
    <2>2. CASE Compact
        BY <2>2 DEF Compact, Request, Steps
    <2>3. ASSUME NEW g \in Docs, LoadSnapshot(g) PROVE Consistent'
        BY <2>3, DocsAssumption DEF LoadSnapshot, Request, Steps
    <2>4. CASE Ends
        BY <2>4, EmptyGraphType DEF Ends, Stopped, files
    <2> QED
        BY <1>2, <2>1, <2>2, <2>3, <2>4 DEF Logs
<1>3. CASE Open
    BY <1>3 DEF Open, Steps
<1>4. CASE ReplayEntry
    <2>1. wal[pos] \in Entries
        BY <1>4 DEF ReplayEntry, MoreToReplay
    <2> QED
        BY <1>4, <2>1, ReplayedFacts DEF ReplayEntry
<1>5. CASE ReplayEnd
    BY <1>5 DEF ReplayEnd, Steps
<1>6. CASE AppendWrite
    BY <1>6, AppendRecordType DEF AppendWrite, Steps
<1>7. CASE AppendWriteFails
    <2>1. wal' \in Seq(Entries \cup {Torn}) /\ history' \in Seq(Graphs) \ {<<>>}
        <3>1. CASE UNCHANGED <<wal, history>>
            BY <3>1
        <3>2. CASE wal' = Append(wal, Torn) /\ UNCHANGED history
            BY <3>2
        <3>3. CASE AppendRecord
            BY <1>7, <3>3, AppendRecordType DEF AppendWriteFails
        <3> QED
            BY <1>7, <3>1, <3>2, <3>3 DEF AppendWriteFails
    <2> QED
        BY <1>7, <2>1 DEF AppendWriteFails, Answer, Steps
<1>8. CASE AppendSync
    BY <1>8, ReplayedFacts DEF AppendSync, Answer, Steps
<1>9. CASE AppendSyncFails
    BY <1>9 DEF AppendSyncFails, Answer, Steps
<1>10. CASE CompactRename
    <2>1. history' \in Seq(Graphs) \ {<<>>}
        BY <1>10 DEF CompactRename
    <2> QED
        BY <1>10, <2>1 DEF CompactRename, Steps
<1>11. CASE CompactRenameFails
    BY <1>11 DEF CompactRenameFails, Answer, Steps
<1>12. CASE Truncate
    BY <1>12 DEF Truncate, Answer, Steps
<1>13. CASE TruncateFails
    BY <1>13 DEF TruncateFails, Answer, Steps
<1>14. CASE SnapEmpty
    BY <1>14 DEF SnapEmpty, Steps
<1>15. CASE SnapFill
    <2>1. history' \in Seq(Graphs) \ {<<>>}
        BY <1>15 DEF SnapFill
    <2> QED
        BY <1>15, <2>1 DEF SnapFill, Steps
<1>16. CASE SnapWriteFails
    BY <1>16 DEF SnapWriteFails, Answer, Steps
<1>17. CASE Crash
    <2>1. wal' \in Seq(Entries \cup {Torn})
        BY <1>17 DEF Crash
    <2> QED
        BY <1>17, <2>1, EmptyGraphType DEF Crash, Stopped
<1> QED
    BY <1>1, <1>2, <1>3, <1>4, <1>5, <1>6, <1>7, <1>8, <1>9, <1>10, <1>11, <1>12,
       <1>13, <1>14, <1>15, <1>16, <1>17 DEF AnyStep, Process

LEMMA StoreIsConsistent == Spec => []Consistent
BY ConsistentInit, ConsistentStep, NextIsAnyStep, PTL DEF Spec

(* No variable leaves its type, wherever the process dies and whatever     *)
(* fails.                                                                  *)
THEOREM StoreTypeCorrect == Spec => []TypeOK
<1>1. Consistent => TypeOK
    BY DEF Consistent
<1> QED
    BY <1>1, StoreIsConsistent, PTL

(* The log is cut only once the snapshot holds what it said, wherever the  *)
(* process dies and whatever fails: Compact and LoadSnapshot do not cut it *)
(* after a failed rename or write.                                         *)
THEOREM LogCutLast == Spec => LogIsCutLast
<1>1. Consistent /\ [Next]_vars => [wal' = <<>> /\ wal # <<>> => snap = mem]_vars
    <2> SUFFICES ASSUME Consistent, Next, wal' = <<>>, wal # <<>>
                 PROVE  snap = mem
        OBVIOUS
    <2> USE DEF Consistent, TypeOK
    <2>1. \A r : Append(wal, r) # <<>>
        OBVIOUS
    <2>2. CASE Truncate
        BY <2>2 DEF Truncate
    <2>3. CASE ~Truncate
        BY <2>1, <2>3, CallerCases
        DEF Next, Process, Crash, Stopped, Open, ReplayEntry, ReplayEnd, AppendWrite,
            AppendRecord, AppendWriteFails, AppendSync, AppendSyncFails, CompactRename,
            CompactRenameFails, TruncateFails, SnapEmpty, SnapFill, SnapWriteFails,
            Logs, StartsLogging, LogFirst, ApplyFirst, Compact, LoadSnapshot, Ends,
            Request, files
    <2> QED
        BY <2>2, <2>3
<1> QED
    BY <1>1, StoreIsConsistent, PTL DEF Spec, LogIsCutLast

-----------------------------------------------------------------------------
(* The same freedom to fail and to die, and acyclic graphs in the directory *)
(* and in the documents that are loaded.                                   *)

Acyclics == \A g \in Docs \cup InitGraphs : IsDag(g)

Recoverable ==
    /\ IsDag(mem)
    /\ snap # Torn => IsDag(snap)

LEMMA RecoverableInit ==
    ASSUME Acyclics
    PROVE  Init => Recoverable
BY EmptyGraphDag DEF Init, Recoverable, Acyclics

LEMMA RecoverableStep ==
    ASSUME Acyclics
    PROVE  Consistent /\ Recoverable /\ [AnyStep]_vars => Recoverable'
<1> SUFFICES ASSUME Consistent, Recoverable, [AnyStep]_vars PROVE Recoverable'
    OBVIOUS
<1> USE DEF Recoverable
<1>1. CASE UNCHANGED <<mem, snap>>
    BY <1>1
<1>2. CASE Logs \/ Compact \/ (\E g \in Docs : LoadSnapshot(g)) \/ Ends
    <2>1. ASSUME NEW e \in Entries, StartsLogging(e) PROVE Recoverable'
        BY <2>1, LogsFacts, EffectFacts DEF Consistent, TypeOK
    <2>2. CASE Compact
        BY <2>2 DEF Compact, Request
    <2>3. ASSUME NEW g \in Docs, LoadSnapshot(g) PROVE Recoverable'
        BY <2>3 DEF LoadSnapshot, Request, Acyclics
    <2>4. CASE Ends
        BY <2>4, EmptyGraphDag DEF Ends, Stopped, files
    <2> QED
        BY <1>2, <2>1, <2>2, <2>3, <2>4 DEF Logs
<1>3. CASE Open
    BY <1>3 DEF Open
<1>4. CASE ReplayEntry
    <2>1. wal[pos] \in Entries
        BY <1>4 DEF ReplayEntry, MoreToReplay, Consistent, TypeOK
    <2> QED
        BY <1>4, <2>1, ReplayedFacts DEF ReplayEntry, Consistent, TypeOK
<1>5. CASE AppendSync
    BY <1>5, ReplayedFacts DEF AppendSync, Consistent, TypeOK
<1>6. CASE CompactRename \/ SnapFill
    BY <1>6 DEF CompactRename, SnapFill
<1>7. CASE SnapEmpty
    BY <1>7 DEF SnapEmpty
<1>8. CASE Crash
    BY <1>8, EmptyGraphDag DEF Crash, Stopped
<1> QED
    BY <1>1, <1>2, <1>3, <1>4, <1>5, <1>6, <1>7, <1>8
    DEF AnyStep, Process, vars, ReplayEnd, AppendWrite, AppendWriteFails, AppendSyncFails,
        CompactRenameFails, Truncate, TruncateFails, SnapWriteFails

(* No graph with a cycle, or with an edge to a node that is gone, is ever  *)
(* recovered or shown, even when a log is replayed on a snapshot it does   *)
(* not belong to.                                                          *)
THEOREM RecoversDags ==
    ASSUME Acyclics
    PROVE  Spec => []DagInvariant
<1>1. Init => Recoverable
    BY RecoverableInit
<1>2. Consistent /\ Recoverable /\ [Next]_vars => Recoverable'
    BY RecoverableStep, NextIsAnyStep
<1>3. Recoverable => DagInvariant
    BY DEF Recoverable, DagInvariant
<1> QED
    BY <1>1, <1>2, <1>3, StoreIsConsistent, PTL DEF Spec

-----------------------------------------------------------------------------
(* The process does not die between the two halves of LoadSnapshot's write *)
(* nor between the new snapshot and the cut of the log, and no system call *)
(* fails but the rename.                                                   *)

Unbroken == Faults \subseteq {"rename"} /\ CrashAt \cap {"truncate", "snapfill"} = {}

LEMMA StoreInvariantInit == Init => StoreInvariant
<1> SUFFICES ASSUME Init PROVE StoreInvariant
    OBVIOUS
<1>1. TypeOK
    BY ConsistentInit DEF Consistent
<1>2. Aligned
    BY DEF Init, Aligned
<1> QED
    BY <1>1, <1>2 DEF Init, StoreInvariant

(* A record written whole keeps the files aligned.                         *)
LEMMA AppendAligned ==
    ASSUME TypeOK, Aligned, op \in Entries, AppendRecord, UNCHANGED snap
    PROVE  Aligned'
<1> DEFINE next == Replayed(Logged, op)
<1>1. next \in Graphs
    BY LoggedType, ReplayedFacts
<1>2. wal' = Append(wal, op) /\ history' = Append(history, next)
    BY DEF AppendRecord
<1>3. /\ wal \in Seq(Entries \cup {Torn}) /\ history \in Seq(Graphs)
      /\ Len(history) = Len(wal) + 1 /\ Logged = history[Len(wal) + 1]
    BY DEF TypeOK, Aligned, Logged
<1> HIDE DEF next
<1>4. /\ Len(wal') = Len(wal) + 1 /\ Len(history') = Len(history) + 1
      /\ \A i \in 1..Len(wal) : wal'[i] = wal[i]
      /\ \A i \in 1..Len(history) : history'[i] = history[i]
      /\ wal'[Len(wal) + 1] = op /\ history'[Len(wal) + 2] = next
    BY <1>1, <1>2, <1>3
<1>5. ASSUME NEW i \in 1..Len(wal')
      PROVE  wal'[i] \in Entries /\ history'[i + 1] = Replayed(history'[i], wal'[i])
    <2>1. CASE i \in 1..Len(wal)
        BY <1>3, <1>4, <2>1 DEF Aligned
    <2>2. CASE i = Len(wal) + 1
        BY <1>3, <1>4, <2>2 DEF next
    <2> QED
        BY <1>3, <1>4, <2>1, <2>2
<1> QED
    BY <1>3, <1>4, <1>5 DEF Aligned

LEMMA StoreInvariantStep ==
    ASSUME Unbroken
    PROVE  StoreInvariant /\ Consistent /\ Consistent' /\ [AnyStep]_vars => StoreInvariant'
<1> SUFFICES ASSUME StoreInvariant, Consistent, Consistent', [AnyStep]_vars
             PROVE  StoreInvariant'
    OBVIOUS
<1> USE DEF StoreInvariant
<1>0. TypeOK /\ TypeOK'
    BY DEF Consistent
<1>1. CASE UNCHANGED vars
    BY <1>0, <1>1 DEF vars, Aligned, Logged
<1>2. CASE Logs \/ Compact \/ (\E g \in Docs : LoadSnapshot(g)) \/ Ends
    <2>1. ASSUME NEW e \in Entries, StartsLogging(e) PROVE StoreInvariant'
        <3>1. Aligned' /\ Logged' = Logged
            BY <2>1, LogsFacts DEF Aligned, Logged
        <3>2. mem' = IF e.op = "add_node" THEN Logged ELSE Replayed(Logged, e)
            BY <2>1, LogsFacts DEF Replayed
        <3> QED
            BY <1>0, <2>1, <3>1, <3>2, LogsFacts
    <2>2. CASE Compact
        BY <1>0, <2>2 DEF Compact, Request, Aligned, Logged
    <2>3. ASSUME NEW g \in Docs, LoadSnapshot(g) PROVE StoreInvariant'
        BY <1>0, <2>3 DEF LoadSnapshot, Request, Aligned, Logged
    <2>4. CASE Ends
        BY <1>0, <2>4 DEF Ends, Stopped, files, Aligned, Logged
    <2> QED
        BY <1>2, <2>1, <2>2, <2>3, <2>4 DEF Logs
<1>3. CASE Open
    <2>1. Len(wal) \in Nat
        BY <1>0 DEF TypeOK
    <2> QED
        BY <1>0, <1>3, <2>1 DEF Open, Aligned, Logged
<1>4. CASE ReplayEntry
    <2>1. pos \in 1..Len(wal) /\ Len(wal) \in Nat
        BY <1>0, <1>4 DEF ReplayEntry, MoreToReplay, TypeOK
    <2>2. history[pos + 1] = Replayed(history[pos], wal[pos])
        BY <1>4, <2>1 DEF ReplayEntry, Aligned
    <2> QED
        BY <1>0, <1>4, <2>1, <2>2 DEF ReplayEntry, Aligned, Logged
<1>5. CASE ReplayEnd
    <2>1. Len(wal) \in Nat /\ pos = Len(wal) + 1
        BY <1>0, <1>5, TornAssumption DEF ReplayEnd, MoreToReplay, TypeOK, Aligned
    <2>2. mem = Logged
        BY <1>5, <2>1 DEF ReplayEnd, Aligned, Logged
    <2> QED
        BY <1>0, <1>5, <2>2 DEF ReplayEnd, Aligned, Logged
<1>6. CASE AppendWrite
    <2>1. Aligned' /\ Logged' = Replayed(Logged, op)
        BY <1>0, <1>6, AppendAligned, AppendRecordType DEF AppendWrite
    <2> QED
        BY <1>0, <1>6, <2>1 DEF AppendWrite
<1>7. CASE AppendSync
    BY <1>0, <1>7 DEF AppendSync, Answer, Aligned, Logged
<1>8. CASE AppendWriteFails \/ AppendSyncFails \/ TruncateFails \/ SnapWriteFails
    BY <1>8 DEF AppendWriteFails, AppendSyncFails, TruncateFails, SnapWriteFails, Unbroken
<1>9. CASE CompactRename
    BY <1>0, <1>9 DEF CompactRename
<1>10. CASE CompactRenameFails
    BY <1>0, <1>10 DEF CompactRenameFails, Answer, Aligned, Logged
<1>11. CASE Truncate
    BY <1>0, <1>11 DEF Truncate, Answer, Aligned, Logged
<1>12. CASE SnapEmpty
    BY <1>0, <1>12 DEF SnapEmpty
<1>13. CASE SnapFill
    BY <1>0, <1>13 DEF SnapFill
<1>14. CASE Crash
    BY <1>0, <1>14 DEF Crash, Stopped, Unbroken, Aligned
<1> QED
    BY <1>1, <1>2, <1>3, <1>4, <1>5, <1>6, <1>7, <1>8, <1>9, <1>10, <1>11, <1>12,
       <1>13, <1>14 DEF AnyStep, Process

(* Each step keeps memory, snapshot and log in the relation it should.     *)
THEOREM StepsStayAligned ==
    ASSUME Unbroken
    PROVE  Spec => []StoreInvariant
<1>1. StoreInvariant /\ Consistent /\ Consistent' /\ [Next]_vars => StoreInvariant'
    BY StoreInvariantStep, NextIsAnyStep
<1> QED
    BY <1>1, StoreInvariantInit, StoreIsConsistent, PTL DEF Spec

-----------------------------------------------------------------------------
(* The process may die anywhere, but nothing that callers do takes nodes or *)
(* edges away.  A process that dies between the new snapshot and the cut   *)
(* of the log leaves records behind that the snapshot holds already; the   *)
(* next recovery replays them on it, and ends where it began.              *)

Growing ==
    /\ Faults \subseteq {"rename"}
    /\ Requests \cap {"rm_edge", "rm_node", "load"} = {}

(* What a record that adds says of a node or an edge.                      *)
Adds(e) == e.op \in {"add_node", "set_attr", "add_edge"}

NamesNode(e, n) == e.op \in {"add_node", "set_attr"} /\ e.id = n
SetsNode(e, n) == NamesNode(e, n) /\ e.attr # Absent
SetsEdge(e, m, n) == e.op = "add_edge" /\ e.from = m /\ e.to = n

Added(g, e) ==
    /\ \A n \in Node : NamesNode(e, n) => HasNode(g, n)
    /\ \A m, n \in Node : SetsEdge(e, m, n) => HasEdge(g, m, n)

(* The graph g has what the first k records of the log w add, and of each  *)
(* node and edge what the last of them says.                               *)
Settled(w, k, g) ==
    /\ \A i \in 1..k : w[i] \in Entries /\ Adds(w[i]) /\ Added(g, w[i])
    /\ \A n \in Node, i \in 1..k :
        SetsNode(w[i], n) /\ (\A j \in (i + 1)..k : ~SetsNode(w[j], n))
        => g.attr[n] = w[i].attr
    /\ \A m, n \in Node, i \in 1..k :
        SetsEdge(w[i], m, n) /\ (\A j \in (i + 1)..k : ~SetsEdge(w[j], m, n))
        => g.edge[m][n] = AddedEdgeAttr(w[i])

(* The graph h has the nodes and the edges of g, and differs from it only  *)
(* in attributes that one of the records from p to k has still to set.     *)
CatchesUp(w, h, p, k, g) ==
    /\ \A n \in Node :
        /\ HasNode(h, n) <=> HasNode(g, n)
        /\ h.attr[n] = g.attr[n] \/ \E i \in p..k : SetsNode(w[i], n)
    /\ \A m, n \in Node :
        /\ HasEdge(h, m, n) <=> HasEdge(g, m, n)
        /\ h.edge[m][n] = g.edge[m][n] \/ \E i \in p..k : SetsEdge(w[i], m, n)

(* What a record that adds does to a graph.                                *)
LEMMA AddingEffect ==
    ASSUME NEW g \in Graphs, NEW e \in Entries, Adds(e), Applicable(g, e)
    PROVE  /\ \A n \in Node :
                /\ HasNode(Effect(g, e), n) <=> HasNode(g, n) \/ NamesNode(e, n)
                /\ SetsNode(e, n) => Effect(g, e).attr[n] = e.attr
                /\ ~SetsNode(e, n) /\ (HasNode(g, n) \/ ~NamesNode(e, n))
                     => Effect(g, e).attr[n] = g.attr[n]
           /\ \A m, n \in Node :
                /\ HasEdge(Effect(g, e), m, n) <=> HasEdge(g, m, n) \/ SetsEdge(e, m, n)
                /\ Effect(g, e).edge[m][n] =
                     IF SetsEdge(e, m, n) THEN AddedEdgeAttr(e) ELSE g.edge[m][n]
<1>1. CASE e.op = "add_node"
    <2>1. e.id \in Node /\ e.attr \in Attr \cup {Absent} /\ AddedAttr(g, e) \in Attr
        BY <1>1, EntryCases, NewAttrs
    <2>2. Effect(g, e) = PutNode(g, e.id, AddedAttr(g, e))
        BY <1>1 DEF Effect
    <2>3. ASSUME e.attr # Absent PROVE AddedAttr(g, e) = e.attr
        BY <2>3 DEF AddedAttr
    <2>4. ASSUME e.attr = Absent, HasNode(g, e.id) PROVE AddedAttr(g, e) = g.attr[e.id]
        BY <2>4 DEF AddedAttr
    <2> QED
        BY <1>1, <2>1, <2>2, <2>3, <2>4, AttrAssumption
        DEF NamesNode, SetsNode, SetsEdge, PutNode, HasNode, HasEdge, Graphs
<1>2. CASE e.op = "set_attr"
    <2>1. e.id \in Node /\ e.attr \in Attr /\ Effect(g, e) = PutNode(g, e.id, e.attr)
        BY <1>2, EntryCases DEF Effect
    <2> QED
        BY <1>2, <2>1, AttrAssumption
        DEF NamesNode, SetsNode, SetsEdge, PutNode, HasNode, HasEdge, Graphs
<1>3. CASE e.op = "add_edge"
    <2>1. e.from \in Node /\ e.to \in Node /\ AddedEdgeAttr(e) \in EdgeAttr
        BY <1>3, EntryCases, NewAttrs
    <2>2. Effect(g, e) = PutEdge(g, e.from, e.to, AddedEdgeAttr(e))
        BY <1>3 DEF Effect
    <2> QED
        BY <1>3, <2>1, <2>2, EdgeAttrAssumption
        DEF NamesNode, SetsNode, SetsEdge, PutEdge, HasNode, HasEdge, Graphs
<1> QED
    BY <1>1, <1>2, <1>3 DEF Adds

(* A graph that has caught up is the graph.                                *)
LEMMA CaughtUp ==
    ASSUME NEW g \in Graphs, NEW h \in Graphs, NEW w, NEW k \in Nat,
           CatchesUp(w, h, k + 1, k, g)
    PROVE  h = g
<1>1. \A n \in Node : h.attr[n] = g.attr[n]
    BY DEF CatchesUp
<1>2. \A m, n \in Node : h.edge[m][n] = g.edge[m][n]
    BY DEF CatchesUp
<1>3. h.attr = g.attr
    BY <1>1 DEF Graphs
<1>4. h.edge = g.edge
    <2>1. \A m \in Node : h.edge[m] = g.edge[m]
        BY <1>2 DEF Graphs
    <2> QED
        BY <2>1 DEF Graphs
<1> QED
    BY <1>3, <1>4 DEF Graphs

(* Records that were applied once apply again, for a DAG that holds their  *)
(* edge has no path back along it; they change nothing but attributes.     *)
LEMMA CatchUpStep ==
    ASSUME NEW g \in Graphs, NEW h \in Graphs, IsDag(h),
           NEW w, NEW k \in Nat, NEW p \in 1..k, Settled(w, k, g), CatchesUp(w, h, p, k, g)
    PROVE  CatchesUp(w, Replayed(h, w[p]), p + 1, k, g)
<1> DEFINE e == w[p]
           f == Effect(h, e)
<1>1. e \in Entries /\ Adds(e) /\ Added(g, e)
    BY DEF Settled
<1>2. /\ \A n \in Node : NamesNode(e, n) => HasNode(h, n)
      /\ \A m, n \in Node : SetsEdge(e, m, n) => HasEdge(h, m, n)
    BY <1>1 DEF Added, CatchesUp
<1>3. Applicable(h, e)
    <2>1. CASE e.op = "add_node"
        BY <2>1 DEF Applicable
    <2>2. CASE e.op = "set_attr"
        BY <1>1, <1>2, <2>2, EntryCases DEF Applicable, NamesNode
    <2>3. CASE e.op = "add_edge"
        <3>1. e.from \in Node /\ e.to \in Node /\ HasEdge(h, e.from, e.to)
            BY <1>1, <1>2, <2>3, EntryCases DEF SetsEdge
        <3>2. EdgeAllowed(h, e.from, e.to)
            BY <3>1, NoSelfLoop, NoWayBack DEF EdgeAllowed, IsDag, EndsPresent
        <3> QED
            BY <2>3, <3>2 DEF Applicable
    <2> QED
        BY <1>1, <2>1, <2>2, <2>3 DEF Adds
<1>4. Replayed(h, w[p]) = f
    BY <1>3 DEF Replayed
<1>5. /\ \A n \in Node :
            /\ HasNode(f, n) <=> HasNode(h, n)
            /\ SetsNode(e, n) => f.attr[n] = e.attr
            /\ ~SetsNode(e, n) => f.attr[n] = h.attr[n]
      /\ \A m, n \in Node :
            /\ HasEdge(f, m, n) <=> HasEdge(h, m, n)
            /\ f.edge[m][n] = IF SetsEdge(e, m, n) THEN AddedEdgeAttr(e) ELSE h.edge[m][n]
    BY <1>1, <1>2, <1>3, AddingEffect
<1> HIDE DEF f
<1>6. ASSUME NEW n \in Node
      PROVE  f.attr[n] = g.attr[n] \/ \E i \in (p + 1)..k : SetsNode(w[i], n)
    <2>1. CASE SetsNode(e, n)
        BY <1>5, <2>1 DEF Settled
    <2>2. CASE ~SetsNode(e, n)
        BY <1>5, <2>2 DEF CatchesUp
    <2> QED
        BY <2>1, <2>2
<1>7. ASSUME NEW m \in Node, NEW n \in Node
      PROVE  f.edge[m][n] = g.edge[m][n] \/ \E i \in (p + 1)..k : SetsEdge(w[i], m, n)
    <2>1. CASE SetsEdge(e, m, n)
        BY <1>5, <2>1 DEF Settled
    <2>2. CASE ~SetsEdge(e, m, n)
        BY <1>5, <2>2 DEF CatchesUp
    <2> QED
        BY <2>1, <2>2
<1> QED
    BY <1>4, <1>5, <1>6, <1>7 DEF CatchesUp

(* What a log settles depends on no record behind it.                      *)
LEMMA SettledPrefix ==
    ASSUME NEW w, NEW v, NEW k \in Nat, NEW g, Settled(w, k, g),
           \A i \in 1..k : v[i] = w[i]
    PROVE  Settled(v, k, g)
<1>1. \A i \in 1..k : v[i] \in Entries /\ Adds(v[i]) /\ Added(g, v[i])
    BY DEF Settled
<1>2. \A i \in 1..k : \A j \in (i + 1)..k : v[j] = w[j]
    OBVIOUS
<1>3. \A n \in Node, i \in 1..k :
        SetsNode(v[i], n) /\ (\A j \in (i + 1)..k : ~SetsNode(v[j], n))
        => g.attr[n] = v[i].attr
    BY <1>2 DEF Settled
<1>4. \A m, n \in Node, i \in 1..k :
        SetsEdge(v[i], m, n) /\ (\A j \in (i + 1)..k : ~SetsEdge(v[j], m, n))
        => g.edge[m][n] = AddedEdgeAttr(v[i])
    BY <1>2 DEF Settled
<1> QED
    BY <1>1, <1>3, <1>4 DEF Settled

(* A record that applies settles with those before it.                     *)
LEMMA SettledAppend ==
    ASSUME NEW w, NEW v, NEW k \in Nat, NEW g \in Graphs, Settled(w, k, g),
           NEW e \in Entries, Adds(e), Applicable(g, e),
           \A i \in 1..k : v[i] = w[i], v[k + 1] = e
    PROVE  Settled(v, k + 1, Replayed(g, e))
<1> DEFINE f == Effect(g, e)
<1>1. Replayed(g, e) = f
    BY DEF Replayed
<1>2. Settled(v, k, g)
    BY SettledPrefix
<1>3. /\ \A n \in Node :
            /\ HasNode(f, n) <=> HasNode(g, n) \/ NamesNode(e, n)
            /\ SetsNode(e, n) => f.attr[n] = e.attr
            /\ ~SetsNode(e, n) /\ HasNode(g, n) => f.attr[n] = g.attr[n]
      /\ \A m, n \in Node :
            /\ HasEdge(f, m, n) <=> HasEdge(g, m, n) \/ SetsEdge(e, m, n)
            /\ f.edge[m][n] = IF SetsEdge(e, m, n) THEN AddedEdgeAttr(e) ELSE g.edge[m][n]
    BY AddingEffect
<1> HIDE DEF f
<1>4. ASSUME NEW i \in 1..(k + 1)
      PROVE  v[i] \in Entries /\ Adds(v[i]) /\ Added(f, v[i])
    <2>1. CASE i \in 1..k
        BY <1>2, <1>3, <2>1 DEF Settled, Added
    <2>2. CASE i = k + 1
        BY <1>3, <2>2 DEF Added
    <2> QED
        BY <2>1, <2>2
<1>5. ASSUME NEW n \in Node, NEW i \in 1..(k + 1), SetsNode(v[i], n),
             \A j \in (i + 1)..(k + 1) : ~SetsNode(v[j], n)
      PROVE  f.attr[n] = v[i].attr
    <2>1. CASE i = k + 1
        BY <1>3, <1>5, <2>1
    <2>2. CASE i \in 1..k
        <3>1. k + 1 \in (i + 1)..(k + 1) /\ \A j \in (i + 1)..k : j \in (i + 1)..(k + 1)
            BY <2>2
        <3>2. ~SetsNode(e, n) /\ g.attr[n] = v[i].attr
            BY <1>2, <1>5, <2>2, <3>1 DEF Settled
        <3>3. HasNode(g, n)
            BY <1>2, <1>5, <2>2 DEF Settled, Added, SetsNode
        <3> QED
            BY <1>3, <3>2, <3>3
    <2> QED
        BY <2>1, <2>2
<1>6. ASSUME NEW m \in Node, NEW n \in Node, NEW i \in 1..(k + 1), SetsEdge(v[i], m, n),
             \A j \in (i + 1)..(k + 1) : ~SetsEdge(v[j], m, n)
      PROVE  f.edge[m][n] = AddedEdgeAttr(v[i])
    <2>1. CASE i = k + 1
        BY <1>3, <1>6, <2>1
    <2>2. CASE i \in 1..k
        <3>1. k + 1 \in (i + 1)..(k + 1) /\ \A j \in (i + 1)..k : j \in (i + 1)..(k + 1)
            BY <2>2
        <3>2. ~SetsEdge(e, m, n) /\ g.edge[m][n] = AddedEdgeAttr(v[i])
            BY <1>2, <1>6, <2>2, <3>1 DEF Settled
        <3> QED
            BY <1>3, <3>2
    <2> QED
        BY <2>1, <2>2
<1> QED
    BY <1>1, <1>4, <1>5, <1>6 DEF Settled

(* The records of the log that the snapshot holds already.                 *)
Covered == Len(wal) + 1 - Len(history)

(* The records behind those take the snapshot to the graph that the files  *)
(* stand for.                                                              *)
Follows ==
    /\ Covered \in 0..Len(wal)
    /\ history[1] = snap
    /\ \A i \in (Covered + 1)..Len(wal) :
        /\ wal[i] \in Entries
        /\ history[i - Covered + 1] = Replayed(history[i - Covered], wal[i])

GrownFiles ==
    /\ Follows
    /\ Settled(wal, Covered, snap)
    /\ Settled(wal, Len(wal), Logged)

(* StoreInvariant with a log that may overlap the snapshot.                *)
GrownInvariant ==
    /\ GrownFiles
    /\ pc \notin {"snapwrite", "snapfill"}
    /\ pc \notin {"down", "replay"} => fd = "open"
    /\ pc = "replay" =>
        /\ pos \in 1..(Len(wal) + 1)
        /\ pos <= Covered => CatchesUp(wal, mem, pos, Covered, snap)
        /\ pos > Covered => mem = history[pos - Covered]
    /\ pc \in {"idle", "rename"} => mem = Logged
    /\ pc \in {"append", "sync"} => op \in Entries /\ Adds(op)
    /\ pc = "append" =>
        /\ Applicable(Logged, op)
        /\ mem = IF op.op = "add_node" THEN Logged ELSE Replayed(Logged, op)
    /\ pc = "sync" =>
        Logged = IF op.op = "add_node" THEN Replayed(mem, op) ELSE mem
    /\ pc = "truncate" => history = <<mem>>

LEMMA NothingSettled ==
    ASSUME NEW w, NEW g
    PROVE  Settled(w, 0, g)
BY DEF Settled

LEMMA GrownInit == Init => GrownInvariant
<1> SUFFICES ASSUME Init PROVE GrownInvariant
    OBVIOUS
<1>1. Len(wal) = 0 /\ Covered = 0 /\ history[1] = snap
    BY DEF Init, Covered
<1>2. GrownFiles
    BY <1>1, NothingSettled DEF GrownFiles, Follows
<1> QED
    BY <1>2 DEF Init, GrownInvariant

LEMMA GrownFilesStay ==
    ASSUME GrownFiles, UNCHANGED files
    PROVE  GrownFiles' /\ Covered' = Covered /\ Logged' = Logged
BY DEF GrownFiles, Follows, Covered, Logged, files

(* A record that adds, written whole.                                      *)
LEMMA GrownAppend ==
    ASSUME TypeOK, GrownFiles, op \in Entries, Adds(op), Applicable(Logged, op),
           AppendRecord, UNCHANGED snap
    PROVE  GrownFiles'
<1> DEFINE next == Replayed(Logged, op)
<1>1. next \in Graphs /\ Logged \in Graphs
    BY LoggedType, ReplayedFacts
<1>2. wal' = Append(wal, op) /\ history' = Append(history, next)
    BY DEF AppendRecord
<1>3. /\ wal \in Seq(Entries \cup {Torn}) /\ history \in Seq(Graphs)
      /\ Len(wal) \in Nat /\ Len(history) \in Nat /\ Len(history) > 0
      /\ Covered \in 0..Len(wal) /\ Len(history) = Len(wal) + 1 - Covered
    BY DEF TypeOK, GrownFiles, Follows, Covered
<1>4. Logged' = next
    BY AppendRecordType
<1> HIDE DEF next
<1>5. /\ Len(wal') = Len(wal) + 1 /\ wal'[Len(wal) + 1] = op
      /\ \A i \in 1..Len(wal) : wal'[i] = wal[i]
      /\ Len(history') = Len(history) + 1 /\ history'[Len(history) + 1] = next
      /\ \A i \in 1..Len(history) : history'[i] = history[i]
    <2>1. /\ Len(wal') = Len(wal) + 1 /\ wal'[Len(wal) + 1] = op
          /\ \A i \in 1..Len(wal) : wal'[i] = wal[i]
        BY <1>2, <1>3
    <2>2. /\ Len(history') = Len(history) + 1 /\ history'[Len(history) + 1] = next
          /\ \A i \in 1..Len(history) : history'[i] = history[i]
        BY <1>1, <1>2, <1>3
    <2> QED
        BY <2>1, <2>2
<1>6. Covered' = Covered
    BY <1>3, <1>5 DEF Covered
<1>7. ASSUME NEW i \in (Covered + 1)..Len(wal')
      PROVE  /\ wal'[i] \in Entries
             /\ history'[i - Covered + 1] = Replayed(history'[i - Covered], wal'[i])
    <2>1. CASE i \in (Covered + 1)..Len(wal)
        <3>1. /\ i \in 1..Len(wal)
              /\ i - Covered \in 1..Len(history) /\ i - Covered + 1 \in 1..Len(history)
            BY <1>3, <2>1
        <3>2. /\ wal[i] \in Entries
              /\ history[i - Covered + 1] = Replayed(history[i - Covered], wal[i])
            BY <2>1 DEF GrownFiles, Follows
        <3> QED
            BY <1>5, <3>1, <3>2
    <2>2. CASE i = Len(wal) + 1
        <3>1. i - Covered = Len(history) /\ i - Covered \in 1..Len(history)
            BY <1>3, <2>2
        <3>2. history'[i - Covered] = Logged
            BY <1>5, <3>1 DEF Logged
        <3>3. wal'[i] = op /\ history'[i - Covered + 1] = next
            BY <1>5, <2>2, <3>1
        <3> QED
            BY <3>2, <3>3 DEF next
    <2> QED
        BY <1>3, <1>5, <2>1, <2>2
<1>8. Follows'
    <2>1. Covered' \in 0..Len(wal')
        BY <1>3, <1>5, <1>6
    <2>2. history'[1] = snap'
        <3>1. 1 \in 1..Len(history)
            BY <1>3
        <3> QED
            BY <1>5, <3>1 DEF GrownFiles, Follows
    <2>3. \A i \in (Covered' + 1)..Len(wal') :
            /\ wal'[i] \in Entries
            /\ history'[i - Covered' + 1] = Replayed(history'[i - Covered'], wal'[i])
        BY <1>6, <1>7
    <2> QED
        BY <2>1, <2>2, <2>3, Zenon DEF Follows
<1>9. Settled(wal', Covered, snap')
    <2>1. Covered \in Nat /\ \A i \in 1..Covered : wal'[i] = wal[i]
        BY <1>3, <1>5
    <2> QED
        BY <2>1, SettledPrefix DEF GrownFiles
<1>10. Settled(wal', Len(wal) + 1, next)
    BY <1>1, <1>3, <1>5, SettledAppend DEF GrownFiles, next
<1> QED
    BY <1>4, <1>5, <1>6, <1>8, <1>9, <1>10 DEF GrownFiles

LEMMA GrownStep ==
    ASSUME Growing
    PROVE  GrownInvariant /\ Consistent /\ Recoverable /\ [AnyStep]_vars => GrownInvariant'
<1> SUFFICES ASSUME GrownInvariant, Consistent, Recoverable, [AnyStep]_vars
             PROVE  GrownInvariant'
    OBVIOUS
<1> USE DEF GrownInvariant
<1>0. /\ TypeOK /\ GrownFiles
      /\ Len(wal) \in Nat /\ Len(history) \in Nat
      /\ Covered \in 0..Len(wal) /\ Len(history) = Len(wal) + 1 - Covered
      /\ \A i \in 1..Len(wal) : wal[i] \in Entries
      /\ snap = history[1] /\ snap \in Graphs /\ mem \in Graphs
    BY DEF Consistent, TypeOK, GrownFiles, Follows, Covered, Settled
<1>1. UNCHANGED files => GrownFiles' /\ Covered' = Covered /\ Logged' = Logged
    BY <1>0, GrownFilesStay
<1>2. CASE UNCHANGED vars
    BY <1>1, <1>2 DEF vars, files
<1>3. CASE Logs
    <2>1. PICK e \in Entries : StartsLogging(e)
        BY <1>3 DEF Logs
    <2>2. Adds(e)
        BY <2>1, EntryCases
        DEF Growing, StartsLogging, LogFirst, ApplyFirst, Request, Adds
    <2>3. mem = Logged /\ Applicable(Logged, e) /\ UNCHANGED files
        BY <2>1, LogsFacts DEF Applicable, files
    <2>4. mem' = IF e.op = "add_node" THEN Logged ELSE Replayed(Logged, e)
        BY <2>1, <2>3, LogsFacts DEF Replayed
    <2> QED
        BY <1>1, <2>1, <2>2, <2>3, <2>4, LogsFacts
<1>4. CASE Compact
    BY <1>1, <1>4 DEF Compact, Request, files
<1>5. CASE \E g \in Docs : LoadSnapshot(g)
    BY <1>5 DEF LoadSnapshot, Request, Growing
<1>6. CASE Ends
    BY <1>1, <1>6 DEF Ends, Stopped, files
<1>7. CASE Open
    <2>1. mem' = snap /\ pc' = "replay" /\ pos' = 1 /\ UNCHANGED files
        BY <1>7 DEF Open, files
    <2>2. CatchesUp(wal, snap, 1, Covered, snap)
        BY DEF CatchesUp
    <2>3. 1 > Covered => snap = history[1 - Covered]
        BY <1>0
    <2> QED
        BY <1>0, <1>1, <2>1, <2>2, <2>3 DEF files
<1>8. CASE ReplayEntry
    <2>1. /\ pc = "replay" /\ pc' = "replay" /\ pos \in 1..Len(wal) /\ pos' = pos + 1
          /\ mem' = Replayed(mem, wal[pos]) /\ UNCHANGED files
        BY <1>0, <1>8 DEF ReplayEntry, MoreToReplay, files
    <2>2. ASSUME pos <= Covered
          PROVE  CatchesUp(wal, mem', pos + 1, Covered, snap)
        BY <1>0, <2>1, <2>2, CatchUpStep DEF Recoverable, GrownFiles
    <2>3. ASSUME pos + 1 > Covered
          PROVE  mem' = history[pos + 1 - Covered]
        <3>1. CASE pos = Covered
            <4>1. mem' \in Graphs
                BY <1>0, <2>1, ReplayedFacts
            <4>2. mem' = snap
                BY <1>0, <2>2, <3>1, <4>1, CaughtUp
            <4> QED
                BY <1>0, <3>1, <4>2
        <3>2. CASE pos > Covered
            <4>1. history[pos - Covered + 1] = Replayed(history[pos - Covered], wal[pos])
                BY <1>0, <2>1, <3>2 DEF GrownFiles, Follows
            <4> QED
                BY <1>0, <2>1, <3>2, <4>1
        <3> QED
            BY <1>0, <2>1, <2>3, <3>1, <3>2
    <2> QED
        BY <1>0, <1>1, <2>1, <2>2, <2>3 DEF files
<1>9. CASE ReplayEnd
    <2>1. pos = Len(wal) + 1
        BY <1>0, <1>9, TornAssumption DEF ReplayEnd, MoreToReplay
    <2>2. mem = Logged
        BY <1>0, <1>9, <2>1 DEF ReplayEnd, Logged
    <2> QED
        BY <1>1, <1>9, <2>2 DEF ReplayEnd, files
<1>10. CASE AppendWrite
    <2>1. GrownFiles' /\ Logged' = Replayed(Logged, op)
        BY <1>0, <1>10, GrownAppend, AppendRecordType DEF AppendWrite
    <2> QED
        BY <1>0, <1>10, <2>1 DEF AppendWrite
<1>11. CASE AppendSync
    BY <1>1, <1>11 DEF AppendSync, Answer, files
<1>12. CASE CompactRename
    <2>1. /\ mem = Logged /\ snap' = mem /\ history' = <<mem>> /\ wal' = wal
          /\ pc = "rename" /\ pc' = "truncate" /\ mem' = mem /\ fd' = fd
        BY <1>12 DEF CompactRename
    <2>2. Covered' = Len(wal) /\ Logged' = mem /\ history'[1] = mem
        BY <1>0, <2>1 DEF Covered, Logged
    <2>3. GrownFiles'
        BY <1>0, <2>1, <2>2 DEF GrownFiles, Follows
    <2> QED
        BY <2>1, <2>3
<1>13. CASE CompactRenameFails
    BY <1>1, <1>13 DEF CompactRenameFails, Answer, files
<1>14. CASE Truncate
    <2>1. /\ history = <<mem>> /\ wal' = <<>> /\ UNCHANGED <<mem, snap, history>>
          /\ pc' = "idle" /\ fd' = "open"
        BY <1>14 DEF Truncate, Answer
    <2>2. Len(wal') = 0 /\ Covered' = 0 /\ Logged' = mem /\ history'[1] = snap'
        BY <1>0, <2>1 DEF Covered, Logged
    <2>3. GrownFiles'
        BY <2>2, NothingSettled DEF GrownFiles, Follows
    <2> QED
        BY <2>1, <2>2, <2>3
<1>15. CASE \/ AppendWriteFails \/ AppendSyncFails \/ TruncateFails
            \/ SnapEmpty \/ SnapFill \/ SnapWriteFails
    BY <1>15 DEF AppendWriteFails, AppendSyncFails, TruncateFails, SnapEmpty, SnapFill,
        SnapWriteFails, Growing
<1>16. CASE Crash
    <2>1. UNCHANGED files /\ pc' = "down"
        BY <1>16 DEF Crash, Stopped, Growing, files
    <2> QED
        BY <1>1, <2>1
<1> QED
    BY <1>2, <1>3, <1>4, <1>5, <1>6, <1>7, <1>8, <1>9, <1>10, <1>11, <1>12, <1>13,
       <1>14, <1>15, <1>16 DEF AnyStep, Process

(* Each step keeps memory, snapshot and log in that relation, even when    *)
(* the process dies before it has cut the log.                             *)
THEOREM GrowingStaysAligned ==
    ASSUME Growing, Acyclics
    PROVE  Spec => []GrownInvariant
<1>1. Init => GrownInvariant /\ Recoverable
    BY GrownInit, RecoverableInit
<1>2. Consistent /\ Recoverable /\ [Next]_vars => Recoverable'
    BY RecoverableStep, NextIsAnyStep
<1>3. GrownInvariant /\ Consistent /\ Recoverable /\ [Next]_vars => GrownInvariant'
    BY GrownStep, NextIsAnyStep
<1> QED
    BY <1>1, <1>2, <1>3, StoreIsConsistent, PTL DEF Spec

-----------------------------------------------------------------------------
(* Under either condition.                                                 *)

Safe == Unbroken \/ (Growing /\ Acyclics)

Shows ==
    /\ pc \in {"idle", "rename", "truncate"} => mem = Logged
    /\ pc \notin {"down", "replay"} => fd = "open"

LEMMA AlignedShows == StoreInvariant \/ GrownInvariant => Shows
BY DEF StoreInvariant, GrownInvariant, Shows, Logged

LEMMA StoreShows ==
    ASSUME Safe
    PROVE  Spec => []Shows
<1>1. CASE Unbroken
    BY <1>1, StepsStayAligned, AlignedShows, PTL
<1>2. CASE Growing /\ Acyclics
    BY <1>2, GrowingStaysAligned, AlignedShows, PTL
<1> QED
    BY <1>1, <1>2 DEF Safe

(* Whatever readers of an open store see is what the next recovery will    *)
(* show, whichever operations, deaths and recoveries came before.          *)
THEOREM ReadersSeeWhatIsLogged ==
    ASSUME Safe
    PROVE  Spec => []MemoryIsLogged
<1>1. Shows => MemoryIsLogged
    BY DEF Shows, MemoryIsLogged
<1> QED
    BY <1>1, StoreShows, PTL

-----------------------------------------------------------------------------
(* The store implements DurableGraph.                                      *)

(* What the request in progress is, and that the files stand for a DAG.    *)
Requested ==
    /\ IsDag(Logged)
    /\ pc = "rename" => op = [op |-> "compact"]
    /\ pc \in {"snapwrite", "snapfill"} => op = [op |-> "load"] /\ mem \in Docs

LEMMA RequestedInit ==
    ASSUME Acyclics
    PROVE  Init => Requested
BY DEF Init, Requested, Acyclics, Logged

LEMMA RequestedStep ==
    ASSUME Acyclics
    PROVE  Consistent /\ Recoverable /\ Requested /\ [AnyStep]_vars => Requested'
<1> SUFFICES ASSUME Consistent, Recoverable, Requested, [AnyStep]_vars PROVE Requested'
    OBVIOUS
<1> USE DEF Requested
<1>1. CASE UNCHANGED vars
    BY <1>1 DEF vars, Logged
<1>2. CASE Logs \/ Compact \/ (\E g \in Docs : LoadSnapshot(g)) \/ Ends
    <2>1. ASSUME NEW e \in Entries, StartsLogging(e) PROVE Requested'
        BY <2>1, LogsFacts DEF Logged
    <2>2. CASE Compact
        BY <2>2 DEF Compact, Request, Logged
    <2>3. ASSUME NEW g \in Docs, LoadSnapshot(g) PROVE Requested'
        BY <2>3 DEF LoadSnapshot, Request, Logged
    <2>4. CASE Ends
        BY <2>4 DEF Ends, Stopped, files, Logged
    <2> QED
        BY <1>2, <2>1, <2>2, <2>3, <2>4 DEF Logs
<1>3. CASE AppendRecord /\ pc' \notin {"rename", "snapwrite", "snapfill"} /\ op \in Entries
    BY <1>3, AppendRecordType, LoggedType, ReplayedFacts DEF Consistent
<1>4. CASE AppendWrite
    BY <1>3, <1>4 DEF AppendWrite, Consistent
<1>5. CASE AppendWriteFails
    <2>1. pc' = "idle" /\ op \in Entries /\ (UNCHANGED history \/ AppendRecord)
        BY <1>5 DEF AppendWriteFails, Answer, Consistent
    <2> QED
        BY <1>3, <2>1 DEF Logged
<1>6. CASE CompactRename \/ SnapFill
    BY <1>6 DEF CompactRename, SnapFill, Recoverable, Logged
<1>7. CASE \/ Open \/ ReplayEntry \/ ReplayEnd \/ AppendSync \/ AppendSyncFails
           \/ CompactRenameFails \/ Truncate \/ TruncateFails \/ SnapEmpty
           \/ SnapWriteFails \/ Crash
    BY <1>7 DEF Open, ReplayEntry, ReplayEnd, AppendSync, AppendSyncFails,
        CompactRenameFails, Truncate, TruncateFails, SnapEmpty, SnapWriteFails,
        Crash, Stopped, Answer, Logged
<1> QED
    BY <1>1, <1>2, <1>4, <1>5, <1>6, <1>7 DEF AnyStep, Process

(* Both specifications speak of the same graphs.                           *)
LEMMA SameGraphs ==
    /\ Durable!Graphs = Graphs
    /\ \A g : Durable!IsDag(g) <=> IsDag(g)
    /\ \A g, n, a : Durable!PutNode(g, n, a) = PutNode(g, n, a)
    /\ \A g, m, n, a : Durable!PutEdge(g, m, n, a) = PutEdge(g, m, n, a)
    /\ \A g, m, n : Durable!DropEdge(g, m, n) = DropEdge(g, m, n)
    /\ \A g, n : Durable!DropNode(g, n) = DropNode(g, n)
<1>1. Durable!Graphs = Graphs
    BY DEF Durable!Graphs, Graphs
<1>2. ASSUME NEW g PROVE Durable!IsDag(g) <=> IsDag(g)
    BY DEF Durable!IsDag, IsDag, Durable!Acyclic, Acyclic, Durable!EndsPresent,
        EndsPresent, Durable!HasEdge, HasEdge, Durable!HasNode, HasNode
<1>3. ASSUME NEW g, NEW m, NEW n, NEW a
      PROVE  /\ Durable!PutNode(g, n, a) = PutNode(g, n, a)
             /\ Durable!PutEdge(g, m, n, a) = PutEdge(g, m, n, a)
             /\ Durable!DropEdge(g, m, n) = DropEdge(g, m, n)
             /\ Durable!DropNode(g, n) = DropNode(g, n)
    BY DEF Durable!PutNode, PutNode, Durable!PutEdge, PutEdge,
        Durable!DropEdge, DropEdge, Durable!DropNode, DropNode
<1> QED
    BY <1>1, <1>2, <1>3

(* An entry that reaches the log is one operation of the graph; one that   *)
(* does not apply would change nothing, like removing an absent edge.      *)
LEMMA ReplayedIsOneOperation ==
    ASSUME NEW g \in Graphs, NEW e \in Entries, IsDag(g)
    PROVE  Durable!OneOperation(g, Replayed(g, e))
<1>1. CASE ~Applicable(g, e)
    <2>1. PICK n \in Node : TRUE
        BY EntryCases
    <2>2. ~HasEdge(g, n, n)
        BY {n} \in SUBSET Node DEF IsDag, Acyclic
    <2>3. DropEdge(g, n, n) = g
        BY <2>2 DEF HasEdge, DropEdge, Graphs
    <2> QED
        BY <1>1, <2>3, SameGraphs DEF Replayed, Durable!OneOperation
<1>2. CASE Applicable(g, e)
    <2>1. Replayed(g, e) = Effect(g, e)
        BY <1>2 DEF Replayed
    <2>2. \/ \E n \in Node, a \in Attr : Effect(g, e) = PutNode(g, n, a)
          \/ \E m, n \in Node, a \in EdgeAttr : Effect(g, e) = PutEdge(g, m, n, a)
          \/ \E m, n \in Node : Effect(g, e) = DropEdge(g, m, n)
          \/ \E n \in Node : Effect(g, e) = DropNode(g, n)
        BY EntryCases, NewAttrs DEF Effect
    <2> QED
        BY <2>1, <2>2, SameGraphs DEF Durable!OneOperation
<1> QED
    BY <1>1, <1>2

LEMMA DurableInit ==
    ASSUME Acyclics
    PROVE  Init => Durable!Init
<1> SUFFICES ASSUME Init PROVE Durable!Init
    OBVIOUS
<1>1. Logged \in Graphs /\ IsDag(Logged)
    BY DocsAssumption DEF Init, Acyclics, Logged
<1> QED
    BY <1>1, SameGraphs DEF Init, Durable!Init, Shown, Status

LEMMA DurableStep ==
    ASSUME Safe, Acyclics
    PROVE  /\ Consistent /\ Shows /\ Shows' /\ Recoverable
           /\ Requested /\ Requested' /\ [Next]_vars
           => [Durable!Next]_Durable!vars
<1> SUFFICES ASSUME Consistent, Shows, Shows', Recoverable,
                    Requested, Requested', [Next]_vars
             PROVE  [Durable!Next]_Durable!vars
    OBVIOUS
<1>0. /\ pc \in {"down", "replay"} => Status = "down" /\ Shown = None
      /\ pc = "idle" => Status = "serving" /\ Shown = Logged
      /\ pc = "sync" => Status = "committed" /\ Shown = None
      /\ pc = "truncate" => Status \in {"committed", "busy"} /\ Shown = None
      /\ pc \in {"append", "rename", "snapwrite", "snapfill"} =>
            Status = "busy" /\ Shown = None
    BY DEF Status, Shown, Shows
<1>1. /\ pc' \in {"down", "replay"} => Status' = "down" /\ Shown' = None
      /\ pc' = "idle" => Status' = "serving" /\ Shown' = Logged'
      /\ pc' = "sync" => Status' = "committed" /\ Shown' = None
      /\ pc' = "truncate" =>
            /\ Status' = IF op'.op = "load" THEN "committed" ELSE "busy"
            /\ Shown' = None
      /\ pc' \in {"append", "rename", "snapwrite", "snapfill"} =>
            Status' = "busy" /\ Shown' = None
    BY DEF Status, Shown, Shows
<1> DEFINE Stays == Logged' = Logged /\ Shown' = Shown /\ Status' = Status
<1>2. Stays => [Durable!Next]_Durable!vars
    BY DEF Durable!vars
<1>3. CASE UNCHANGED vars
    BY <1>2, <1>3 DEF vars, Logged, Shown, Status
<1>4. CASE Caller
    <2>1. ASSUME NEW e \in Entries, StartsLogging(e) PROVE Durable!Begin
        BY <1>0, <1>1, <2>1, LogsFacts DEF Durable!Begin, Logged
    <2>2. ASSUME Compact PROVE Durable!Begin
        BY <1>0, <1>1, <2>2 DEF Compact, Request, Durable!Begin, Logged
    <2>3. ASSUME NEW g \in Docs, LoadSnapshot(g) PROVE Durable!Begin
        BY <1>0, <1>1, <2>3 DEF LoadSnapshot, Request, Durable!Begin, Logged
    <2>4. ASSUME Ends PROVE Durable!Crash
        BY <1>0, <1>1, <2>4 DEF Ends, Stopped, files, Durable!Crash, Logged
    <2> QED
        BY <1>4, <2>1, <2>2, <2>3, <2>4, CallerCases DEF Logs, Durable!Next
<1>5. CASE Open \/ ReplayEntry \/ SnapEmpty
    BY <1>0, <1>1, <1>2, <1>5 DEF Open, ReplayEntry, SnapEmpty, Logged
<1>6. CASE ReplayEnd
    <2>1. Durable!Recover
        BY <1>0, <1>1, <1>6 DEF ReplayEnd, Durable!Recover, Logged
    <2> QED
        BY <2>1 DEF Durable!Next
<1>7. CASE AppendWrite
    <2>1. op \in Entries /\ Logged \in Graphs
        BY <1>7, LoggedType DEF AppendWrite, Consistent
    <2>2. Logged' = Replayed(Logged, op)
        BY <1>7, <2>1, AppendRecordType DEF AppendWrite, Consistent
    <2>3. Durable!OneOperation(Logged, Logged')
        BY <2>1, <2>2, ReplayedIsOneOperation DEF Requested
    <2>4. Durable!Commit
        BY <1>0, <1>1, <1>7, <2>3, SameGraphs DEF AppendWrite, Durable!Commit, Requested
    <2> QED
        BY <2>4 DEF Durable!Next
<1>8. CASE AppendSync \/ CompactRenameFails \/ Truncate
    <2>1. Logged' = Logged
        BY <1>8 DEF AppendSync, CompactRenameFails, Truncate, Logged
    <2>2. Durable!Finish
        BY <1>0, <1>1, <1>8, <2>1
        DEF AppendSync, CompactRenameFails, Truncate, Answer, Durable!Finish
    <2> QED
        BY <2>2 DEF Durable!Next
<1>9. CASE CompactRename
    <2>1. Logged' = Logged /\ op'.op = "compact"
        BY <1>9 DEF CompactRename, Shows, Requested, Logged
    <2> QED
        BY <1>0, <1>1, <1>2, <1>9, <2>1 DEF CompactRename
<1>10. CASE SnapFill
    <2>1. Logged' \in Docs /\ op'.op = "load"
        BY <1>10 DEF SnapFill, Requested, Logged
    <2>2. Durable!Commit
        BY <1>0, <1>1, <1>10, <2>1, SameGraphs DEF SnapFill, Requested, Durable!Commit
    <2> QED
        BY <2>2 DEF Durable!Next
<1>11. CASE AppendWriteFails \/ AppendSyncFails \/ TruncateFails \/ SnapWriteFails
    BY <1>11 DEF AppendWriteFails, AppendSyncFails, TruncateFails, SnapWriteFails,
        Safe, Unbroken, Growing, Shows
<1>12. CASE Crash
    <2>1. Logged' = Logged /\ pc' = "down"
        BY <1>12 DEF Crash, Stopped, Logged
    <2>2. CASE pc = "replay"
        BY <1>0, <1>1, <1>2, <2>1, <2>2
    <2>3. CASE pc # "replay"
        <3>1. pc # "down" /\ pc \in Steps
            BY <1>12, CrashAssumption DEF Crash, Steps
        <3>2. Status # "down"
            BY <1>0, <2>3, <3>1 DEF Steps
        <3>3. Durable!Crash
            BY <1>1, <2>1, <3>2 DEF Durable!Crash
        <3> QED
            BY <3>3 DEF Durable!Next
    <2> QED
        BY <2>2, <2>3
<1> QED
    BY <1>3, <1>4, <1>5, <1>6, <1>7, <1>8, <1>9, <1>10, <1>11, <1>12 DEF Next, Process

(* Every behaviour of the store is a behaviour of one durable graph: a     *)
(* request takes effect at most once, at the write of its record or at the *)
(* rename or write of its snapshot, and a recovery shows exactly the       *)
(* requests that took effect.                                              *)
THEOREM StoreImplementsDurable ==
    ASSUME Safe, Acyclics
    PROVE  Spec => DurableSpec
<1>1. Init => Recoverable /\ Requested /\ Durable!Init
    BY RecoverableInit, RequestedInit, DurableInit
<1>2. Consistent /\ Recoverable /\ [Next]_vars => Recoverable'
    BY RecoverableStep, NextIsAnyStep
<1>3. Consistent /\ Recoverable /\ Requested /\ [Next]_vars => Requested'
    BY RequestedStep, NextIsAnyStep
<1>4. /\ Consistent /\ Shows /\ Shows' /\ Recoverable
      /\ Requested /\ Requested' /\ [Next]_vars
      => [Durable!Next]_Durable!vars
    BY DurableStep
<1>5. Spec => []Consistent /\ []Shows
    BY StoreIsConsistent, StoreShows
<1> QED
    BY <1>1, <1>2, <1>3, <1>4, <1>5, PTL DEF Spec, DurableSpec, Durable!Spec

-----------------------------------------------------------------------------
(* The requests of a load.                                                 *)

NodeRequest(g, v) == [op |-> "add_node", id |-> v, attr |-> g.attr[v]]
EdgeRequest(g, m, n) == [op |-> "add_edge", from |-> m, to |-> n, attr |-> g.edge[m][n]]
CompactRequest == [op |-> "compact"]

IsNodeRequest(g, r) == \E v \in Node : HasNode(g, v) /\ r = NodeRequest(g, v)
IsEdgeRequest(g, r) == \E m, n \in Node : HasEdge(g, m, n) /\ r = EdgeRequest(g, m, n)
Adding(g) == {r \in Entries : IsNodeRequest(g, r) \/ IsEdgeRequest(g, r)}

LEMMA AddingRequests ==
    ASSUME NEW g \in Graphs
    PROVE  /\ \A v \in Node : HasNode(g, v) => NodeRequest(g, v) \in Adding(g)
           /\ \A m, n \in Node : HasEdge(g, m, n) => EdgeRequest(g, m, n) \in Adding(g)
<1>1. ASSUME NEW v \in Node, HasNode(g, v) PROVE NodeRequest(g, v) \in Adding(g)
    <2>1. g.attr[v] \in Attr \cup {Absent}
        BY DEF Graphs
    <2>2. NodeRequest(g, v) \in Entries
        BY <2>1 DEF NodeRequest, Entries
    <2> QED
        BY <1>1, <2>2 DEF Adding, IsNodeRequest
<1>2. ASSUME NEW m \in Node, NEW n \in Node, HasEdge(g, m, n)
      PROVE  EdgeRequest(g, m, n) \in Adding(g)
    <2>1. g.edge[m][n] \in EdgeAttr \cup {Absent}
        BY DEF Graphs
    <2>2. EdgeRequest(g, m, n) \in Entries
        BY <2>1 DEF EdgeRequest, Entries
    <2> QED
        BY <1>2, <2>2 DEF Adding, IsEdgeRequest
<1> QED
    BY <1>1, <1>2

LEMMA ThreeParts ==
    ASSUME NEW T, NEW a \in Seq(T), NEW b \in Seq(T), NEW c \in T,
           NEW s, s = a \o b \o <<c>>
    PROVE  /\ s \in Seq(T) /\ Len(s) = Len(a) + Len(b) + 1
           /\ \A i \in 1..Len(a) : s[i] = a[i]
           /\ \A i \in 1..Len(b) : s[Len(a) + i] = b[i]
           /\ s[Len(a) + Len(b) + 1] = c
<1> DEFINE d == a \o b
           u == <<c>>
<1>1. Len(a) \in Nat /\ Len(b) \in Nat
    OBVIOUS
<1>2. /\ d \in Seq(T) /\ Len(d) = Len(a) + Len(b)
      /\ \A i \in 1..Len(a) + Len(b) : d[i] = IF i <= Len(a) THEN a[i] ELSE b[i - Len(a)]
    BY ConcatProperties
<1>3. u \in Seq(T) /\ Len(u) = 1 /\ u[1] = c
    OBVIOUS
<1>4. s = d \o u
    OBVIOUS
<1> HIDE DEF d, u
<1>5. /\ s \in Seq(T) /\ Len(s) = Len(d) + Len(u)
      /\ \A i \in 1..Len(d) + Len(u) : s[i] = IF i <= Len(d) THEN d[i] ELSE u[i - Len(d)]
    <2>1. d \in Seq(T) /\ u \in Seq(T)
        BY <1>2, <1>3
    <2>2. /\ d \o u \in Seq(T) /\ Len(d \o u) = Len(d) + Len(u)
          /\ \A i \in 1..Len(d) + Len(u) :
                (d \o u)[i] = IF i <= Len(d) THEN d[i] ELSE u[i - Len(d)]
        BY <2>1, ConcatProperties, Zenon
    <2> QED
        BY <1>4, <2>2, Zenon
<1>6. \A i \in 1..Len(d) : s[i] = d[i]
    BY <1>1, <1>2, <1>3, <1>5
<1>7. s[Len(d) + 1] = c
    BY <1>1, <1>2, <1>3, <1>5
<1>8. ASSUME NEW i \in 1..Len(b) PROVE s[Len(a) + i] = b[i]
    <2>1. Len(a) + i \in 1..Len(d) /\ ~(Len(a) + i <= Len(a)) /\ Len(a) + i - Len(a) = i
        BY <1>1, <1>2
    <2>2. d[Len(a) + i] = b[i]
        BY <1>2, <2>1
    <2> QED
        BY <1>6, <2>1, <2>2
<1> QED
    BY <1>1, <1>2, <1>3, <1>5, <1>6, <1>7, <1>8

(* The script asks for every node, then for every edge, and compacts last. *)
LEMMA ScriptFacts ==
    ASSUME NEW g \in Graphs, IsFiniteSet(Node)
    PROVE  /\ LoadScript(g) \in Seq(Adding(g) \cup {CompactRequest})
           /\ Len(LoadScript(g)) \in Nat \ {0}
           /\ \A i \in 1..Len(LoadScript(g)) :
                LoadScript(g)[i] = CompactRequest <=> i = Len(LoadScript(g))
           /\ \A v \in Node : HasNode(g, v) =>
                \E k \in 1..Len(LoadScript(g)) :
                    /\ LoadScript(g)[k] = NodeRequest(g, v)
                    /\ \A i \in 1..Len(LoadScript(g)) :
                        LoadScript(g)[i].op = "add_edge" => k < i
           /\ \A m, n \in Node : HasEdge(g, m, n) =>
                \E k \in 1..Len(LoadScript(g)) : LoadScript(g)[k] = EdgeRequest(g, m, n)
<1> DEFINE ids   == Ascending(Nodes(g), <)
           pairs == Ascending(EdgeSet(g), EdgeBefore)
           A     == [i \in DOMAIN ids |-> NodeRequest(g, ids[i])]
           B     == [i \in DOMAIN pairs |-> EdgeRequest(g, pairs[i][1], pairs[i][2])]
           C     == <<CompactRequest>>
           s     == LoadScript(g)
<1>1. s = A \o B \o C
    BY DEF LoadScript, NodeRequest, EdgeRequest, CompactRequest
<1>2. Lists(ids, Nodes(g)) /\ Lists(pairs, EdgeSet(g))
    BY NodeAssumption, NamesAscend, PairsAscend
<1> HIDE DEF ids, pairs, s
<1>3. /\ A \in Seq(Adding(g)) /\ Len(A) = Len(ids) /\ Len(A) \in Nat
      /\ \A i \in 1..Len(A) : A[i] = NodeRequest(g, ids[i])
    <2>1. ids \in Seq(Nodes(g)) /\ Len(ids) \in Nat /\ DOMAIN ids = 1..Len(ids)
        BY <1>2 DEF Lists
    <2>2. \A i \in 1..Len(ids) : NodeRequest(g, ids[i]) \in Adding(g)
        BY <2>1, AddingRequests DEF Nodes
    <2> QED
        BY <2>1, <2>2
<1>4. /\ B \in Seq(Adding(g)) /\ Len(B) = Len(pairs) /\ Len(B) \in Nat
      /\ \A i \in 1..Len(B) : B[i] = EdgeRequest(g, pairs[i][1], pairs[i][2])
    <2>1. pairs \in Seq(EdgeSet(g)) /\ Len(pairs) \in Nat /\ DOMAIN pairs = 1..Len(pairs)
        BY <1>2 DEF Lists
    <2>2. \A i \in 1..Len(pairs) : EdgeRequest(g, pairs[i][1], pairs[i][2]) \in Adding(g)
        BY <2>1, AddingRequests DEF EdgeSet
    <2> QED
        BY <2>1, <2>2
<1>5. /\ \A r \in Adding(g) : r # CompactRequest
      /\ \A v : NodeRequest(g, v).op = "add_node"
    BY DEF Adding, IsNodeRequest, IsEdgeRequest, NodeRequest, EdgeRequest, CompactRequest
<1> HIDE DEF A, B, C
<1>6. /\ s \in Seq(Adding(g) \cup {CompactRequest})
      /\ Len(s) = Len(A) + Len(B) + 1
      /\ \A i \in 1..Len(A) : s[i] = A[i]
      /\ \A i \in 1..Len(B) : s[Len(A) + i] = B[i]
      /\ s[Len(A) + Len(B) + 1] = CompactRequest
    <2> DEFINE T == Adding(g) \cup {CompactRequest}
    <2>1. A \in Seq(T) /\ B \in Seq(T) /\ CompactRequest \in T
        BY <1>3, <1>4
    <2>2. s = A \o B \o <<CompactRequest>>
        BY <1>1 DEF C
    <2> HIDE DEF T
    <2>3. /\ s \in Seq(T) /\ Len(s) = Len(A) + Len(B) + 1
          /\ \A i \in 1..Len(A) : s[i] = A[i]
          /\ \A i \in 1..Len(B) : s[Len(A) + i] = B[i]
          /\ s[Len(A) + Len(B) + 1] = CompactRequest
        BY <2>1, <2>2, ThreeParts
    <2> QED
        BY <2>3 DEF T
<1>7. ASSUME NEW i \in 1..Len(s)
      PROVE  s[i] = CompactRequest <=> i = Len(s)
    <2>1. CASE i \in 1..Len(A)
        BY <1>3, <1>4, <1>5, <1>6, <2>1
    <2>2. CASE i - Len(A) \in 1..Len(B)
        <3>1. s[i] = B[i - Len(A)]
            BY <1>3, <1>4, <1>6, <2>2
        <3> QED
            BY <1>3, <1>4, <1>5, <1>6, <2>2, <3>1
    <2>3. CASE i = Len(s)
        BY <1>6, <2>3
    <2>4. i \in 1..Len(A) \/ i - Len(A) \in 1..Len(B) \/ i = Len(s)
        <3>1. Len(A) \in Nat /\ Len(B) \in Nat /\ Len(s) = Len(A) + Len(B) + 1
            BY <1>3, <1>4, <1>6
        <3> QED
            BY <3>1
    <2> QED
        BY <2>1, <2>2, <2>3, <2>4
<1>8. ASSUME NEW v \in Node, HasNode(g, v)
      PROVE  \E k \in 1..Len(s) : s[k] = NodeRequest(g, v)
                /\ \A i \in 1..Len(s) : s[i].op = "add_edge" => k < i
    <2>1. PICK k \in 1..Len(ids) : ids[k] = v
        BY <1>2, <1>8 DEF Lists, Nodes
    <2>2. k \in 1..Len(s) /\ s[k] = NodeRequest(g, v)
        BY <1>3, <1>4, <1>6, <2>1
    <2>3. \A i \in 1..Len(A) : s[i].op = "add_node"
        BY <1>3, <1>5, <1>6
    <2> QED
        BY <1>3, <1>6, <2>1, <2>2, <2>3
<1>9. ASSUME NEW m \in Node, NEW n \in Node, HasEdge(g, m, n)
       PROVE  \E k \in 1..Len(s) : s[k] = EdgeRequest(g, m, n)
    <2>1. <<m, n>> \in EdgeSet(g)
        BY <1>9 DEF EdgeSet
    <2>2. PICK k \in 1..Len(pairs) : pairs[k] = <<m, n>>
        BY <1>2, <2>1 DEF Lists
    <2>3. Len(A) + k \in 1..Len(s) /\ s[Len(A) + k] = EdgeRequest(g, m, n)
        BY <1>3, <1>4, <1>6, <2>2
    <2> QED
        BY <2>3
<1>10. s \in Seq(Adding(g) \cup {CompactRequest}) /\ Len(s) \in Nat \ {0}
    BY <1>3, <1>4, <1>6
<1> QED
    BY <1>7, <1>8, <1>9, <1>10 DEF s

LEMMA ScriptRequests ==
    ASSUME NEW g \in Graphs, IsFiniteSet(Node), NEW i \in 1..Len(LoadScript(g))
    PROVE  LoadScript(g)[i] \in Adding(g) \/ LoadScript(g)[i] = CompactRequest
<1>1. LoadScript(g) \in Seq(Adding(g) \cup {CompactRequest})
    BY ScriptFacts
<1>2. LoadScript(g)[i] \in Adding(g) \cup {CompactRequest}
    BY <1>1, ElementOfSeq
<1> QED
    BY <1>2

-----------------------------------------------------------------------------
(* The states of an uninterrupted load.                                    *)

(* What a request has left once it was made: a node is there, an edge is   *)
(* there with its attribute or would close a cycle.                        *)
Done(h, r) ==
    /\ r.op = "add_node" => HasNode(h, r.id)
    /\ r.op = "add_edge" => \/ h.edge[r.from][r.to] = r.attr
                            \/ Reaches(h, r.to, r.from)

(* A graph between b and what a load of g makes of it.                     *)
Between(h, b, g) ==
    /\ h \in Graphs /\ IsDag(h)
    /\ \A v \in Node :
        h.attr[v] = b.attr[v] \/ (~HasNode(b, v) /\ h.attr[v] = g.attr[v])
    /\ \A m, n \in Node :
        h.edge[m][n] = b.edge[m][n] \/ (HasEdge(g, m, n) /\ h.edge[m][n] = g.edge[m][n])

(* What one request does.                                                  *)
LEMMA LoadedEffect ==
    ASSUME NEW g \in Graphs, NEW h \in Graphs, NEW r \in Adding(g)
    PROVE  \/ /\ r.op = "add_node" /\ ~HasNode(h, r.id)
              /\ r.id \in Node /\ HasNode(g, r.id)
              /\ Loaded(h, r) = PutNode(h, r.id, g.attr[r.id])
           \/ /\ r.op = "add_edge" /\ EdgeAllowed(h, r.from, r.to)
              /\ r.from \in Node /\ r.to \in Node /\ HasEdge(g, r.from, r.to)
              /\ r.attr = g.edge[r.from][r.to]
              /\ Loaded(h, r) = PutEdge(h, r.from, r.to, g.edge[r.from][r.to])
           \/ /\ r.op = "add_node" /\ HasNode(h, r.id)
              /\ Loaded(h, r) = h
           \/ /\ r.op = "add_edge" /\ ~EdgeAllowed(h, r.from, r.to)
              /\ r.from \in Node /\ r.to \in Node /\ HasEdge(g, r.from, r.to)
              /\ Loaded(h, r) = h
<1>1. CASE IsNodeRequest(g, r)
    <2>1. PICK v \in Node : HasNode(g, v) /\ r = NodeRequest(g, v)
        BY <1>1 DEF IsNodeRequest
    <2>2. r.op = "add_node" /\ r.id = v /\ r.attr = g.attr[v] /\ r.attr # Absent
        BY <2>1 DEF NodeRequest, HasNode
    <2>3. CASE HasNode(h, v)
        BY <2>2, <2>3 DEF Loaded
    <2>4. CASE ~HasNode(h, v)
        <3>1. AddedAttr(h, r) = g.attr[v]
            BY <2>2 DEF AddedAttr
        <3>2. Replayed(h, r) = PutNode(h, v, g.attr[v])
            BY <2>2, <3>1 DEF Replayed, Applicable, Effect
        <3> QED
            BY <2>1, <2>2, <2>4, <3>2 DEF Loaded
    <2> QED
        BY <2>3, <2>4
<1>2. CASE IsEdgeRequest(g, r)
    <2>1. PICK m \in Node, n \in Node : HasEdge(g, m, n) /\ r = EdgeRequest(g, m, n)
        BY <1>2 DEF IsEdgeRequest
    <2>2. /\ r.op = "add_edge" /\ r.from = m /\ r.to = n
          /\ r.attr = g.edge[m][n] /\ r.attr # Absent
        BY <2>1 DEF EdgeRequest, HasEdge
    <2>3. AddedEdgeAttr(r) = g.edge[m][n]
        BY <2>2 DEF AddedEdgeAttr
    <2>4. Loaded(h, r) = IF EdgeAllowed(h, m, n) THEN PutEdge(h, m, n, g.edge[m][n]) ELSE h
        BY <2>2, <2>3 DEF Loaded, Replayed, Applicable, Effect
    <2>5. CASE EdgeAllowed(h, m, n)
        BY <2>1, <2>2, <2>4, <2>5
    <2>6. CASE ~EdgeAllowed(h, m, n)
        BY <2>1, <2>2, <2>4, <2>6
    <2> QED
        BY <2>5, <2>6
<1> QED
    BY <1>1, <1>2 DEF Adding

(* A request that was made changes nothing when it is made again.          *)
LEMMA DoneIsDone ==
    ASSUME NEW g \in Graphs, NEW h \in Graphs, NEW r \in Adding(g), Done(h, r)
    PROVE  Loaded(h, r) = h
<1>1. CASE r.op = "add_node"
    BY <1>1, LoadedEffect DEF Done
<1>2. CASE r.op = "add_edge" /\ EdgeAllowed(h, r.from, r.to)
    <2>1. /\ r.from \in Node /\ r.to \in Node
          /\ Loaded(h, r) = PutEdge(h, r.from, r.to, r.attr)
        BY <1>2, LoadedEffect
    <2>2. h.edge[r.from][r.to] = r.attr
        BY <1>2 DEF Done, EdgeAllowed
    <2> QED
        BY <2>1, <2>2 DEF PutEdge, Graphs
<1>3. CASE r.op = "add_edge" /\ ~EdgeAllowed(h, r.from, r.to)
    BY <1>3, LoadedEffect
<1> QED
    BY <1>1, <1>2, <1>3, LoadedEffect

(* One request of a load, whose nodes the load has asked for before.       *)
LEMMA LoadedStep ==
    ASSUME NEW b \in Graphs, NEW g \in Graphs, IsDag(g), NEW h, Between(h, b, g),
           NEW r \in Adding(g),
           r.op = "add_edge" => HasNode(h, r.from) /\ HasNode(h, r.to)
    PROVE  /\ Between(Loaded(h, r), b, g)
           /\ Done(Loaded(h, r), r)
           /\ \A q \in Adding(g) : Done(h, q) => Done(Loaded(h, r), q)
<1>0. h \in Graphs /\ IsDag(h)
    BY DEF Between
<1>1. CASE r.op = "add_node" /\ ~HasNode(h, r.id)
    <2> DEFINE v == r.id
               f == PutNode(h, v, g.attr[v])
    <2>1. v \in Node /\ HasNode(g, v) /\ Loaded(h, r) = f /\ r.op = "add_node"
        BY <1>0, <1>1, LoadedEffect
    <2>2. g.attr[v] \in Attr
        BY <2>1 DEF HasNode, Graphs
    <2>3. f \in Graphs /\ IsDag(f)
        BY <1>0, <2>1, <2>2, PutNodeType, PutNodeDag
    <2>4. /\ f.edge = h.edge
          /\ \A n \in Node : f.attr[n] = IF n = v THEN g.attr[v] ELSE h.attr[n]
        BY <1>0 DEF PutNode, Graphs
    <2>5. /\ \A n \in Node : HasNode(f, n) <=> HasNode(h, n) \/ n = v
          /\ \A m, n \in Node : HasEdge(f, m, n) <=> HasEdge(h, m, n)
        BY <1>0, <2>1, <2>2, PutNodeEffect
    <2> HIDE DEF f
    <2>6. ~HasNode(b, v)
        BY <1>1, <2>1 DEF Between, HasNode
    <2>7. Between(f, b, g)
        BY <2>3, <2>4, <2>6 DEF Between
    <2>8. ASSUME NEW q \in Adding(g), Done(h, q) PROVE Done(f, q)
        <3>1. q.op = "add_node" => q.id \in Node
            BY EntryCases DEF Adding
        <3>2. q.op = "add_edge" => q.from \in Node /\ q.to \in Node
            BY EntryCases DEF Adding
        <3>3. q.op = "add_edge" /\ Reaches(h, q.to, q.from) => Reaches(f, q.to, q.from)
            BY <2>5, <3>2, MoreEdgesReach
        <3> QED
            BY <2>4, <2>5, <2>8, <3>1, <3>3 DEF Done
    <2>9. Done(f, r)
        BY <2>1, <2>5 DEF Done
    <2> QED
        BY <2>1, <2>7, <2>8, <2>9
<1>2. CASE r.op = "add_edge" /\ EdgeAllowed(h, r.from, r.to)
    <2> DEFINE x == r.from
               y == r.to
               f == PutEdge(h, x, y, g.edge[x][y])
    <2>1. /\ x \in Node /\ y \in Node /\ HasEdge(g, x, y) /\ r.op = "add_edge"
          /\ r.attr = g.edge[x][y] /\ Loaded(h, r) = f
        BY <1>0, <1>2, LoadedEffect
    <2>2. g.edge[x][y] \in EdgeAttr
        BY <2>1 DEF HasEdge, Graphs
    <2>3. f \in Graphs /\ IsDag(f)
        BY <1>0, <1>2, <2>1, <2>2, PutEdgeType, PutEdgeDag
    <2>4. /\ f.attr = h.attr
          /\ \A m, n \in Node : f.edge[m][n] = IF m = x /\ n = y THEN g.edge[x][y]
                                               ELSE h.edge[m][n]
        BY <1>0, <2>1 DEF PutEdge, Graphs
    <2>5. \A m, n \in Node : HasEdge(h, m, n) => HasEdge(f, m, n)
        BY <1>0, <2>1, <2>2, PutEdgeEffect
    <2> HIDE DEF f
    <2>6. Between(f, b, g)
        BY <2>1, <2>3, <2>4 DEF Between
    <2>7. ASSUME NEW q \in Adding(g), Done(h, q) PROVE Done(f, q)
        <3>1. CASE q.op = "add_node"
            BY <2>4, <2>7, <3>1 DEF Done, HasNode
        <3>2. CASE q.op = "add_edge"
            <4>1. q.from \in Node /\ q.to \in Node /\ q.attr = g.edge[q.from][q.to]
                BY <3>2 DEF Adding, IsNodeRequest, IsEdgeRequest, NodeRequest, EdgeRequest
            <4>2. Reaches(h, q.to, q.from) => Reaches(f, q.to, q.from)
                BY <2>5, <4>1, MoreEdgesReach
            <4>3. h.edge[q.from][q.to] = q.attr => f.edge[q.from][q.to] = q.attr
                BY <2>4, <4>1
            <4> QED
                BY <2>7, <3>2, <4>2, <4>3 DEF Done
        <3> QED
            BY <3>1, <3>2 DEF Done
    <2>8. Done(f, r)
        BY <2>1, <2>4 DEF Done
    <2> QED
        BY <2>1, <2>6, <2>7, <2>8
<1>3. CASE r.op = "add_node" /\ HasNode(h, r.id)
    <2>1. Loaded(h, r) = h
        BY <1>0, <1>3, LoadedEffect
    <2> QED
        BY <1>3, <2>1 DEF Done
<1>4. CASE r.op = "add_edge" /\ ~EdgeAllowed(h, r.from, r.to)
    <2>1. /\ r.from \in Node /\ r.to \in Node /\ HasEdge(g, r.from, r.to)
          /\ Loaded(h, r) = h
        BY <1>0, <1>4, LoadedEffect
    <2>2. r.from # r.to
        BY <2>1, NoSelfLoop DEF IsDag
    <2>3. Reaches(h, r.to, r.from)
        BY <1>4, <2>2 DEF EdgeAllowed
    <2> QED
        BY <1>4, <2>1, <2>3 DEF Done
<1> QED
    BY <1>0, <1>1, <1>2, <1>3, <1>4, LoadedEffect

(* The recursive definition of the states has a solution.                  *)
Unfolds(f, b, s, n) ==
    \A i \in 0..n : f[i] = IF i = 0 THEN b ELSE Loaded(f[i - 1], s[i])

LEMMA StatesExist ==
    ASSUME NEW b, NEW s, NEW n \in Nat
    PROVE  \E X : \E f \in [0..n -> X] : Unfolds(f, b, s, n)
<1> DEFINE Solved(k) == \E X : \E f \in [0..k -> X] : Unfolds(f, b, s, k)
           T == {k \in 0..n : ~Solved(k)}
<1>1. ASSUME T # {} PROVE FALSE
    <2>1. PICK k \in T : \A j \in T : k <= j
        <3>1. T \in SUBSET Nat
            OBVIOUS
        <3> HIDE DEF T
        <3> QED
            BY <1>1, <3>1, LeastExists
    <2> HIDE DEF Solved
    <2>2. CASE k = 0
        <3> DEFINE f == [i \in 0..0 |-> b]
        <3>1. f \in [0..0 -> {b}] /\ \A i \in 0..0 : f[i] = b /\ i = 0
            OBVIOUS
        <3>2. Solved(0)
            BY <3>1 DEF Solved, Unfolds
        <3> QED
            BY <2>1, <2>2, <3>2
    <2>3. CASE k # 0
        <3>1. k \in Nat /\ k - 1 \in 0..n /\ k - 1 \notin T
            BY <2>1, <2>3
        <3>2. Solved(k - 1)
            BY <3>1
        <3>3. PICK X : \E f \in [0..(k - 1) -> X] : Unfolds(f, b, s, k - 1)
            BY <3>2 DEF Solved
        <3>4. PICK f \in [0..(k - 1) -> X] : Unfolds(f, b, s, k - 1)
            BY <3>3
        <3> DEFINE last == Loaded(f[k - 1], s[k])
                   Y == X \cup {last}
                   h == [i \in 0..k |-> IF i < k THEN f[i] ELSE last]
        <3>5. h \in [0..k -> Y]
            <4>1. \A i \in 0..k : i < k => f[i] \in X
                BY <3>1, <3>4
            <4> QED
                BY <4>1
        <3>6. (\A i \in 0..(k - 1) : h[i] = f[i]) /\ h[k] = last
            BY <3>1
        <3> HIDE DEF h, Y
        <3>7. ASSUME NEW i \in 0..k
              PROVE  h[i] = IF i = 0 THEN b ELSE Loaded(h[i - 1], s[i])
            <4>1. i # 0 => h[i - 1] = f[i - 1]
                BY <3>1, <3>6
            <4>2. CASE i \in 0..(k - 1)
                BY <3>4, <3>6, <4>1, <4>2 DEF Unfolds
            <4>3. CASE i = k
                BY <2>3, <3>6, <4>1, <4>3
            <4> QED
                BY <3>1, <4>2, <4>3
        <3>8. Unfolds(h, b, s, k)
            BY <3>7 DEF Unfolds
        <3>9. Solved(k)
            BY <3>5, <3>8 DEF Solved
        <3> QED
            BY <2>1, <3>9
    <2> QED
        BY <2>2, <2>3
<1>2. n \in 0..n
    OBVIOUS
<1>3. Solved(n)
    <2> HIDE DEF Solved
    <2> QED
        BY <1>1, <1>2
<1> QED
    BY <1>3

LEMMA StatesAreSteps ==
    ASSUME NEW b, NEW g, Len(LoadScript(g)) \in Nat
    PROVE  /\ LoadStates(b, g)[0] = b
           /\ \A i \in 1..Len(LoadScript(g)) :
                LoadStates(b, g)[i] = Loaded(LoadStates(b, g)[i - 1], LoadScript(g)[i])
<1> DEFINE s == LoadScript(g)
           n == Len(s)
           L == LoadStates(b, g)
<1>1. \E f : f = [i \in 0..n |-> IF i = 0 THEN b ELSE Loaded(f[i - 1], s[i])]
    <2>1. n \in Nat
        OBVIOUS
    <2> HIDE DEF n, s
    <2>2. PICK X : \E f \in [0..n -> X] : Unfolds(f, b, s, n)
        BY <2>1, StatesExist
    <2>3. PICK f \in [0..n -> X] : Unfolds(f, b, s, n)
        BY <2>2
    <2>4. f = [i \in 0..n |-> IF i = 0 THEN b ELSE Loaded(f[i - 1], s[i])]
        BY <2>3 DEF Unfolds
    <2> QED
        BY <2>4
<1>2. L = [i \in 0..n |-> IF i = 0 THEN b ELSE Loaded(L[i - 1], s[i])]
    BY <1>1 DEF LoadStates
<1> HIDE DEF L, s
<1>3. \A i \in 0..n : L[i] = IF i = 0 THEN b ELSE Loaded(L[i - 1], s[i])
    BY <1>2
<1>4. 0 \in 0..n /\ \A i \in 1..n : i \in 0..n /\ i # 0
    BY DEF s
<1> QED
    BY <1>3, <1>4 DEF L, s

(* After i requests the load has done those, and nothing but what they say. *)
LEMMA StatesFacts ==
    ASSUME NEW b \in Graphs, IsDag(b), NEW g \in Graphs, IsDag(g), IsFiniteSet(Node),
           NEW i \in 0..Len(LoadScript(g))
    PROVE  /\ Between(LoadStates(b, g)[i], b, g)
           /\ \A k \in 1..i : Done(LoadStates(b, g)[i], LoadScript(g)[k])
<1> DEFINE s == LoadScript(g)
           n == Len(s)
           L == LoadStates(b, g)
           Fine(k) == Between(L[k], b, g) /\ \A j \in 1..k : Done(L[k], s[j])
           T == {k \in 0..n : ~Fine(k)}
<1>1. SUFFICES ASSUME T # {} PROVE FALSE
    BY <1>1
<1>2. n \in Nat /\ \A k \in 1..n : s[k] \in Adding(g) \/ s[k] = CompactRequest
    BY ScriptFacts, ScriptRequests
<1>3. PICK k \in T : \A j \in T : k <= j
    <2>1. T \in SUBSET Nat
        BY <1>2
    <2> HIDE DEF T
    <2> QED
        BY <1>1, <2>1, LeastExists
<1>4. CASE k = 0
    <2>1. L[k] = b
        BY <1>2, <1>4, StatesAreSteps
    <2>2. Between(b, b, g)
        BY DEF Between
    <2> QED
        BY <1>3, <1>4, <2>1, <2>2
<1>5. CASE k # 0
    <2>1. k \in 1..n /\ k - 1 \in 0..n /\ k - 1 \notin T
        BY <1>2, <1>3, <1>5
    <2>2. Fine(k - 1)
        BY <2>1
    <2> DEFINE h == L[k - 1]
               r == s[k]
    <2>3. L[k] = Loaded(h, r)
        BY <1>2, <2>1, StatesAreSteps
    <2>4. CASE r = CompactRequest
        <3>1. L[k] = h /\ Done(h, r)
            BY <2>3, <2>4 DEF Loaded, CompactRequest, Done
        <3>2. Fine(k)
            BY <2>1, <2>2, <3>1
        <3> QED
            BY <1>3, <3>2
    <2>5. CASE r \in Adding(g)
        <3>1. ASSUME NEW v \in Node, HasNode(g, v), r.op = "add_edge"
              PROVE  HasNode(h, v)
            <4>1. PICK j \in 1..n : s[j] = NodeRequest(g, v) /\ j < k
                BY <2>1, <3>1, ScriptFacts
            <4>2. Done(h, NodeRequest(g, v))
                BY <1>2, <2>1, <2>2, <4>1
            <4> QED
                BY <4>2 DEF Done, NodeRequest
        <3>2. ASSUME r.op = "add_edge"
              PROVE  HasNode(h, r.from) /\ HasNode(h, r.to)
            <4>1. r.from \in Node /\ r.to \in Node /\ HasEdge(g, r.from, r.to)
                BY <2>5, <3>2
                DEF Adding, IsNodeRequest, IsEdgeRequest, NodeRequest, EdgeRequest
            <4> QED
                BY <3>1, <3>2, <4>1 DEF IsDag, EndsPresent
        <3>3. /\ Between(L[k], b, g) /\ Done(L[k], r)
              /\ \A q \in Adding(g) : Done(h, q) => Done(L[k], q)
            BY <2>2, <2>3, <2>5, <3>2, LoadedStep
        <3>4. ASSUME NEW j \in 1..k PROVE Done(L[k], s[j])
            <4>1. CASE j = k
                BY <3>3, <4>1
            <4>2. CASE j \in 1..(k - 1) /\ s[j] \in Adding(g)
                BY <2>2, <3>3, <4>2
            <4>3. CASE s[j] = CompactRequest
                BY <4>3 DEF Done, CompactRequest
            <4> QED
                BY <1>2, <2>1, <4>1, <4>2, <4>3
        <3>5. Fine(k)
            BY <3>3, <3>4
        <3> QED
            BY <1>3, <3>5
    <2> QED
        BY <1>2, <2>1, <2>4, <2>5
<1> QED
    BY <1>4, <1>5

(* What an uninterrupted load leaves is what a user expects of it.         *)
LEMMA LoadExtends ==
    ASSUME NEW b \in Graphs, IsDag(b), NEW g \in Graphs, IsDag(g), IsFiniteSet(Node)
    PROVE  Extends(LoadedInto(b, g), b, g)
<1> DEFINE s == LoadScript(g)
           n == Len(s)
           h == LoadedInto(b, g)
<1>1. n \in Nat \ {0}
    BY ScriptFacts
<1>2. Between(h, b, g) /\ \A k \in 1..n : Done(h, s[k])
    BY <1>1, StatesFacts DEF LoadedInto
<1> HIDE DEF h
<1>3. ASSUME NEW v \in Node
      PROVE  h.attr[v] = IF HasNode(b, v) THEN b.attr[v] ELSE g.attr[v]
    <2>1. CASE HasNode(g, v)
        <3>1. Done(h, NodeRequest(g, v))
            BY <1>2, <2>1, ScriptFacts
        <3>2. HasNode(h, v)
            BY <3>1 DEF Done, NodeRequest
        <3> QED
            BY <1>2, <3>2 DEF Between, HasNode
    <2>2. CASE ~HasNode(g, v)
        BY <1>2, <2>2 DEF Between, HasNode
    <2> QED
        BY <2>1, <2>2
<1>4. ASSUME NEW x \in Node, NEW y \in Node, HasEdge(g, x, y)
      PROVE  \/ h.edge[x][y] = g.edge[x][y]
             \/ ~HasEdge(h, x, y) /\ ~HasEdge(b, x, y) /\ Reaches(h, y, x)
    <2>1. PICK k \in 1..n : s[k] = EdgeRequest(g, x, y)
        BY <1>4, ScriptFacts
    <2>2. Done(h, EdgeRequest(g, x, y))
        BY <1>2, <2>1
    <2>3. h.edge[x][y] = g.edge[x][y] \/ Reaches(h, y, x)
        BY <2>2 DEF Done, EdgeRequest
    <2>4. Reaches(h, y, x) => ~HasEdge(h, x, y)
        BY <1>2, NoWayBack DEF Between, IsDag
    <2>5. HasEdge(b, x, y) => HasEdge(h, x, y)
        BY <1>2, <1>4 DEF Between, HasEdge
    <2> QED
        BY <2>3, <2>4, <2>5
<1>5. \A x, y \in Node : ~HasEdge(g, x, y) => h.edge[x][y] = b.edge[x][y]
    BY <1>2 DEF Between
<1> QED
    BY <1>3, <1>4, <1>5 DEF Extends, h

-----------------------------------------------------------------------------
(* A load that is run again.                                               *)

(* A request the load has come to leads on along the states, also from one *)
(* that an earlier load reached.                                           *)
LEMMA RequestAdvances ==
    ASSUME NEW b \in Graphs, IsDag(b), NEW g \in Graphs, IsDag(g), IsFiniteSet(Node),
           NEW i \in 1..Len(LoadScript(g)), NEW j \in (i - 1)..Len(LoadScript(g))
    PROVE  \E k \in i..Len(LoadScript(g)) :
                Loaded(LoadStates(b, g)[j], LoadScript(g)[i]) = LoadStates(b, g)[k]
<1> DEFINE s == LoadScript(g)
           n == Len(s)
           L == LoadStates(b, g)
<1>1. n \in Nat
    BY ScriptFacts
<1>2. CASE j = i - 1
    <2>1. L[i] = Loaded(L[j], s[i])
        BY <1>1, <1>2, StatesAreSteps
    <2>2. i \in i..n
        BY <1>1
    <2> QED
        BY <2>1, <2>2
<1>3. CASE j \in i..n
    <2>1. s[i] \in Adding(g) \/ s[i] = CompactRequest
        BY ScriptRequests
    <2>2. j \in 0..n /\ i \in 1..j
        BY <1>1, <1>3
    <2>3. L[j] \in Graphs /\ Done(L[j], s[i])
        BY <2>2, StatesFacts DEF Between
    <2>4. Loaded(L[j], s[i]) = L[j]
        BY <2>1, <2>3, DoneIsDone DEF Loaded, CompactRequest
    <2> QED
        BY <1>3, <2>4
<1> QED
    BY <1>1, <1>2, <1>3

Size == Len(LoadScript(spec))
Asked == Size - Len(todo)

(* The graph h is a state of the load of g into b no earlier than its k-th *)
(* one; the files stand for such a graph.                                  *)
OnTheWay(h, b, g, k) == \E j \in k..Len(LoadScript(g)) : h = LoadStates(b, g)[j]

Reached(k) == OnTheWay(Logged, base, spec, k)

ReachedThen(k) == OnTheWay(Logged', base', spec', k)

Finished == wal = <<>> /\ snap = LoadedInto(base, spec)

(* The load that is running has made the requests before those in todo.    *)
Pending ==
    /\ todo \in Seq(Adding(spec) \cup {CompactRequest})
    /\ Len(todo) <= Size
    /\ \A k \in 1..Len(todo) : todo[k] = LoadScript(spec)[Asked + k]

Loading ==
    /\ Pending
    /\ pc = "replay" => Asked = 0
    /\ pc \in {"idle", "sync"} => Reached(Asked)
    /\ pc \in {"append", "sync"} => todo # <<>>
    /\ pc = "append" =>
        /\ Asked > 0 /\ op = LoadScript(spec)[Asked]
        /\ Reached(Asked - 1)
        /\ op.op = "add_node" => ~HasNode(Logged, op.id)
    /\ pc \in {"rename", "truncate"} => todo = <<>> /\ Reached(Size)
    /\ pc = "idle" /\ todo = <<>> /\ answer # "error" => Finished

CommandInvariant ==
    /\ command \in Commands \cup {None}
    /\ command = None <=> pc = "down"
    /\ command = "edit" => spec = None
    /\ command = "load" => spec # None /\ Loading
    /\ command # "load" => todo \in {<<>>, <<CompactRequest>>}
    /\ pc \in {"append", "sync"} => command \in {"load", "edit"}
    /\ spec # None => spec \in Specs /\ base \in Graphs /\ IsDag(base) /\ Reached(0)
    /\ answer = "load" => command = None /\ spec # None /\ Finished

LEMMA CommandInvariantInit == InitCommand => CommandInvariant
<1> SUFFICES ASSUME InitCommand PROVE CommandInvariant
    OBVIOUS
<1> QED
    BY CommandsAssumption DEF InitCommand, Init, CommandInvariant, Subcommands

(* What the command asks the store for.                                    *)
LEMMA IssueCases ==
    ASSUME CommandInvariant, Issue
    PROVE  \/ Head(todo) = CompactRequest /\ Compact
           \/ /\ command = "load" /\ Head(todo) \in Adding(spec)
              /\ StartsLogging(Head(todo))
              /\ Head(todo).op = "add_node" => ~HasNode(mem, Head(todo).id)
<1> DEFINE r == Head(todo)
<1>0. todo # <<>>
    BY DEF Issue
<1>1. CASE r = CompactRequest
    BY <1>1 DEF Issue, CompactRequest
<1>2. CASE r # CompactRequest
    <2>1. command = "load"
        BY <1>0, <1>2 DEF CommandInvariant
    <2>2. r \in Adding(spec)
        BY <1>0, <1>2, <2>1 DEF CommandInvariant, Loading, Pending
    <2> HIDE DEF r
    <2>3. CASE r.op = "add_node"
        <3>1. r = [op |-> "add_node", id |-> r.id, attr |-> r.attr]
            BY <2>2, <2>3 DEF Adding, IsNodeRequest, IsEdgeRequest, NodeRequest, EdgeRequest
        <3>2. AddNode(r.id, r.attr)
            BY <2>3 DEF Issue, r
        <3>3. ~HasNode(mem, r.id) /\ LogFirst(r)
            BY <3>1, <3>2 DEF AddNode
        <3> QED
            BY <2>1, <2>2, <2>3, <3>3 DEF StartsLogging, r
    <2>4. CASE r.op = "add_edge"
        <3>1. r = [op |-> "add_edge", from |-> r.from, to |-> r.to, attr |-> r.attr]
            BY <2>2, <2>4 DEF Adding, IsNodeRequest, IsEdgeRequest, NodeRequest, EdgeRequest
        <3>2. AddEdge(r.from, r.to, r.attr)
            BY <2>4 DEF Issue, r
        <3>3. ApplyFirst(r)
            BY <3>1, <3>2 DEF AddEdge
        <3> QED
            BY <2>1, <2>2, <2>4, <3>3 DEF StartsLogging, r
    <2> QED
        BY <2>2, <2>3, <2>4
        DEF Adding, IsNodeRequest, IsEdgeRequest, NodeRequest, EdgeRequest
<1> QED
    BY <1>1, <1>2

(* Commands move the store in the ways programs do.                        *)
LEMMA CommandIsAnyStep == CommandInvariant /\ [NextCommand]_all => [AnyStep]_vars
<1> SUFFICES ASSUME CommandInvariant, [NextCommand]_all PROVE [AnyStep]_vars
    OBVIOUS
<1>1. CASE Issue
    <2>1. Head(todo) \in Adding(spec) => Head(todo) \in Entries
        BY DEF Adding
    <2> QED
        BY <1>1, <2>1, IssueCases DEF AnyStep, Logs
<1>2. CASE UNCHANGED vars
    BY <1>2
<1>3. CASE Open \/ Work \/ CompactRenameFails \/ Crash
    BY <1>3 DEF Work, AnyStep, Process
<1>4. CASE Edit
    <2>1. Caller \/ Compact \/ Close
        BY <1>4 DEF Edit
    <2> QED
        BY <2>1, CallerCases DEF AnyStep, Close, Ends
<1>5. CASE Finish
    BY <1>5 DEF Finish, AnyStep, Ends
<1> QED
    BY <1>1, <1>2, <1>3, <1>4, <1>5
    DEF NextCommand, Run, Start, PassOver, CompactFails, Die, all

(* The next request of a load.                                             *)
LEMMA PendingTail ==
    ASSUME IsFiniteSet(Node), spec \in Specs, Pending, todo # <<>>,
           todo' = Tail(todo), UNCHANGED spec
    PROVE  /\ Asked \in Nat /\ Asked + 1 \in 1..Size
           /\ Head(todo) = LoadScript(spec)[Asked + 1]
           /\ Pending' /\ Asked' = Asked + 1 /\ Size' = Size
           /\ Head(todo) = CompactRequest <=> Asked + 1 = Size
           /\ Head(todo) = CompactRequest <=> todo' = <<>>
<1> DEFINE T == Adding(spec) \cup {CompactRequest}
<1>1. spec \in Graphs /\ Size \in Nat \ {0}
    BY SpecsAssumption, ScriptFacts DEF Size
<1>2. todo \in Seq(T) /\ Len(todo) \in Nat \ {0} /\ Len(todo) <= Size
    BY DEF Pending
<1> HIDE DEF T
<1>3. /\ Head(todo) = todo[1] /\ Tail(todo) \in Seq(T) /\ Len(Tail(todo)) = Len(todo) - 1
      /\ \A k \in 1..Len(Tail(todo)) : Tail(todo)[k] = todo[k + 1]
    BY <1>2, HeadTailProperties
<1>4. Size' = Size /\ Asked' = Asked + 1 /\ Asked \in Nat /\ Asked + 1 \in 1..Size
    BY <1>1, <1>2, <1>3 DEF Size, Asked
<1>5. Head(todo) = LoadScript(spec)[Asked + 1]
    BY <1>2, <1>3 DEF Pending
<1>6. ASSUME NEW k \in 1..Len(todo')
      PROVE  todo'[k] = LoadScript(spec)[Asked' + k]
    <2>1. k + 1 \in 1..Len(todo) /\ todo'[k] = todo[k + 1]
        BY <1>2, <1>3
    <2>2. todo[k + 1] = LoadScript(spec)[Asked + (k + 1)]
        BY <2>1 DEF Pending
    <2>3. Asked + (k + 1) = Asked' + k
        BY <1>4
    <2> QED
        BY <2>1, <2>2, <2>3
<1>7. Pending'
    BY <1>1, <1>2, <1>3, <1>4, <1>6 DEF Pending, T
<1>8. Head(todo) = CompactRequest <=> Asked + 1 = Size
    BY <1>1, <1>4, <1>5, ScriptFacts DEF Size
<1>9. Asked + 1 = Size <=> Len(todo') = 0
    <2>1. Len(todo') = Len(todo) - 1 /\ Asked = Size - Len(todo)
        BY <1>3 DEF Asked
    <2>2. Size \in Nat /\ Len(todo) \in Nat /\ Asked \in Nat
        BY <1>1, <1>2, <1>4
    <2>3. ASSUME Asked + 1 = Size PROVE Len(todo') = 0
        BY <2>1, <2>2, <2>3
    <2>4. ASSUME Len(todo') = 0 PROVE Asked + 1 = Size
        <3>1. Len(todo) - 1 = 0
            BY <2>1, <2>4, Zenon
        <3>2. Len(todo) = 1
            BY <2>2, <3>1
        <3> QED
            BY <2>1, <2>2, <3>2
    <2> QED
        BY <2>3, <2>4
<1>10. Len(todo') = 0 <=> todo' = <<>>
    <2>1. todo' \in Seq(T)
        BY <1>3
    <2> QED
        BY <2>1, EmptySeq
<1> QED
    BY <1>4, <1>5, <1>7, <1>8, <1>9, <1>10

(* What has been reached stays reached while the files stand for the same  *)
(* graph.                                                                  *)
LEMMA ReachedStays ==
    ASSUME Logged' = Logged, UNCHANGED <<spec, base>>
    PROVE  /\ \A k : ReachedThen(k) <=> Reached(k)
           /\ Size' = Size /\ LoadedInto(base, spec)' = LoadedInto(base, spec)
BY DEF Reached, ReachedThen, Size

(* A graph that is that far on the way is at least less far.               *)
LEMMA OnTheWayLess ==
    ASSUME NEW h, NEW b, NEW g, NEW k \in Nat, NEW i \in Nat, i <= k, OnTheWay(h, b, g, k)
    PROVE  OnTheWay(h, b, g, i)
<1>1. k..Len(LoadScript(g)) \subseteq i..Len(LoadScript(g))
    OBVIOUS
<1> QED
    BY <1>1 DEF OnTheWay

(* The state that Compact is asked for, and the files hold, is the last.   *)
LEMMA ReachedAll ==
    ASSUME Size \in Nat, Reached(Size)
    PROVE  Logged = LoadedInto(base, spec)
<1>1. \A j \in Size..Size : j = Size
    OBVIOUS
<1> QED
    BY <1>1 DEF Reached, OnTheWay, LoadedInto, Size

LEMMA ReachedNext ==
    ASSUME IsFiniteSet(Node), spec \in Specs, base \in Graphs, IsDag(base),
           NEW i \in 1..Size, Reached(i - 1),
           Logged' = Loaded(Logged, LoadScript(spec)[i]), UNCHANGED <<spec, base>>
    PROVE  ReachedThen(i)
<1>1. spec \in Graphs /\ IsDag(spec)
    BY SpecsAssumption
<1>2. PICK j \in (i - 1)..Size : Logged = LoadStates(base, spec)[j]
    BY DEF Reached, OnTheWay, Size
<1>3. PICK k \in i..Size : Loaded(Logged, LoadScript(spec)[i]) = LoadStates(base, spec)[k]
    BY <1>1, <1>2, RequestAdvances DEF Size
<1> QED
    BY <1>3 DEF ReachedThen, OnTheWay, Size

LEMMA StartStep ==
    ASSUME IsFiniteSet(Node), CommandInvariant, Consistent, IsDag(Logged),
           NEW c \in Commands, NEW g, c = "load" => g \in Specs, Start(c, g)
    PROVE  CommandInvariant'
<1> USE DEF CommandInvariant, Reached, ReachedThen
<1>1. /\ pc' = "replay" /\ command' = c /\ todo' = Script(c, g) /\ answer' = "none"
      /\ history' = history
    BY DEF Start, Open
<1>2. Logged' = Logged /\ Logged \in Graphs
    BY <1>1, LoggedType DEF Logged, Consistent
<1>3. c \in Subcommands /\ c # None /\ None \notin Graphs
    BY CommandsAssumption, NoneAssumption
<1>4. CASE c = "load"
    <2>1. spec' = g /\ base' = (IF spec = g THEN base ELSE Logged) /\ todo' = LoadScript(g)
        BY <1>1, <1>4 DEF Start, Script
    <2>2. g \in Specs /\ g \in Graphs /\ g # None
        BY <1>3, <1>4, SpecsAssumption
    <2>3. base' \in Graphs /\ IsDag(base')
        BY <1>2, <2>1, <2>2
    <2>4. Size' \in Nat \ {0} /\ Size' = Len(todo') /\ Asked' = 0
        <3>1. Size' = Len(LoadScript(g)) /\ Size' = Len(todo')
            BY <2>1 DEF Size
        <3>2. Size' \in Nat \ {0}
            BY <2>2, <3>1, ScriptFacts
        <3> QED
            BY <3>1, <3>2 DEF Asked
    <2>5. ReachedThen(0)
        <3>1. CASE spec = g
            BY <1>2, <2>1, <2>2, <3>1, ReachedStays
        <3>2. CASE spec # g
            <4>1. LoadStates(base', g)[0] = base' /\ base' = Logged'
                BY <1>2, <2>1, <2>4, <3>2, StatesAreSteps DEF Size
            <4>2. 0 \in 0..Size'
                BY <2>4
            <4> QED
                BY <2>1, <4>1, <4>2 DEF OnTheWay, Size
        <3> QED
            BY <3>1, <3>2
    <2>6. Pending'
        BY <2>1, <2>2, <2>4, ScriptFacts DEF Pending
    <2>7. Loading'
        BY <1>1, <2>4, <2>6 DEF Loading
    <2> QED
        BY <1>1, <1>3, <1>4, <2>1, <2>2, <2>3, <2>5, <2>7
<1>5. CASE c # "load"
    <2>1. todo' \in {<<>>, <<CompactRequest>>}
        BY <1>1, <1>5 DEF Script, CompactRequest
    <2>2. CASE c = "edit"
        BY <1>1, <1>3, <2>1, <2>2 DEF Start
    <2>3. CASE c # "edit"
        <3>1. UNCHANGED <<spec, base>>
            BY <1>5, <2>3 DEF Start
        <3> QED
            BY <1>1, <1>2, <1>3, <1>5, <2>1, <2>3, <3>1, ReachedStays
    <2> QED
        BY <2>2, <2>3
<1> QED
    BY <1>4, <1>5

LEMMA IssueStep ==
    ASSUME IsFiniteSet(Node), CommandInvariant, Consistent, Shows, Issue
    PROVE  CommandInvariant'
<1> USE DEF CommandInvariant, Reached, ReachedThen
<1>1. /\ pc = "idle" /\ todo # <<>> /\ todo' = Tail(todo)
      /\ UNCHANGED <<command, spec, answer, base, started>>
    BY DEF Issue
<1>2. mem = Logged /\ command # None /\ answer # "load"
    BY <1>1 DEF Shows
<1>3. CASE command = "load"
    <2>1. spec \in Specs /\ spec \in Graphs /\ spec # None /\ Loading
        BY <1>3, SpecsAssumption
    <2>2. /\ Asked \in Nat /\ Asked + 1 \in 1..Size
          /\ Head(todo) = LoadScript(spec)[Asked + 1]
          /\ Pending' /\ Asked' = Asked + 1 /\ Size' = Size /\ Size \in Nat
          /\ Head(todo) = CompactRequest <=> Asked + 1 = Size
          /\ Head(todo) = CompactRequest <=> todo' = <<>>
        BY <1>1, <2>1, PendingTail, ScriptFacts DEF Loading, Size
    <2>3. Reached(Asked)
        BY <1>1, <2>1 DEF Loading
    <2>4. CASE Head(todo) = CompactRequest /\ Compact
        <3>1. pc' = "rename" /\ Logged' = Logged
            BY <2>4 DEF Compact, Request, Logged
        <3>2. Loaded(Logged, CompactRequest) = Logged
            BY DEF Loaded, CompactRequest
        <3>3. ReachedThen(Asked + 1)
            BY <1>1, <1>3, <2>1, <2>2, <2>3, <2>4, <3>1, <3>2, ReachedNext
        <3>4. ReachedThen(Size)
            BY <2>2, <2>4, <3>3
        <3>5. Loading'
            BY <2>2, <2>4, <3>1, <3>4 DEF Loading
        <3>6. ReachedThen(0)
            BY <1>1, <2>1, <3>1, ReachedStays
        <3> QED
            BY <1>1, <1>2, <1>3, <2>1, <3>1, <3>5, <3>6
    <2>5. CASE /\ Head(todo) \in Adding(spec) /\ StartsLogging(Head(todo))
               /\ Head(todo).op = "add_node" => ~HasNode(mem, Head(todo).id)
        <3>1. Head(todo) \in Entries /\ Head(todo) # CompactRequest
            BY <2>5
            DEF Adding, IsNodeRequest, IsEdgeRequest, NodeRequest, EdgeRequest, CompactRequest
        <3>2. pc' = "append" /\ op' = Head(todo) /\ Logged' = Logged
            BY <2>5, <3>1, LogsFacts DEF Logged
        <3>3. ReachedThen(Asked) /\ ReachedThen(0)
            BY <1>1, <2>1, <2>3, <3>2, ReachedStays
        <3>4. ReachedThen(Asked' - 1)
            <4>1. Asked' - 1 = Asked
                BY <2>2
            <4> QED
                BY <3>3, <4>1
        <3>5. Loading'
            BY <1>1, <1>2, <2>2, <2>5, <3>1, <3>2, <3>4 DEF Loading
        <3> QED
            BY <1>1, <1>2, <1>3, <2>1, <3>2, <3>3, <3>5
    <2> QED
        BY <2>4, <2>5, IssueCases
<1>4. CASE command # "load"
    <2>1. todo = <<CompactRequest>> /\ Compact
        BY <1>1, <1>4, IssueCases
    <2>2. todo' = <<>> /\ pc' = "rename" /\ Logged' = Logged
        BY <1>1, <2>1 DEF Compact, Request, Logged
    <2> QED
        BY <1>1, <1>2, <1>4, <2>2, ReachedStays
<1> QED
    BY <1>3, <1>4

LEMMA PassOverStep ==
    ASSUME IsFiniteSet(Node), CommandInvariant, Consistent, Shows, PassOver
    PROVE  CommandInvariant'
<1> USE DEF CommandInvariant, Reached, ReachedThen
<1>1. /\ pc = "idle" /\ pc' = pc /\ todo # <<>> /\ todo' = Tail(todo) /\ Ignored(Head(todo))
      /\ UNCHANGED <<wal, snap, history, command, spec, answer, base, started>>
    BY DEF PassOver, vars
<1>2. mem = Logged /\ command # None /\ answer # "load" /\ Logged' = Logged
    BY <1>1 DEF Shows, Logged
<1>3. Head(todo) # CompactRequest
    BY <1>1 DEF Ignored, CompactRequest
<1>4. command = "load"
    BY <1>1, <1>3
<1>5. spec \in Specs /\ spec \in Graphs /\ spec # None /\ Loading
    BY <1>4, SpecsAssumption
<1>6. /\ Asked \in Nat /\ Asked + 1 \in 1..Size
      /\ Head(todo) = LoadScript(spec)[Asked + 1]
      /\ Pending' /\ Asked' = Asked + 1 /\ Size' = Size
      /\ Head(todo) = CompactRequest <=> todo' = <<>>
    BY <1>1, <1>5, PendingTail DEF Loading
<1>7. Loaded(Logged, Head(todo)) = Logged
    BY <1>1, <1>2 DEF Ignored, Loaded, Replayed, Applicable
<1>8. ReachedThen(Asked + 1)
    <2>1. Reached(Asked)
        BY <1>1, <1>5 DEF Loading
    <2> QED
        BY <1>1, <1>2, <1>5, <1>6, <1>7, <2>1, ReachedNext
<1>9. ReachedThen(Asked')
    BY <1>1, <1>2, <1>6, <1>8
<1>10. Loading'
    BY <1>1, <1>3, <1>6, <1>9 DEF Loading
<1>11. ReachedThen(0)
    BY <1>1, <1>2, <1>5, ReachedStays
<1> QED
    BY <1>1, <1>2, <1>4, <1>5, <1>10, <1>11

(* Inside a request.                                                       *)
LEMMA WorkStep ==
    ASSUME IsFiniteSet(Node), CommandInvariant, Consistent, Shows, Work
    PROVE  CommandInvariant'
<1> USE DEF CommandInvariant, Reached, ReachedThen
<1>1. UNCHANGED <<command, spec, todo, answer, base, started>>
    BY DEF Work, command_vars
<1>2. ASSUME pc # "down", Logged' = Logged, pc' \notin {"down", "append", "sync"},
             command = "load" => Loading'
      PROVE  CommandInvariant'
    BY <1>1, <1>2, ReachedStays
<1>3. command = "load" => /\ spec \in Specs /\ spec \in Graphs /\ Loading
                          /\ Size \in Nat \ {0} /\ Size' = Size /\ Asked' = Asked
    BY <1>1, SpecsAssumption, ScriptFacts DEF Size, Asked
<1>4. Pending => Pending'
    BY <1>1 DEF Pending, Size, Asked
<1>5. CASE ReplayEntry
    <2>1. pc = "replay" /\ pc' = "replay" /\ Logged' = Logged
        BY <1>5 DEF ReplayEntry, Logged
    <2>2. command = "load" => Loading'
        BY <1>3, <1>4, <2>1 DEF Loading
    <2> QED
        BY <1>2, <2>1, <2>2
<1>6. CASE ReplayEnd
    <2>1. pc = "replay" /\ pc' = "idle" /\ Logged' = Logged
        BY <1>6 DEF ReplayEnd, Logged
    <2>2. ASSUME command = "load" PROVE Loading'
        <3>1. Asked = 0 /\ todo # <<>>
            BY <1>3, <2>1, <2>2 DEF Loading, Asked
        <3>2. ReachedThen(0)
            BY <1>1, <2>1, <2>2, ReachedStays
        <3>3. ReachedThen(Asked')
            BY <1>3, <2>2, <3>1, <3>2
        <3> QED
            BY <1>1, <1>3, <1>4, <2>1, <2>2, <3>1, <3>3 DEF Loading
    <2> QED
        BY <1>2, <2>1, <2>2
<1>7. CASE AppendWrite
    <2>1. /\ pc = "append" /\ pc' = "sync" /\ op \in Entries
          /\ Logged' = Replayed(Logged, op)
        BY <1>7, AppendRecordType DEF AppendWrite, Consistent
    <2>2. CASE command = "load"
        <3>1. /\ Pending /\ todo # <<>> /\ Asked > 0 /\ op = LoadScript(spec)[Asked]
              /\ Reached(Asked - 1)
              /\ op.op = "add_node" => ~HasNode(Logged, op.id)
            BY <2>1, <2>2 DEF Loading
        <3>2. Logged' = Loaded(Logged, op)
            BY <2>1, <3>1, EntryCases DEF Loaded
        <3>3. Asked \in 1..Size
            BY <1>3, <2>2, <3>1 DEF Asked, Pending
        <3>4. ReachedThen(Asked)
            BY <1>1, <1>3, <2>2, <3>1, <3>2, <3>3, ReachedNext
        <3>5. ReachedThen(Asked') /\ ReachedThen(0)
            BY <1>3, <2>2, <3>3, <3>4, OnTheWayLess
        <3>6. Loading'
            BY <1>1, <1>3, <1>4, <2>1, <2>2, <3>1, <3>5 DEF Loading
        <3> QED
            BY <1>1, <1>3, <2>1, <2>2, <3>5, <3>6
    <2>3. CASE command = "edit"
        BY <1>1, <2>1, <2>3
    <2> QED
        BY <2>1, <2>2, <2>3
<1>8. CASE AppendSync
    <2>1. pc = "sync" /\ pc' = "idle" /\ Logged' = Logged
        BY <1>8 DEF AppendSync, Answer, Logged
    <2>2. ASSUME command = "load" PROVE Loading'
        <3>1. Reached(Asked) /\ todo # <<>>
            BY <2>1, <2>2 DEF Loading
        <3>2. ReachedThen(Asked')
            BY <1>1, <1>3, <2>1, <2>2, <3>1
        <3> QED
            BY <1>1, <1>3, <1>4, <2>1, <2>2, <3>1, <3>2 DEF Loading
    <2> QED
        BY <1>2, <2>1, <2>2
<1>9. CASE CompactRename
    <2>1. /\ pc = "rename" /\ pc' = "truncate" /\ Logged' = Logged
        BY <1>9 DEF CompactRename, Shows, Logged
    <2>2. ASSUME command = "load" PROVE Loading'
        <3>1. todo = <<>> /\ Reached(Size)
            BY <2>1, <2>2 DEF Loading
        <3>2. ReachedThen(Size')
            BY <1>1, <1>3, <2>1, <2>2, <3>1
        <3> QED
            BY <1>1, <1>3, <1>4, <2>1, <2>2, <3>1, <3>2 DEF Loading
    <2> QED
        BY <1>2, <2>1, <2>2
<1>10. CASE Truncate
    <2>1. /\ pc = "truncate" /\ pc' = "idle" /\ Logged' = Logged /\ wal' = <<>>
          /\ snap' = Logged
        BY <1>10 DEF Truncate, Answer, Shows, Consistent, Logged
    <2>2. ASSUME command = "load" PROVE Loading'
        <3>1. todo = <<>> /\ Reached(Size)
            BY <2>1, <2>2 DEF Loading
        <3>2. Asked = Size
            BY <1>3, <2>2, <3>1 DEF Asked
        <3>3. ReachedThen(Asked')
            BY <1>1, <1>3, <2>1, <2>2, <3>1, <3>2
        <3>4. Finished'
            BY <1>1, <1>3, <2>1, <2>2, <3>1, ReachedAll DEF Finished
        <3> QED
            BY <1>1, <1>3, <1>4, <2>1, <2>2, <3>1, <3>3, <3>4 DEF Loading
    <2> QED
        BY <1>2, <2>1, <2>2
<1> QED
    BY <1>5, <1>6, <1>7, <1>8, <1>9, <1>10 DEF Work

LEMMA CompactFailsStep ==
    ASSUME IsFiniteSet(Node), CommandInvariant, Shows, CompactFails
    PROVE  CommandInvariant'
<1> USE DEF CommandInvariant, Reached, ReachedThen
<1>1. /\ pc = "rename" /\ pc' = "idle" /\ answer' = "error" /\ Logged' = Logged
      /\ UNCHANGED <<command, spec, todo, base>>
    BY DEF CompactFails, CompactRenameFails, Answer, Logged
<1>2. ASSUME command = "load" PROVE Loading'
    <2>1. spec \in Specs /\ spec \in Graphs /\ Pending /\ todo = <<>> /\ Reached(Size)
        BY <1>1, <1>2, SpecsAssumption DEF Loading
    <2>2. Size \in Nat \ {0} /\ Size' = Size /\ Asked' = Asked /\ Pending'
        BY <1>1, <2>1, ScriptFacts DEF Size, Asked, Pending
    <2>3. Asked = Size
        BY <2>1, <2>2 DEF Asked
    <2>4. ReachedThen(Asked')
        BY <1>1, <2>1, <2>2, <2>3
    <2> QED
        BY <1>1, <2>2, <2>4 DEF Loading
<1> QED
    BY <1>1, <1>2, ReachedStays

LEMMA OtherSteps ==
    ASSUME CommandInvariant, Consistent, Edit \/ Finish \/ Die
    PROVE  CommandInvariant'
<1> USE DEF CommandInvariant, Reached, ReachedThen
<1>1. CASE Edit
    <2>1. /\ command = "edit" /\ pc = "idle" /\ spec = None
          /\ command' = (IF pc' = "down" THEN None ELSE "edit")
          /\ UNCHANGED <<spec, todo, answer>>
        BY <1>1 DEF Edit
    <2>2. None \notin Subcommands
        BY CommandsAssumption
    <2> QED
        BY <2>1, <2>2 DEF Subcommands
<1>2. CASE Finish
    <2>1. /\ pc = "idle" /\ pc' = "down" /\ command \notin {None, "edit"} /\ todo = <<>>
          /\ Logged' = Logged /\ UNCHANGED <<wal, snap, spec, base, todo>>
          /\ command' = None /\ answer' = (IF answer = "error" THEN "error" ELSE command)
        BY <1>2 DEF Finish, Stopped, files, Logged
    <2>2. None \notin Subcommands
        BY CommandsAssumption
    <2>3. ASSUME answer' = "load" PROVE spec # None /\ Finished'
        <3>1. command = "load" /\ answer # "error"
            BY <2>1, <2>3
        <3> QED
            BY <2>1, <3>1 DEF Loading, Finished
    <2> QED
        BY <2>1, <2>2, <2>3, ReachedStays DEF Subcommands
<1>3. CASE Die
    <2>1. /\ pc' = "down" /\ Logged' = Logged /\ command' = None /\ todo' = <<>>
          /\ answer' = "none" /\ UNCHANGED <<spec, base>>
        BY <1>3 DEF Die, Crash, Stopped, Logged
    <2>2. None \notin Subcommands
        BY CommandsAssumption
    <2> QED
        BY <2>1, <2>2, ReachedStays DEF Subcommands
<1> QED
    BY <1>1, <1>2, <1>3

LEMMA CommandStep ==
    ASSUME IsFiniteSet(Node)
    PROVE  CommandInvariant /\ Consistent /\ Requested /\ Shows /\ [NextCommand]_all
           => CommandInvariant'
<1> SUFFICES ASSUME CommandInvariant, Consistent, Requested, Shows, [NextCommand]_all
             PROVE  CommandInvariant'
    OBVIOUS
<1>1. CASE UNCHANGED all
    BY <1>1 DEF all, vars, command_vars, CommandInvariant, Loading, Pending, Reached,
       Finished, Size, Asked, Logged
<1>2. ASSUME NEW c \in Commands \cap {"load"}, NEW g \in Specs, Start(c, g)
      PROVE  CommandInvariant'
    BY <1>2, StartStep DEF Requested
<1>3. ASSUME NEW c \in Commands \ {"load"}, Start(c, EmptyGraph)
      PROVE  CommandInvariant'
    BY <1>3, StartStep DEF Requested
<1> QED
    BY <1>1, <1>2, <1>3, IssueStep, PassOverStep, WorkStep, CompactFailsStep, OtherSteps
    DEF NextCommand, Run

-----------------------------------------------------------------------------
(* The store under the commands.                                           *)

Kept == (Unbroken => StoreInvariant) /\ (Growing => GrownInvariant)

StoreKept == Consistent /\ Recoverable /\ Requested /\ Kept

LEMMA StoreKeptInit ==
    ASSUME Acyclics
    PROVE  Init => StoreKept
BY ConsistentInit, RecoverableInit, RequestedInit, StoreInvariantInit, GrownInit
DEF StoreKept, Kept

LEMMA StoreKeptStep ==
    ASSUME Acyclics
    PROVE  StoreKept /\ [AnyStep]_vars => StoreKept'
<1> SUFFICES ASSUME StoreKept, [AnyStep]_vars PROVE StoreKept'
    OBVIOUS
<1>1. Consistent /\ Recoverable /\ Requested /\ Kept
    BY DEF StoreKept
<1>2. Consistent' /\ Recoverable' /\ Requested'
    BY <1>1, ConsistentStep, RecoverableStep, RequestedStep
<1>3. Unbroken => StoreInvariant'
    BY <1>1, <1>2, StoreInvariantStep DEF Kept
<1>4. Growing => GrownInvariant'
    BY <1>1, GrownStep DEF Kept
<1> QED
    BY <1>2, <1>3, <1>4 DEF StoreKept, Kept, Unbroken, Growing

LEMMA StoreKeptShows ==
    ASSUME Safe, StoreKept
    PROVE  Shows
BY AlignedShows DEF Safe, StoreKept, Kept

LEMMA CommandsAreTracked ==
    ASSUME IsFiniteSet(Node), Safe, Acyclics
    PROVE  CommandSpec => [](CommandInvariant /\ StoreKept)
<1>1. InitCommand => CommandInvariant /\ StoreKept
    BY CommandInvariantInit, StoreKeptInit DEF InitCommand
<1>2. CommandInvariant /\ StoreKept /\ [NextCommand]_all => CommandInvariant' /\ StoreKept'
    BY CommandIsAnyStep, StoreKeptStep, StoreKeptShows, CommandStep DEF StoreKept
<1> QED
    BY <1>1, <1>2, PTL DEF CommandSpec

(* Whatever commands ran, and wherever they died, a program that opens the *)
(* directory is shown the graph its files stand for.                       *)
THEOREM CommandsSeeWhatIsLogged ==
    ASSUME IsFiniteSet(Node), Safe, Acyclics
    PROVE  CommandSpec => []MemoryIsLogged
<1>1. StoreKept => MemoryIsLogged
    BY StoreKeptShows DEF Shows, MemoryIsLogged
<1> QED
    BY <1>1, CommandsAreTracked, PTL

(* `store load` keeps no record of how far it came.  However many loads of *)
(* the spec died before, and wherever they did, one that answers leaves in *)
(* the snapshot alone what one uninterrupted load leaves: the stored       *)
(* graph, extended by all of the spec that closes no cycle.                *)
THEOREM LoadsConverge ==
    ASSUME IsFiniteSet(Node), Safe, Acyclics
    PROVE  CommandSpec => []LoadConverges
<1>1. CommandInvariant => LoadConverges
    <2> SUFFICES ASSUME CommandInvariant, answer = "load"
                 PROVE  wal = <<>> /\ snap = LoadedInto(base, spec) /\ Extends(snap, base, spec)
        BY DEF LoadConverges
    <2>1. spec \in Specs /\ base \in Graphs /\ IsDag(base) /\ Finished
        BY DEF CommandInvariant
    <2>2. spec \in Graphs /\ IsDag(spec)
        BY <2>1, SpecsAssumption
    <2> QED
        BY <2>1, <2>2, LoadExtends DEF Finished
<1> QED
    BY <1>1, CommandsAreTracked, PTL
=============================================================================
