------------------------------- MODULE Column -------------------------------
(***************************************************************************)
(* internal/column: a LineageMap, its two indexes and the file it is saved *)
(* in.  One program holds the map, adds to it, replaces it by what it      *)
(* loads or merges, and saves it under one path.  LoadLineageMap and       *)
(* MergeLineageMaps build their result one mapping per step;               *)
(* SaveLineageMap is one step per system call, the process may die between *)
(* two of them, and the files survive it.                                  *)
(***************************************************************************)
EXTENDS Naturals, Sequences

CONSTANTS
    Field,      \* values of FieldRef
    Key,        \* strings FieldRef.String() returns
    KeyOf,      \* FieldRef.String(); two fields may share a key
    Kind,       \* values of MappingKind
    Expr,       \* values of Mapping.Expr
    Mappings,   \* the mappings callers add
    Others,     \* the mappings of the maps callers merge with theirs
    Faults,     \* the system calls that may fail
    Missing,    \* a file that does not exist
    Torn,       \* a file that does not decode
    MaxLen      \* bound: mappings in a map that is added to or merged

Mapping == [source : Field, target : Field, kind : Kind, expr : Expr]

ASSUME KeyAssumption == KeyOf \in [Field -> Key]
ASSUME MappingsAssumption == Mappings \subseteq Mapping /\ Others \subseteq Seq(Mapping)
ASSUME FaultsAssumption == Faults \subseteq {"write", "rename", "remove"}
ASSUME FileAssumption ==
    Missing # Torn /\ Missing \notin Seq(Mapping) /\ Torn \notin Seq(Mapping)
ASSUME MaxLenAssumption == MaxLen \in Nat

VARIABLES
    lm,      \* the LineageMap in the program's hands
    result,  \* the LineageMap a load or a merge builds
    todo,    \* the mappings its loop has still to read
    whole,   \* ghost: all the mappings its loop reads
    file,    \* the contents of path
    tmp,     \* the contents of path.tmp
    out,     \* the mappings of the save in progress
    saved,   \* ghost: what the last save that succeeded was given
    pc

vars == <<lm, result, todo, whole, file, tmp, out, saved, pc>>
loop == <<result, todo, whole>>
files == <<file, tmp, out, saved>>

-----------------------------------------------------------------------------
LineageMaps == [mappings : Seq(Mapping),
                byTarget : [Key -> Seq(Nat)], bySource : [Key -> Seq(Nat)]]

NewLineageMap == [mappings |-> <<>>,
                  byTarget |-> [k \in Key |-> <<>>], bySource |-> [k \in Key |-> <<>>]]

AddedReplaces(l, m) ==
    LET idx == Len(l.mappings) + 1
    IN  [mappings |-> Append(l.mappings, m),
         byTarget |-> [l.byTarget EXCEPT ![KeyOf[m.target]] = Append(@, idx)],
         bySource |-> [l.bySource EXCEPT ![KeyOf[m.source]] = <<idx>>]]

(* LineageMap.Add.                                                         *)
Added(l, m) ==
    LET idx == Len(l.mappings) + 1
    IN  [mappings |-> Append(l.mappings, m),
         byTarget |-> [l.byTarget EXCEPT ![KeyOf[m.target]] = Append(@, idx)],
         bySource |-> [l.bySource EXCEPT ![KeyOf[m.source]] = Append(@, idx)]]

SourcesOf(l, f) ==
    [i \in DOMAIN l.byTarget[KeyOf[f]] |-> l.mappings[l.byTarget[KeyOf[f]][i]]]
TargetsOf(l, f) ==
    [i \in DOMAIN l.bySource[KeyOf[f]] |-> l.mappings[l.bySource[KeyOf[f]][i]]]

(* What MergeLineageMaps takes two mappings to be the same by.             *)
MergeKey(m) == <<KeyOf[m.source], KeyOf[m.target], m.kind>>
Seen(l) == {MergeKey(l.mappings[i]) : i \in DOMAIN l.mappings}

-----------------------------------------------------------------------------
Init ==
    /\ lm = NewLineageMap
    /\ result = NewLineageMap
    /\ todo = <<>>
    /\ whole = <<>>
    /\ file = Missing
    /\ tmp = Missing
    /\ out = <<>>
    /\ saved = Missing
    /\ pc = "idle"

Add(m) ==
    /\ pc = "idle"
    /\ Len(lm.mappings) < MaxLen
    /\ lm' = Added(lm, m)
    /\ UNCHANGED <<loop, files, pc>>

Begin(mappings, p) ==
    /\ pc = "idle"
    /\ pc' = p
    /\ whole' = mappings
    /\ todo' = mappings
    /\ result' = NewLineageMap
    /\ UNCHANGED <<lm, files>>

(* LoadLineageMap returns an error when there is no file to read or it     *)
(* does not decode.                                                        *)
Load ==
    /\ file \notin {Missing, Torn}
    /\ Begin(file, "load")

Merge(other) ==
    /\ Len(lm.mappings) < MaxLen
    /\ Begin(lm.mappings \o other, "merge")

LoadMapping ==
    /\ pc = "load"
    /\ todo # <<>>
    /\ result' = Added(result, Head(todo))
    /\ todo' = Tail(todo)
    /\ UNCHANGED <<lm, whole, files, pc>>

MergeMappingAgain ==
    /\ pc = "merge"
    /\ todo # <<>>
    /\ result' = Added(result, Head(todo))
    /\ todo' = Tail(todo)
    /\ UNCHANGED <<lm, whole, files, pc>>

MergeMapping ==
    /\ pc = "merge"
    /\ todo # <<>>
    /\ result' = IF MergeKey(Head(todo)) \in Seen(result)
                 THEN result ELSE Added(result, Head(todo))
    /\ todo' = Tail(todo)
    /\ UNCHANGED <<lm, whole, files, pc>>

(* The caller goes on with the map it was given.                           *)
Built ==
    /\ pc \in {"load", "merge"}
    /\ todo = <<>>
    /\ lm' = result
    /\ result' = NewLineageMap
    /\ whole' = <<>>
    /\ pc' = "idle"
    /\ UNCHANGED <<todo, files>>

-----------------------------------------------------------------------------
(* SaveLineageMap.  os.WriteFile empties the file before it fills it.      *)

Save ==
    /\ pc = "idle"
    /\ out' = lm.mappings
    /\ pc' = "write"
    /\ UNCHANGED <<lm, loop, file, tmp, saved>>

SaveStep(from, to) ==
    /\ pc = from
    /\ pc' = to
    /\ out' = IF to = "idle" THEN <<>> ELSE out
    /\ UNCHANGED <<lm, loop>>

TmpEmpty == SaveStep("write", "fill") /\ tmp' = Torn /\ UNCHANGED <<file, saved>>

TmpFill == SaveStep("fill", "rename") /\ tmp' = out /\ UNCHANGED <<file, saved>>

TmpFailsIgnored ==
    /\ "write" \in Faults
    /\ SaveStep("write", "rename") \/ SaveStep("fill", "rename")
    /\ UNCHANGED <<file, tmp, saved>>

TmpFails ==
    /\ "write" \in Faults
    /\ SaveStep("write", "idle") \/ SaveStep("fill", "idle")
    /\ UNCHANGED <<file, tmp, saved>>

Rename ==
    /\ SaveStep("rename", "idle")
    /\ file' = tmp
    /\ tmp' = Missing
    /\ saved' = out

RenameFails ==
    /\ "rename" \in Faults
    /\ SaveStep("rename", "remove")
    /\ UNCHANGED <<file, tmp, saved>>

(* The error of os.Remove is ignored.                                      *)
RemoveTmp ==
    /\ SaveStep("remove", "idle")
    /\ \/ tmp' = Missing
       \/ "remove" \in Faults /\ UNCHANGED tmp
    /\ UNCHANGED <<file, saved>>

(* The next process starts with an empty map.                              *)
Crash ==
    /\ lm' = NewLineageMap
    /\ result' = NewLineageMap
    /\ todo' = <<>>
    /\ whole' = <<>>
    /\ out' = <<>>
    /\ pc' = "idle"
    /\ UNCHANGED <<file, tmp, saved>>

Next ==
    \/ \E m \in Mappings : Add(m)
    \/ \E other \in Others : Merge(other)
    \/ Load \/ LoadMapping \/ MergeMapping \/ Built
    \/ Save \/ TmpEmpty \/ TmpFill \/ TmpFails \/ Rename \/ RenameFails \/ RemoveTmp
    \/ Crash

Spec == Init /\ [][Next]_vars

-----------------------------------------------------------------------------
Contents == Seq(Mapping) \cup {Missing, Torn}

TypeOK ==
    /\ lm \in LineageMaps
    /\ result \in LineageMaps
    /\ todo \in Seq(Mapping)
    /\ whole \in Seq(Mapping)
    /\ file \in Contents
    /\ tmp \in Contents
    /\ out \in Seq(Mapping)
    /\ saved \in Contents \ {Torn}
    /\ pc \in {"idle", "load", "merge", "write", "fill", "rename", "remove"}

(* An index lists the positions of the mappings with its key, each once,   *)
(* the earlier ones first.                                                 *)
Lists(index, l, end(_)) ==
    \A k \in Key :
        /\ \A p \in DOMAIN l.mappings :
             KeyOf[end(l.mappings[p])] = k <=> \E i \in DOMAIN index[k] : index[k][i] = p
        /\ \A i \in DOMAIN index[k] : index[k][i] \in DOMAIN l.mappings
        /\ \A i, j \in DOMAIN index[k] : i < j => index[k][i] < index[k][j]

Indexed(l) ==
    /\ Lists(l.byTarget, l, LAMBDA m : m.target)
    /\ Lists(l.bySource, l, LAMBDA m : m.source)

(* After any sequence of Add, Load, Merge and deaths both indexes answer   *)
(* for exactly the mappings of the map: SourcesOf and TargetsOf neither    *)
(* miss a mapping nor return one twice or one of another field.            *)
IndexesAgree == TypeOK /\ Indexed(lm) /\ Indexed(result)

(* The file is always the whole map given to the last save that succeeded: *)
(* a save that fails or dies at any step, or finds what an earlier one     *)
(* left in the temporary file, changes nothing.                            *)
FileIsWhole == file = saved

(* What a merge has read is in its result under its key, once, and is      *)
(* there as the first of the inputs has it; a load restores every mapping  *)
(* of the file in its place.                                               *)
Read == SubSeq(whole, 1, Len(whole) - Len(todo))

FirstWithKey(s, i) == \A j \in 1..(i - 1) : MergeKey(s[j]) # MergeKey(s[i])

MergeCovers ==
    /\ pc = "load" => result.mappings = Read
    /\ pc = "merge" =>
         /\ \A i \in DOMAIN Read : MergeKey(Read[i]) \in Seen(result)
         /\ \A p \in DOMAIN result.mappings :
              /\ FirstWithKey(result.mappings, p)
              /\ \E i \in DOMAIN Read :
                   Read[i] = result.mappings[p] /\ FirstWithKey(Read, i)
=============================================================================
