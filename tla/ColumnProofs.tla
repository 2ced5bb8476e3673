---------------------------- MODULE ColumnProofs ----------------------------
(***************************************************************************)
(* What modules Column and ColumnTrace promise, for any fields, mappings,  *)
(* faults and bound: types, the agreement of the two indexes with the      *)
(* mappings, the wholeness of the file, what a load and a merge have built *)
(* at every turn of their loops, and what the traces answer.               *)
(***************************************************************************)
EXTENDS ColumnTrace, SequenceTheorems, TLAPS

-----------------------------------------------------------------------------
(* Indexes.  An index is right for a list of keys when it has the places   *)
(* of every key, in their order.                                           *)

Places(index, keys, len) ==
    \A k \in Key :
        /\ \A p \in 1..len : keys[p] = k <=> \E i \in DOMAIN index[k] : index[k][i] = p
        /\ \A i \in DOMAIN index[k] : index[k][i] \in 1..len
        /\ \A i, j \in DOMAIN index[k] : i < j => index[k][i] < index[k][j]

TargetKeys(l) == [p \in DOMAIN l.mappings |-> KeyOf[l.mappings[p].target]]
SourceKeys(l) == [p \in DOMAIN l.mappings |-> KeyOf[l.mappings[p].source]]

(* Both indexes of a map are right for its keys.                           *)
LEMMA IndexedIsPlaces ==
    ASSUME NEW l \in LineageMaps
    PROVE  Indexed(l) <=> /\ Places(l.byTarget, TargetKeys(l), Len(l.mappings))
                          /\ Places(l.bySource, SourceKeys(l), Len(l.mappings))
<1>1. DOMAIN l.mappings = 1..Len(l.mappings)
  BY LenProperties DEF LineageMaps
<1>2. /\ \A p \in 1..Len(l.mappings) : TargetKeys(l)[p] = KeyOf[l.mappings[p].target]
      /\ \A p \in 1..Len(l.mappings) : SourceKeys(l)[p] = KeyOf[l.mappings[p].source]
  BY <1>1 DEF TargetKeys, SourceKeys
<1>3. Lists(l.byTarget, l, LAMBDA m : m.target)
        <=> Places(l.byTarget, TargetKeys(l), Len(l.mappings))
  BY <1>1, <1>2 DEF Lists, Places
<1>4. Lists(l.bySource, l, LAMBDA m : m.source)
        <=> Places(l.bySource, SourceKeys(l), Len(l.mappings))
  BY <1>1, <1>2 DEF Lists, Places
<1> QED
  BY <1>3, <1>4 DEF Indexed

(* A new map is a map, and its indexes have nothing to list.               *)
LEMMA NewIsIndexed == NewLineageMap \in LineageMaps /\ Indexed(NewLineageMap)
BY DEF NewLineageMap, LineageMaps, Indexed, Lists

(* What LineageMap.Add returns is a map.                                   *)
LEMMA AddedIsMap ==
    ASSUME NEW l \in LineageMaps, NEW m \in Mapping
    PROVE  /\ Added(l, m) \in LineageMaps
           /\ Added(l, m).mappings = Append(l.mappings, m)
BY KeyAssumption DEF Added, LineageMaps, Mapping

(* One more key keeps an index right when its place is appended under it.  *)
LEMMA PlacesOneMore ==
    ASSUME NEW index \in [Key -> Seq(Nat)], NEW more \in [Key -> Seq(Nat)],
           NEW keys, NEW longer, NEW len \in Nat, NEW key \in Key,
           Places(index, keys, len),
           \A p \in 1..len : longer[p] = keys[p],
           longer[len + 1] = key,
           more = [index EXCEPT ![key] = Append(@, len + 1)]
    PROVE  Places(more, longer, len + 1)
<1> SUFFICES ASSUME NEW k \in Key
             PROVE  /\ \A p \in 1..(len + 1) :
                         longer[p] = k <=> \E i \in DOMAIN more[k] : more[k][i] = p
                    /\ \A i \in DOMAIN more[k] : more[k][i] \in 1..(len + 1)
                    /\ \A i, j \in DOMAIN more[k] : i < j => more[k][i] < more[k][j]
  BY DEF Places
<1> DEFINE old == index[k]
<1>1. old \in Seq(Nat) /\ DOMAIN old = 1..Len(old) /\ Len(old) \in Nat
  BY LenProperties
<1>2. /\ \A p \in 1..len : longer[p] = k <=> \E i \in DOMAIN old : old[i] = p
      /\ \A i \in DOMAIN old : old[i] \in 1..len
      /\ \A i, j \in DOMAIN old : i < j => old[i] < old[j]
  <2>1. \A p \in 1..len : keys[p] = k <=> \E i \in DOMAIN old : old[i] = p
    BY Zenon DEF Places
  <2>2. \A i \in DOMAIN old : old[i] \in 1..len
    BY Zenon DEF Places
  <2>3. \A i, j \in DOMAIN old : i < j => old[i] < old[j]
    BY Zenon DEF Places
  <2> QED
    BY <2>1, <2>2, <2>3
<1>3. CASE k # key
  <2>1. more[k] = old
    BY <1>3
  <2>2. ~ \E i \in DOMAIN old : old[i] = len + 1
    BY <1>2, SMT
  <2>3. ASSUME NEW p \in 1..(len + 1)
        PROVE  longer[p] = k <=> \E i \in DOMAIN old : old[i] = p
    <3>1. CASE p = len + 1
      BY <3>1, <2>2, <1>3
    <3>2. CASE p \in 1..len
      BY <3>2, <1>2
    <3> QED
      BY <3>1, <3>2
  <2>4. \A i \in DOMAIN old : old[i] \in 1..(len + 1)
    BY <1>2
  <2> QED
    BY <2>1, <2>3, <2>4, <1>2
<1>4. CASE k = key
  <2>1. /\ DOMAIN more[k] = 1..(Len(old) + 1)
        /\ more[k][Len(old) + 1] = len + 1
        /\ \A i \in 1..Len(old) : more[k][i] = old[i]
    BY <1>1, <1>4
  <2>2. ASSUME NEW p \in 1..(len + 1)
        PROVE  longer[p] = k <=> \E i \in DOMAIN more[k] : more[k][i] = p
    <3>1. CASE p = len + 1
      <4>1. longer[p] = k
        BY <3>1, <1>4
      <4>2. Len(old) + 1 \in DOMAIN more[k] /\ more[k][Len(old) + 1] = p
        BY <3>1, <2>1, <1>1
      <4> QED
        BY <4>1, <4>2
    <3>2. CASE p \in 1..len
      <4>1. longer[p] = k <=> \E i \in 1..Len(old) : old[i] = p
        BY <3>2, <1>1, <1>2
      <4>2. (\E i \in 1..Len(old) : old[i] = p) <=> \E i \in 1..(Len(old) + 1) : more[k][i] = p
        <5>1. more[k][Len(old) + 1] # p
          BY <3>2, <2>1
        <5>2. 1..(Len(old) + 1) = 1..Len(old) \cup {Len(old) + 1}
          BY <1>1
        <5> QED
          BY <5>1, <5>2, <2>1
      <4> QED
        BY <4>1, <4>2, <2>1
    <3> QED
      BY <3>1, <3>2
  <2>3. \A i \in DOMAIN more[k] : more[k][i] \in 1..(len + 1)
    BY <2>1, <1>1, <1>2
  <2>4. \A i, j \in DOMAIN more[k] : i < j => more[k][i] < more[k][j]
    BY <2>1, <1>1, <1>2
  <2> QED
    BY <2>2, <2>3, <2>4
<1> QED
  BY <1>3, <1>4

(* LineageMap.Add keeps both indexes right.                                *)
LEMMA AddedIsIndexed ==
    ASSUME NEW l \in LineageMaps, NEW m \in Mapping, Indexed(l)
    PROVE  Indexed(Added(l, m))
<1> DEFINE n == Len(l.mappings)
           a == Added(l, m)
<1>1. /\ l.mappings \in Seq(Mapping) /\ n \in Nat /\ DOMAIN l.mappings = 1..n
      /\ l.byTarget \in [Key -> Seq(Nat)] /\ l.bySource \in [Key -> Seq(Nat)]
      /\ KeyOf[m.target] \in Key /\ KeyOf[m.source] \in Key
  BY LenProperties, KeyAssumption DEF LineageMaps, Mapping
<1>2. /\ a \in LineageMaps
      /\ Len(a.mappings) = n + 1
      /\ DOMAIN a.mappings = 1..(n + 1)
      /\ a.mappings[n + 1] = m
      /\ \A p \in 1..n : a.mappings[p] = l.mappings[p]
  <2>1. a \in LineageMaps /\ a.mappings = Append(l.mappings, m)
    BY AddedIsMap
  <2> HIDE DEF a
  <2> QED
    BY <1>1, <2>1
<1>3. /\ a.byTarget \in [Key -> Seq(Nat)] /\ a.bySource \in [Key -> Seq(Nat)]
      /\ a.byTarget = [l.byTarget EXCEPT ![KeyOf[m.target]] = Append(@, n + 1)]
      /\ a.bySource = [l.bySource EXCEPT ![KeyOf[m.source]] = Append(@, n + 1)]
  BY <1>2 DEF Added, LineageMaps
<1>4. /\ \A p \in 1..n : TargetKeys(a)[p] = TargetKeys(l)[p]
      /\ \A p \in 1..n : SourceKeys(a)[p] = SourceKeys(l)[p]
      /\ TargetKeys(a)[n + 1] = KeyOf[m.target]
      /\ SourceKeys(a)[n + 1] = KeyOf[m.source]
  BY <1>1, <1>2 DEF TargetKeys, SourceKeys
<1>5. Places(l.byTarget, TargetKeys(l), n) /\ Places(l.bySource, SourceKeys(l), n)
  BY IndexedIsPlaces
<1> HIDE DEF a, n
<1>6. Places(a.byTarget, TargetKeys(a), n + 1)
  <2> DEFINE key == KeyOf[m.target]
             keys == TargetKeys(l)
             longer == TargetKeys(a)
  <2> HIDE DEF key, keys, longer
  <2>1. /\ key \in Key /\ Places(l.byTarget, keys, n) /\ longer[n + 1] = key
        /\ \A p \in 1..n : longer[p] = keys[p]
        /\ a.byTarget = [l.byTarget EXCEPT ![key] = Append(@, n + 1)]
    BY <1>1, <1>3, <1>4, <1>5 DEF key, keys, longer
  <2> DEFINE index == l.byTarget
             more == a.byTarget
  <2> HIDE DEF index, more
  <2>2. /\ index \in [Key -> Seq(Nat)] /\ more \in [Key -> Seq(Nat)] /\ n \in Nat
        /\ Places(index, keys, n) /\ more = [index EXCEPT ![key] = Append(@, n + 1)]
    BY <1>1, <1>3, <2>1 DEF index, more
  <2>3. Places(more, longer, n + 1)
    BY <2>1, <2>2, PlacesOneMore
  <2> QED
    BY <2>3 DEF more, longer
<1>7. Places(a.bySource, SourceKeys(a), n + 1)
  <2> DEFINE key == KeyOf[m.source]
             keys == SourceKeys(l)
             longer == SourceKeys(a)
  <2> HIDE DEF key, keys, longer
  <2>1. /\ key \in Key /\ Places(l.bySource, keys, n) /\ longer[n + 1] = key
        /\ \A p \in 1..n : longer[p] = keys[p]
        /\ a.bySource = [l.bySource EXCEPT ![key] = Append(@, n + 1)]
    BY <1>1, <1>3, <1>4, <1>5 DEF key, keys, longer
  <2> DEFINE index == l.bySource
             more == a.bySource
  <2> HIDE DEF index, more
  <2>2. /\ index \in [Key -> Seq(Nat)] /\ more \in [Key -> Seq(Nat)] /\ n \in Nat
        /\ Places(index, keys, n) /\ more = [index EXCEPT ![key] = Append(@, n + 1)]
    BY <1>1, <1>3, <2>1 DEF index, more
  <2>3. Places(more, longer, n + 1)
    BY <2>1, <2>2, PlacesOneMore
  <2> QED
    BY <2>3 DEF more, longer
<1>8. Indexed(a)
  BY <1>2, <1>6, <1>7, IndexedIsPlaces
<1> QED
  BY <1>8 DEF a

-----------------------------------------------------------------------------
(* Types and indexes.                                                      *)

SavePlaces == {"idle", "write", "fill", "rename", "remove"}

(* A step inside a save that leaves the map and the loops alone.           *)
LEMMA SaveKeepsTypes ==
    ASSUME NEW from, NEW to, from \in SavePlaces, to \in SavePlaces,
           IndexesAgree, SaveStep(from, to),
           file' \in Contents, tmp' \in Contents, saved' \in Contents \ {Torn}
    PROVE  IndexesAgree'
BY DEF IndexesAgree, TypeOK, SaveStep, SavePlaces, loop

LEMMA IndexesInit == Init => IndexesAgree
BY NewIsIndexed, FileAssumption DEF Init, IndexesAgree, TypeOK, Contents

LEMMA IndexesStep == IndexesAgree /\ [Next]_vars => IndexesAgree'
<1> SUFFICES ASSUME IndexesAgree, [Next]_vars
             PROVE  IndexesAgree'
  OBVIOUS
<1> USE DEF IndexesAgree, TypeOK
<1>0. /\ Torn \in Contents /\ Missing \in Contents \ {Torn}
      /\ Seq(Mapping) \subseteq Contents \ {Torn}
  BY FileAssumption DEF Contents
<1>1. ASSUME NEW m \in Mappings, Add(m)
      PROVE  IndexesAgree'
  <2>1. m \in Mapping
    BY MappingsAssumption
  <2>2. lm' \in LineageMaps /\ Indexed(lm')
    BY <1>1, <2>1, AddedIsMap, AddedIsIndexed DEF Add
  <2> QED
    BY <1>1, <2>2 DEF Add, loop, files
<1>2. ASSUME NEW other \in Others, Merge(other)
      PROVE  IndexesAgree'
  <2>1. lm.mappings \o other \in Seq(Mapping)
    BY MappingsAssumption, ConcatProperties DEF LineageMaps
  <2> QED
    BY <1>2, <2>1, NewIsIndexed DEF Merge, Begin, files
<1>3. CASE Load
  <2>1. file \in Seq(Mapping)
    BY <1>3 DEF Load, Contents
  <2> QED
    BY <1>3, <2>1, NewIsIndexed DEF Load, Begin, files
<1>4. CASE LoadMapping
  <2>1. Head(todo) \in Mapping /\ Tail(todo) \in Seq(Mapping)
    BY <1>4, HeadTailProperties DEF LoadMapping
  <2>2. result' \in LineageMaps /\ Indexed(result')
    BY <1>4, <2>1, AddedIsMap, AddedIsIndexed DEF LoadMapping
  <2> QED
    BY <1>4, <2>1, <2>2 DEF LoadMapping, files
<1>5. CASE MergeMapping
  <2>1. Head(todo) \in Mapping /\ Tail(todo) \in Seq(Mapping)
    BY <1>5, HeadTailProperties DEF MergeMapping
  <2>2. result' \in LineageMaps /\ Indexed(result')
    BY <1>5, <2>1, AddedIsMap, AddedIsIndexed DEF MergeMapping
  <2> QED
    BY <1>5, <2>1, <2>2 DEF MergeMapping, files
<1>6. CASE Built
  BY <1>6, NewIsIndexed DEF Built, files
<1>7. CASE Save
  BY <1>7 DEF Save, loop, LineageMaps
<1>8. CASE TmpEmpty
  BY <1>8, <1>0, SaveKeepsTypes DEF TmpEmpty, SavePlaces
<1>9. CASE TmpFill
  BY <1>9, <1>0, SaveKeepsTypes DEF TmpFill, SavePlaces
<1>10. CASE TmpFails
  BY <1>10, SaveKeepsTypes DEF TmpFails, SavePlaces
<1>11. CASE Rename
  BY <1>11, <1>0, SaveKeepsTypes DEF Rename, SavePlaces
<1>12. CASE RenameFails
  BY <1>12, SaveKeepsTypes DEF RenameFails, SavePlaces
<1>13. CASE RemoveTmp
  BY <1>13, <1>0, SaveKeepsTypes DEF RemoveTmp, SavePlaces
<1>14. CASE Crash
  BY <1>14, NewIsIndexed DEF Crash
<1>15. CASE UNCHANGED vars
  BY <1>15 DEF vars, loop, files
<1> QED
  BY <1>1, <1>2, <1>3, <1>4, <1>5, <1>6, <1>7, <1>8, <1>9, <1>10, <1>11, <1>12, <1>13,
     <1>14, <1>15 DEF Next

(* Both indexes of the map in use and of the one being built answer for    *)
(* exactly its mappings, for all fields and keys, whatever is added,       *)
(* loaded and merged and wherever the program dies.                        *)
THEOREM IndexesAlwaysAgree == Spec => []IndexesAgree
BY IndexesInit, IndexesStep, PTL DEF Spec

-----------------------------------------------------------------------------
(* The file.  A rename finds in the temporary file what the save was       *)
(* given, whatever an earlier save left there.                             *)

Written == FileIsWhole /\ (pc = "rename" => tmp = out)

(* The file is the whole map of the last save that succeeded, for all      *)
(* maps, faults and deaths.                                                *)
THEOREM FileStaysWhole == Spec => []FileIsWhole
<1>1. Init => Written
  BY DEF Init, Written, FileIsWhole
<1>2. Written /\ [Next]_vars => Written'
  <2> SUFFICES ASSUME Written, [Next]_vars
               PROVE  Written'
    OBVIOUS
  <2> USE DEF Written, FileIsWhole, loop, files
  <2>1. ASSUME NEW m \in Mappings, Add(m)
        PROVE  Written'
    BY <2>1 DEF Add
  <2>2. ASSUME NEW other \in Others, Merge(other)
        PROVE  Written'
    BY <2>2 DEF Merge, Begin
  <2>3. CASE Load \/ LoadMapping \/ MergeMapping \/ Built
    BY <2>3 DEF Load, Begin, LoadMapping, MergeMapping, Built
  <2>4. CASE Save \/ TmpEmpty \/ TmpFill
    BY <2>4 DEF Save, TmpEmpty, TmpFill, SaveStep
  <2>5. CASE TmpFails \/ RenameFails \/ RemoveTmp
    BY <2>5 DEF TmpFails, RenameFails, RemoveTmp, SaveStep
  <2>6. CASE Rename
    BY <2>6 DEF Rename, SaveStep
  <2>7. CASE Crash
    BY <2>7 DEF Crash
  <2>8. CASE UNCHANGED vars
    BY <2>8 DEF vars
  <2> QED
    BY <2>1, <2>2, <2>3, <2>4, <2>5, <2>6, <2>7, <2>8 DEF Next
<1> QED
  BY <1>1, <1>2, PTL DEF Spec, Written

-----------------------------------------------------------------------------
(* Loading and merging.                                                    *)

(* What a loop has still to read is the end of what it reads.              *)
Aligned(w, t) ==
    /\ Len(t) <= Len(w)
    /\ \A i \in 1..Len(t) : t[i] = w[Len(w) - Len(t) + i]

(* A turn of a loop reads one mapping more.                                *)
LEMMA ReadOneMore ==
    ASSUME NEW w \in Seq(Mapping), NEW t \in Seq(Mapping), Aligned(w, t), t # <<>>
    PROVE  /\ Aligned(w, Tail(t))
           /\ SubSeq(w, 1, Len(w) - Len(t)) \in Seq(Mapping)
           /\ SubSeq(w, 1, Len(w) - Len(Tail(t))) = Append(SubSeq(w, 1, Len(w) - Len(t)), Head(t))
<1> DEFINE n == Len(w) - Len(t)
           q == SubSeq(w, 1, n)
           r == SubSeq(w, 1, n + 1)
<1>1. /\ Len(t) \in Nat \ {0} /\ Len(w) \in Nat /\ n \in Nat /\ n + 1 \in 1..Len(w)
      /\ Len(Tail(t)) = Len(t) - 1 /\ Head(t) = t[1] /\ Head(t) = w[n + 1]
      /\ \A i \in 1..Len(Tail(t)) : Tail(t)[i] = t[i + 1]
  BY LenProperties, EmptySeq, HeadTailProperties DEF Aligned
<1>2. Aligned(w, Tail(t))
  BY <1>1 DEF Aligned
<1>3. /\ q \in Seq(Mapping) /\ Len(q) = n /\ \A i \in 1..n : q[i] = w[i]
      /\ r \in Seq(Mapping) /\ Len(r) = n + 1 /\ \A i \in 1..(n + 1) : r[i] = w[i]
  <2>1. \A i \in 1..(n + 1) : w[i] \in Mapping
    BY <1>1, ElementOfSeq
  <2> QED
    BY <2>1, <1>1, SubSeqProperties
<1>4. Head(t) \in Mapping
  BY HeadTailProperties
<1>5. r = Append(q, Head(t))
  <2> HIDE DEF q, r, n
  <2>1. Append(q, Head(t)) \in Seq(Mapping) /\ Len(Append(q, Head(t))) = n + 1
    BY <1>3, <1>4
  <2>2. ASSUME NEW i \in 1..(n + 1)
        PROVE  r[i] = Append(q, Head(t))[i]
    BY <1>1, <1>3, <1>4
  <2> QED
    BY <1>3, <2>1, <2>2, SeqEqual
<1>6. Len(w) - Len(Tail(t)) = n + 1
  BY <1>1
<1> QED
  BY <1>2, <1>3, <1>5, <1>6

Covers(r, q) ==
    /\ \A i \in DOMAIN q : MergeKey(q[i]) \in {MergeKey(r[p]) : p \in DOMAIN r}
    /\ \A p \in DOMAIN r :
         FirstWithKey(r, p) /\ \E i \in DOMAIN q : q[i] = r[p] /\ FirstWithKey(q, i)

(* The first mapping with a key stays the first when the list grows.       *)
LEMMA FirstStaysFirst ==
    ASSUME NEW q \in Seq(Mapping), NEW h \in Mapping, NEW i \in DOMAIN q, FirstWithKey(q, i)
    PROVE  FirstWithKey(Append(q, h), i)
BY LenProperties DEF FirstWithKey

(* A mapping whose key is in the result is passed over.                    *)
LEMMA CoversOneSeen ==
    ASSUME NEW r \in Seq(Mapping), NEW q \in Seq(Mapping), NEW h \in Mapping, Covers(r, q),
           MergeKey(h) \in {MergeKey(r[p]) : p \in DOMAIN r}
    PROVE  Covers(r, Append(q, h))
<1> DEFINE a == Append(q, h)
<1>1. /\ DOMAIN q = 1..Len(q) /\ Len(q) \in Nat /\ DOMAIN a = 1..(Len(q) + 1)
      /\ a[Len(q) + 1] = h /\ \A i \in 1..Len(q) : a[i] = q[i]
  BY LenProperties
<1>2. \A i \in DOMAIN a : MergeKey(a[i]) \in {MergeKey(r[p]) : p \in DOMAIN r}
  <2> SUFFICES ASSUME NEW i \in DOMAIN a
               PROVE  MergeKey(a[i]) \in {MergeKey(r[p]) : p \in DOMAIN r}
    OBVIOUS
  <2>1. CASE i = Len(q) + 1
    BY <2>1, <1>1
  <2>2. CASE i \in DOMAIN q
    BY <2>2, <1>1 DEF Covers
  <2> QED
    BY <2>1, <2>2, <1>1
<1>3. ASSUME NEW p \in DOMAIN r
      PROVE  FirstWithKey(r, p) /\ \E i \in DOMAIN a : a[i] = r[p] /\ FirstWithKey(a, i)
  <2>1. FirstWithKey(r, p)
    BY DEF Covers
  <2>2. PICK i \in DOMAIN q : q[i] = r[p] /\ FirstWithKey(q, i)
    BY DEF Covers
  <2>3. FirstWithKey(a, i)
    BY <2>2, FirstStaysFirst
  <2>4. i \in DOMAIN a /\ a[i] = r[p]
    BY <2>2, <1>1
  <2> QED
    BY <2>1, <2>3, <2>4
<1> QED
  BY <1>2, <1>3 DEF Covers

(* A mapping with a new key is added.                                      *)
LEMMA CoversOneNew ==
    ASSUME NEW r \in Seq(Mapping), NEW q \in Seq(Mapping), NEW h \in Mapping, Covers(r, q),
           MergeKey(h) \notin {MergeKey(r[p]) : p \in DOMAIN r}
    PROVE  Covers(Append(r, h), Append(q, h))
<1> DEFINE a == Append(q, h)
           b == Append(r, h)
<1>1. /\ DOMAIN q = 1..Len(q) /\ Len(q) \in Nat /\ DOMAIN a = 1..(Len(q) + 1)
      /\ a[Len(q) + 1] = h /\ \A i \in 1..Len(q) : a[i] = q[i]
  BY LenProperties
<1>2. /\ DOMAIN r = 1..Len(r) /\ Len(r) \in Nat /\ DOMAIN b = 1..(Len(r) + 1)
      /\ b[Len(r) + 1] = h /\ \A p \in 1..Len(r) : b[p] = r[p]
  BY LenProperties
<1>3. \A i \in DOMAIN a : MergeKey(a[i]) \in {MergeKey(b[p]) : p \in DOMAIN b}
  <2> SUFFICES ASSUME NEW i \in DOMAIN a
               PROVE  \E p \in DOMAIN b : MergeKey(a[i]) = MergeKey(b[p])
    OBVIOUS
  <2>1. CASE i = Len(q) + 1
    BY <2>1, <1>1, <1>2
  <2>2. CASE i \in DOMAIN q
    <3>1. PICK p \in DOMAIN r : MergeKey(q[i]) = MergeKey(r[p])
      BY <2>2 DEF Covers
    <3>2. p \in DOMAIN b /\ b[p] = r[p] /\ a[i] = q[i]
      BY <2>2, <1>1, <1>2
    <3> QED
      BY <3>1, <3>2
  <2> QED
    BY <2>1, <2>2, <1>1
<1>4. ASSUME NEW p \in DOMAIN b
      PROVE  FirstWithKey(b, p) /\ \E i \in DOMAIN a : a[i] = b[p] /\ FirstWithKey(a, i)
  <2>1. CASE p \in DOMAIN r
    <3>1. PICK i \in DOMAIN q : q[i] = r[p] /\ FirstWithKey(q, i)
      BY <2>1 DEF Covers
    <3>2. FirstWithKey(a, i) /\ FirstWithKey(b, p)
      BY <2>1, <3>1, FirstStaysFirst DEF Covers
    <3>3. i \in DOMAIN a /\ a[i] = b[p]
      BY <2>1, <3>1, <1>1, <1>2
    <3> QED
      BY <3>2, <3>3
  <2>2. CASE p = Len(r) + 1
    <3>1. \A j \in DOMAIN r : MergeKey(r[j]) # MergeKey(h)
      OBVIOUS
    <3>2. \A j \in DOMAIN q : MergeKey(q[j]) # MergeKey(h)
      BY DEF Covers
    <3>3. FirstWithKey(b, p)
      BY <2>2, <3>1, <1>2 DEF FirstWithKey
    <3>4. FirstWithKey(a, Len(q) + 1)
      BY <3>2, <1>1 DEF FirstWithKey
    <3>5. Len(q) + 1 \in DOMAIN a /\ a[Len(q) + 1] = b[p]
      BY <2>2, <1>1, <1>2
    <3> QED
      BY <3>3, <3>4, <3>5
  <2> QED
    BY <2>1, <2>2, <1>2
<1> QED
  BY <1>3, <1>4 DEF Covers

LoopInv ==
    /\ IndexesAgree
    /\ pc \in {"load", "merge"} => Aligned(whole, todo)
    /\ MergeCovers

(* The invariant speaks of the result and of what has been read.           *)
LEMMA MergeCoversIs ==
    MergeCovers <=> /\ pc = "load" => result.mappings = Read
                    /\ pc = "merge" => Covers(result.mappings, Read)
BY DEF MergeCovers, Covers, Seen

(* A turn of either loop.                                                  *)
LEMMA TurnReads ==
    ASSUME LoopInv, pc \in {"load", "merge"}, todo # <<>>, todo' = Tail(todo), whole' = whole
    PROVE  /\ Aligned(whole, todo)'
           /\ Read \in Seq(Mapping) /\ Head(todo) \in Mapping
           /\ Read' = Append(Read, Head(todo))
<1>1. whole \in Seq(Mapping) /\ todo \in Seq(Mapping) /\ Aligned(whole, todo)
  BY DEF LoopInv, IndexesAgree, TypeOK
<1>2. Head(todo) \in Mapping
  BY <1>1, HeadTailProperties
<1> QED
  BY <1>1, <1>2, ReadOneMore DEF Read

(* For all maps that are merged or loaded: the result of a merge has the   *)
(* first mapping of every key that was read and no other, that of a load   *)
(* is what was read.                                                       *)
THEOREM MergeAlwaysCovers == Spec => []MergeCovers
<1>1. Init => LoopInv
  <2>1. Init => MergeCovers
    BY DEF Init, MergeCovers
  <2>2. Init => IndexesAgree
    BY NewIsIndexed, FileAssumption DEF Init, IndexesAgree, TypeOK, Contents
  <2>3. Init => pc \notin {"load", "merge"}
    BY DEF Init
  <2> QED
    BY <2>1, <2>2, <2>3 DEF LoopInv
<1>2. IndexesAgree' /\ LoopInv /\ [Next]_vars => LoopInv'
  <2> SUFFICES ASSUME IndexesAgree', LoopInv, [Next]_vars
               PROVE  (pc \in {"load", "merge"} => Aligned(whole, todo))' /\ MergeCovers'
    BY DEF LoopInv
  <2>0. /\ lm \in LineageMaps /\ result \in LineageMaps /\ result.mappings \in Seq(Mapping)
        /\ whole \in Seq(Mapping) /\ todo \in Seq(Mapping)
        /\ lm.mappings \in Seq(Mapping) /\ file \in Contents
    BY DEF LoopInv, IndexesAgree, TypeOK, LineageMaps
  <2>1. ASSUME pc' \notin {"load", "merge"}
        PROVE  (pc \in {"load", "merge"} => Aligned(whole, todo))' /\ MergeCovers'
    BY <2>1 DEF MergeCovers
  <2>2. ASSUME NEW mappings \in Seq(Mapping), NEW p, Begin(mappings, p)
        PROVE  (pc \in {"load", "merge"} => Aligned(whole, todo))' /\ MergeCovers'
    <3>1. Len(mappings) \in Nat /\ whole' = mappings /\ todo' = mappings
      BY <2>2, LenProperties DEF Begin
    <3>2. Aligned(whole, todo)'
      BY <3>1 DEF Aligned
    <3>3. Read' = <<>>
      BY <3>1, SubSeqEmpty DEF Read
    <3>4. result'.mappings = <<>>
      BY <2>2 DEF Begin, NewLineageMap
    <3>5. Covers(<<>>, <<>>)
      BY DEF Covers
    <3>6. MergeCovers'
      <4>1. /\ pc' = "load" => result'.mappings = Read'
            /\ pc' = "merge" => Covers(result'.mappings, Read')
        BY <3>3, <3>4, <3>5
      <4> QED
        BY <4>1 DEF MergeCovers, Covers, Seen
    <3> QED
      BY <3>2, <3>6
  <2>3. CASE Load
    BY <2>3, <2>2, <2>0 DEF Load, Contents
  <2>4. ASSUME NEW other \in Others, Merge(other)
        PROVE  (pc \in {"load", "merge"} => Aligned(whole, todo))' /\ MergeCovers'
    <3>1. lm.mappings \o other \in Seq(Mapping)
      BY <2>0, MappingsAssumption, ConcatProperties
    <3> QED
      BY <2>4, <3>1, <2>2 DEF Merge
  <2>5. CASE LoadMapping
    <3>1. /\ pc = "load" /\ pc' = pc /\ todo # <<>> /\ todo' = Tail(todo) /\ whole' = whole
          /\ result' = Added(result, Head(todo))
      BY <2>5 DEF LoadMapping
    <3>2. /\ Aligned(whole, todo)' /\ Head(todo) \in Mapping
          /\ Read' = Append(Read, Head(todo))
      BY <3>1, TurnReads
    <3>3. result'.mappings = Append(result.mappings, Head(todo))
      BY <3>1, <3>2, <2>0, AddedIsMap
    <3>4. result.mappings = Read
      BY <3>1 DEF LoopInv, MergeCovers
    <3>5. MergeCovers'
      BY <3>1, <3>2, <3>3, <3>4 DEF MergeCovers
    <3> QED
      BY <3>2, <3>5
  <2>6. CASE MergeMapping
    <3>1. /\ pc = "merge" /\ pc' = pc /\ todo # <<>> /\ todo' = Tail(todo) /\ whole' = whole
          /\ result' = IF MergeKey(Head(todo)) \in Seen(result)
                       THEN result ELSE Added(result, Head(todo))
      BY <2>6 DEF MergeMapping
    <3>2. /\ Aligned(whole, todo)' /\ Head(todo) \in Mapping /\ Read \in Seq(Mapping)
          /\ Read' = Append(Read, Head(todo))
      BY <3>1, TurnReads
    <3>3. Covers(result.mappings, Read)
      BY <3>1, MergeCoversIs DEF LoopInv
    <3>4. Covers(result'.mappings, Read')
      <4>1. CASE MergeKey(Head(todo)) \in Seen(result)
        BY <4>1, <3>1, <3>2, <3>3, <2>0, CoversOneSeen DEF Seen
      <4>2. CASE MergeKey(Head(todo)) \notin Seen(result)
        <5>1. result'.mappings = Append(result.mappings, Head(todo))
          BY <4>2, <3>1, <3>2, <2>0, AddedIsMap
        <5>2. MergeKey(Head(todo)) \notin {MergeKey(result.mappings[p]) : p \in DOMAIN result.mappings}
          BY <4>2 DEF Seen
        <5> QED
          BY <5>1, <5>2, <3>2, <3>3, <2>0, CoversOneNew
      <4> QED
        BY <4>1, <4>2
    <3>5. MergeCovers'
      <4>1. /\ pc' = "load" => result'.mappings = Read'
            /\ pc' = "merge" => Covers(result'.mappings, Read')
        BY <3>1, <3>4
      <4> QED
        BY <4>1 DEF MergeCovers, Covers, Seen
    <3> QED
      BY <3>2, <3>5
  <2>7. ASSUME NEW m \in Mappings, Add(m)
        PROVE  pc' \notin {"load", "merge"}
    BY <2>7 DEF Add
  <2>8. CASE Built \/ Save \/ Crash
    BY <2>8, <2>1 DEF Built, Save, Crash
  <2>9. CASE TmpEmpty \/ TmpFill \/ TmpFails \/ Rename \/ RenameFails \/ RemoveTmp
    BY <2>9, <2>1 DEF TmpEmpty, TmpFill, TmpFails, Rename, RenameFails, RemoveTmp, SaveStep
  <2>10. CASE UNCHANGED vars
    BY <2>10 DEF vars, LoopInv, MergeCovers, Read, Seen
  <2> QED
    BY <2>1, <2>3, <2>4, <2>5, <2>6, <2>7, <2>8, <2>9, <2>10 DEF Next
<1>3. Spec => []IndexesAgree
  BY IndexesAlwaysAgree
<1> QED
  BY <1>1, <1>2, <1>3, PTL DEF Spec, LoopInv

-----------------------------------------------------------------------------
(* The traces.  One mapping further in the direction of the trace, and the *)
(* keys a whole trace is to find.                                          *)

Start == KeyOf[asked.field]

Further(j, k) ==
    IF asked.kind = "sources" THEN <<k, j>> \in Arrows(lm) ELSE <<j, k>> \in Arrows(lm)

OnChain(k) == IF asked.kind = "sources" THEN Leads(lm, k, Start) ELSE Leads(lm, Start, k)

(* What a call of walk has still to look at.                               *)
Frames == [field : Field, next : Nat \ {0}]

Ahead(frame) ==
    {KeyOf[Neighbours(frame.field)[p]] :
        p \in {q \in DOMAIN Neighbours(frame.field) : q >= frame.next}}

(* The fields found lie on chains, each key once; and what a key that was  *)
(* found, or the start, leads to is found or still ahead of a call of walk *)
(* for that key.                                                           *)
TraceIsOn ==
    /\ \A i \in DOMAIN res : res[i] \in Ends(lm) /\ OnChain(KeyOf[res[i]])
    /\ \A i, j \in DOMAIN res : KeyOf[res[i]] = KeyOf[res[j]] => i = j
    /\ \A i \in DOMAIN frames : KeyOf[frames[i].field] \in Found \cup {Start}
    /\ \A k \in Found \cup {Start} : \A j \in Key : Further(k, j) =>
         \/ j \in Found
         \/ \E i \in DOMAIN frames : KeyOf[frames[i].field] = k /\ j \in Ahead(frames[i])

TraceInvariant ==
    /\ IndexesAgree
    /\ asked \in TraceCalls \cup {NoCall}
    /\ frames \in Seq(Frames)
    /\ res \in Seq(Field)
    /\ asked # NoCall => TraceIsOn

(* A chain of mappings is a mapping, or one with a mapping put behind or   *)
(* before it.                                                              *)
LEMMA ArrowsLead ==
    ASSUME NEW l, NEW j \in Key, NEW k \in Key, <<j, k>> \in Arrows(l)
    PROVE  /\ Leads(l, j, k)
           /\ \A i \in Key : Leads(l, i, j) => Leads(l, i, k)
           /\ \A i \in Key : Leads(l, k, i) => Leads(l, j, i)
<1> DEFINE e == <<j, k>>
<1>1. e \in Arrows(l) /\ e[1] = j /\ e[2] = k
  OBVIOUS
<1> HIDE DEF e
<1>2. Leads(l, j, k)
  BY <1>1 DEF Leads
<1>3. ASSUME NEW i \in Key, Leads(l, i, j)
      PROVE  Leads(l, i, k)
  BY <1>1, <1>3 DEF Leads
<1>4. ASSUME NEW i \in Key, Leads(l, k, i)
      PROVE  Leads(l, j, i)
  <2> SUFFICES ASSUME NEW S \in SUBSET Key, \A a \in Arrows(l) : a[1] \in S \cup {j} => a[2] \in S
               PROVE  i \in S
    BY DEF Leads
  <2>1. k \in S
    BY <1>1
  <2>2. \A a \in Arrows(l) : a[1] \in S \cup {k} => a[2] \in S
    BY <2>1
  <2> QED
    BY <1>4, <2>2 DEF Leads
<1> QED
  BY <1>2, <1>3, <1>4

(* SourcesOf and TargetsOf list fields of the map, one for every mapping   *)
(* of the key asked for.                                                   *)
LEMMA SourcesFacts ==
    ASSUME NEW l \in LineageMaps, Indexed(l), NEW f \in Field
    PROVE  /\ Sources(l, f) \in Seq(Field)
           /\ \A i \in DOMAIN Sources(l, f) :
                Sources(l, f)[i] \in Ends(l) /\ <<KeyOf[Sources(l, f)[i]], KeyOf[f]>> \in Arrows(l)
           /\ \A k \in Key : <<k, KeyOf[f]>> \in Arrows(l) =>
                \E i \in DOMAIN Sources(l, f) : KeyOf[Sources(l, f)[i]] = k
<1> DEFINE at == l.byTarget[KeyOf[f]]
           ms == l.mappings
<1>1. /\ KeyOf[f] \in Key /\ at \in Seq(Nat) /\ ms \in Seq(Mapping)
      /\ DOMAIN at = 1..Len(at) /\ Len(at) \in Nat
  BY KeyAssumption DEF LineageMaps
<1>2. /\ \A p \in DOMAIN ms : KeyOf[ms[p].target] = KeyOf[f] <=> \E i \in DOMAIN at : at[i] = p
      /\ \A i \in DOMAIN at : at[i] \in DOMAIN ms
  BY <1>1 DEF Indexed, Lists
<1>3. /\ DOMAIN Sources(l, f) = DOMAIN at
      /\ \A i \in DOMAIN at : Sources(l, f)[i] = ms[at[i]].source
  BY DEF Sources, SourcesOf
<1> DEFINE s == Sources(l, f)
<1>4. \A p \in DOMAIN ms : ms[p].source \in Field /\ ms[p].source \in Ends(l)
  <2> SUFFICES ASSUME NEW p \in DOMAIN ms
               PROVE  ms[p].source \in Field /\ ms[p].source \in Ends(l)
    OBVIOUS
  <2>1. ms[p] \in Mapping
    BY <1>1
  <2>2. ms[p].source \in {ms[p].source, ms[p].target}
    OBVIOUS
  <2> QED
    BY <2>1, <2>2 DEF Mapping, Ends
<1>5. s = [i \in 1..Len(at) |-> ms[at[i]].source]
  BY <1>1 DEF Sources, SourcesOf
<1>6. s \in Seq(Field)
  <2>1. \A i \in 1..Len(at) : ms[at[i]].source \in Field
    BY <1>1, <1>2, <1>4
  <2> QED
    BY <1>1, <1>5, <2>1
<1> HIDE DEF at, ms, s
<1>7. \A i \in DOMAIN s : s[i] \in Ends(l) /\ <<KeyOf[s[i]], KeyOf[f]>> \in Arrows(l)
  <2> SUFFICES ASSUME NEW i \in DOMAIN s
               PROVE  s[i] \in Ends(l) /\ <<KeyOf[s[i]], KeyOf[f]>> \in Arrows(l)
    OBVIOUS
  <2> DEFINE p == at[i]
  <2>1. p \in DOMAIN ms /\ i \in DOMAIN at /\ s[i] = ms[p].source
    BY <1>2, <1>3 DEF s
  <2>2. KeyOf[ms[p].target] = KeyOf[f]
    BY <1>2, <2>1
  <2>3. <<KeyOf[ms[p].source], KeyOf[ms[p].target]>> \in Arrows(l)
    BY <2>1 DEF Arrows, ms
  <2> QED
    BY <1>4, <2>1, <2>2, <2>3
<1>8. ASSUME NEW k \in Key, <<k, KeyOf[f]>> \in Arrows(l)
      PROVE  \E i \in DOMAIN s : KeyOf[s[i]] = k
  <2>1. PICK p \in DOMAIN ms : <<k, KeyOf[f]>> = <<KeyOf[ms[p].source], KeyOf[ms[p].target]>>
    BY <1>8 DEF Arrows, ms
  <2>2. KeyOf[ms[p].target] = KeyOf[f] /\ KeyOf[ms[p].source] = k
    BY <2>1
  <2>3. PICK i \in DOMAIN at : at[i] = p
    BY <1>2, <2>2
  <2> QED
    BY <1>3, <2>2, <2>3 DEF s
<1> QED
  BY <1>6, <1>7, <1>8 DEF s

LEMMA TargetsFacts ==
    ASSUME NEW l \in LineageMaps, Indexed(l), NEW f \in Field
    PROVE  /\ Targets(l, f) \in Seq(Field)
           /\ \A i \in DOMAIN Targets(l, f) :
                Targets(l, f)[i] \in Ends(l) /\ <<KeyOf[f], KeyOf[Targets(l, f)[i]]>> \in Arrows(l)
           /\ \A k \in Key : <<KeyOf[f], k>> \in Arrows(l) =>
                \E i \in DOMAIN Targets(l, f) : KeyOf[Targets(l, f)[i]] = k
<1> DEFINE at == l.bySource[KeyOf[f]]
           ms == l.mappings
<1>1. /\ KeyOf[f] \in Key /\ at \in Seq(Nat) /\ ms \in Seq(Mapping)
      /\ DOMAIN at = 1..Len(at) /\ Len(at) \in Nat
  BY KeyAssumption DEF LineageMaps
<1>2. /\ \A p \in DOMAIN ms : KeyOf[ms[p].source] = KeyOf[f] <=> \E i \in DOMAIN at : at[i] = p
      /\ \A i \in DOMAIN at : at[i] \in DOMAIN ms
  BY <1>1 DEF Indexed, Lists
<1>3. /\ DOMAIN Targets(l, f) = DOMAIN at
      /\ \A i \in DOMAIN at : Targets(l, f)[i] = ms[at[i]].target
  BY DEF Targets, TargetsOf
<1> DEFINE s == Targets(l, f)
<1>4. \A p \in DOMAIN ms : ms[p].target \in Field /\ ms[p].target \in Ends(l)
  <2> SUFFICES ASSUME NEW p \in DOMAIN ms
               PROVE  ms[p].target \in Field /\ ms[p].target \in Ends(l)
    OBVIOUS
  <2>1. ms[p] \in Mapping
    BY <1>1
  <2>2. ms[p].target \in {ms[p].source, ms[p].target}
    OBVIOUS
  <2> QED
    BY <2>1, <2>2 DEF Mapping, Ends
<1>5. s = [i \in 1..Len(at) |-> ms[at[i]].target]
  BY <1>1 DEF Targets, TargetsOf
<1>6. s \in Seq(Field)
  <2>1. \A i \in 1..Len(at) : ms[at[i]].target \in Field
    BY <1>1, <1>2, <1>4
  <2> QED
    BY <1>1, <1>5, <2>1
<1> HIDE DEF at, ms, s
<1>7. \A i \in DOMAIN s : s[i] \in Ends(l) /\ <<KeyOf[f], KeyOf[s[i]]>> \in Arrows(l)
  <2> SUFFICES ASSUME NEW i \in DOMAIN s
               PROVE  s[i] \in Ends(l) /\ <<KeyOf[f], KeyOf[s[i]]>> \in Arrows(l)
    OBVIOUS
  <2> DEFINE p == at[i]
  <2>1. p \in DOMAIN ms /\ i \in DOMAIN at /\ s[i] = ms[p].target
    BY <1>2, <1>3 DEF s
  <2>2. KeyOf[ms[p].source] = KeyOf[f]
    BY <1>2, <2>1
  <2>3. <<KeyOf[ms[p].source], KeyOf[ms[p].target]>> \in Arrows(l)
    BY <2>1 DEF Arrows, ms
  <2> QED
    BY <1>4, <2>1, <2>2, <2>3
<1>8. ASSUME NEW k \in Key, <<KeyOf[f], k>> \in Arrows(l)
      PROVE  \E i \in DOMAIN s : KeyOf[s[i]] = k
  <2>1. PICK p \in DOMAIN ms : <<KeyOf[f], k>> = <<KeyOf[ms[p].source], KeyOf[ms[p].target]>>
    BY <1>8 DEF Arrows, ms
  <2>2. KeyOf[ms[p].source] = KeyOf[f] /\ KeyOf[ms[p].target] = k
    BY <2>1
  <2>3. PICK i \in DOMAIN at : at[i] = p
    BY <1>2, <2>2
  <2> QED
    BY <1>3, <2>2, <2>3 DEF s
<1> QED
  BY <1>6, <1>7, <1>8 DEF s

LEMMA NeighbourFacts ==
    ASSUME TypeOK, Indexed(lm), asked \in TraceCalls, NEW f \in Field
    PROVE  /\ Neighbours(f) \in Seq(Field)
           /\ \A i \in DOMAIN Neighbours(f) :
                Neighbours(f)[i] \in Ends(lm) /\ Further(KeyOf[f], KeyOf[Neighbours(f)[i]])
           /\ \A k \in Key : Further(KeyOf[f], k) =>
                \E i \in DOMAIN Neighbours(f) : KeyOf[Neighbours(f)[i]] = k
<1>1. lm \in LineageMaps
  BY DEF TypeOK
<1>2. CASE asked.kind = "sources"
  BY <1>1, <1>2, SourcesFacts DEF Neighbours, Further
<1>3. CASE asked.kind # "sources"
  BY <1>1, <1>3, TargetsFacts DEF Neighbours, Further
<1> QED
  BY <1>2, <1>3

(* One mapping further from the start, or from a key on a chain.           *)
LEMMA FurtherIsOnChain ==
    ASSUME Start \in Key, NEW j \in Key, NEW k \in Key, Further(j, k),
           j = Start \/ OnChain(j)
    PROVE  OnChain(k)
<1>1. CASE asked.kind = "sources"
  <2>1. <<k, j>> \in Arrows(lm)
    BY <1>1 DEF Further
  <2> QED
    BY <1>1, <2>1, ArrowsLead DEF OnChain
<1>2. CASE asked.kind # "sources"
  <2>1. <<j, k>> \in Arrows(lm)
    BY <1>2 DEF Further
  <2> QED
    BY <1>2, <2>1, ArrowsLead DEF OnChain
<1> QED
  BY <1>1, <1>2

(* Every mapping joins two keys.                                           *)
LEMMA ArrowsJoinKeys ==
    ASSUME TypeOK
    PROVE  Arrows(lm) \subseteq Key \X Key
<1> SUFFICES ASSUME NEW p \in DOMAIN lm.mappings
             PROVE  KeyOf[lm.mappings[p].source] \in Key /\ KeyOf[lm.mappings[p].target] \in Key
  BY DEF Arrows
<1>1. lm.mappings \in Seq(Mapping)
  BY DEF TypeOK, LineageMaps
<1>2. lm.mappings[p] \in Mapping
  BY <1>1
<1> QED
  BY <1>2, KeyAssumption DEF Mapping

(* Keys that, with the start, lead nowhere else hold whatever is on a      *)
(* chain.                                                                  *)
LEMMA ClosedHoldsChains ==
    ASSUME TypeOK, Start \in Key, NEW K \in SUBSET Key,
           \A k \in K \cup {Start} : \A j \in Key : Further(k, j) => j \in K,
           NEW c \in Key, OnChain(c)
    PROVE  c \in K
<1>1. \A e \in Arrows(lm) : e[1] \in Key /\ e[2] \in Key /\ e = <<e[1], e[2]>>
  BY ArrowsJoinKeys
<1>2. CASE asked.kind # "sources"
  <2>1. \A e \in Arrows(lm) : e[1] \in K \cup {Start} => e[2] \in K
    BY <1>1, <1>2 DEF Further
  <2> QED
    BY <1>2, <2>1 DEF OnChain, Leads
<1>3. CASE asked.kind = "sources"
  <2> SUFFICES ASSUME c \notin K PROVE FALSE
    OBVIOUS
  <2> DEFINE S == Key \ (K \cup {Start})
  <2>1. ASSUME NEW e \in Arrows(lm), e[1] \in S \cup {c}
        PROVE  e[2] \in S
    <3>1. e[1] \notin K
      BY <2>1
    <3>2. e[2] \in K \cup {Start} => Further(e[2], e[1])
      BY <1>1, <1>3 DEF Further
    <3> QED
      BY <1>1, <3>1, <3>2
  <2>2. Start \in S
    <3>1. Leads(lm, c, Start) /\ S \in SUBSET Key
      BY <1>3 DEF OnChain
    <3> HIDE DEF S
    <3> QED
      BY <2>1, <3>1 DEF Leads
  <2> QED
    BY <2>2
<1> QED
  BY <1>2, <1>3

-----------------------------------------------------------------------------
(* The steps of a trace.                                                   *)

LEMMA TraceTypes ==
    ASSUME TraceInvariant, asked # NoCall
    PROVE  /\ TypeOK /\ Indexed(lm) /\ asked \in TraceCalls /\ asked.field \in Field
           /\ Start \in Key /\ Found \subseteq Key /\ TraceIsOn
           /\ frames \in Seq(Frames) /\ res \in Seq(Field)
           /\ DOMAIN frames = 1..Len(frames) /\ DOMAIN res = 1..Len(res)
<1>1. /\ TypeOK /\ Indexed(lm) /\ asked \in TraceCalls /\ TraceIsOn
      /\ frames \in Seq(Frames) /\ res \in Seq(Field)
  BY DEF TraceInvariant, IndexesAgree
<1>2. asked.field \in Field
  BY <1>1 DEF TraceCalls
<1>3. Start \in Key
  BY <1>2, KeyAssumption DEF Start
<1>4. Found \subseteq Key
  BY <1>1, KeyAssumption DEF Found
<1> QED
  BY <1>1, <1>2, <1>3, <1>4, LenProperties

(* A trace that has ended has found every key on a chain.                  *)
LEMMA TraceEnds ==
    ASSUME TraceInvariant, Answered
    PROVE  TracesAgree
<1>1. /\ asked # NoCall /\ frames = <<>> /\ DOMAIN frames = {}
  BY DEF Answered
<1>2. \A k \in Found \cup {Start} : \A j \in Key : Further(k, j) => j \in Found
  BY <1>1, TraceTypes DEF TraceIsOn
<1>3. \A c \in Key : OnChain(c) => c \in Found
  BY <1>1, <1>2, TraceTypes, ClosedHoldsChains
<1>4. \A c \in Found : c \in Key /\ OnChain(c)
  BY <1>1, TraceTypes DEF TraceIsOn, Found
<1>5. Found = {k \in Key : OnChain(k)}
  BY <1>3, <1>4
<1>6. ASSUME NEW i \in DOMAIN res
      PROVE  res[i].table \in Tables(lm) /\ res[i].column \in ColumnsOfTable(lm, res[i].table)
  <2>1. res[i] \in Ends(lm)
    BY <1>1, TraceTypes DEF TraceIsOn
  <2> QED
    BY <2>1 DEF Tables, ColumnsOfTable
<1>7. \A i, j \in DOMAIN res : KeyOf[res[i]] = KeyOf[res[j]] => i = j
  BY <1>1, TraceTypes DEF TraceIsOn
<1> QED
  BY <1>5, <1>6, <1>7 DEF TracesAgree, OnChain, Start

(* A call of walk that begins has all the neighbours of its field ahead.   *)
LEMMA FrameFacts ==
    ASSUME TypeOK, Indexed(lm), asked \in TraceCalls, NEW f \in Field
    PROVE  /\ Frame(f) \in Frames /\ Frame(f).field = f
           /\ \A j \in Key : Further(KeyOf[f], j) => j \in Ahead(Frame(f))
<1>1. Frame(f) \in Frames /\ Frame(f).field = f /\ Frame(f).next = 1
  BY DEF Frame, Frames
<1>2. ASSUME NEW j \in Key, Further(KeyOf[f], j)
      PROVE  j \in Ahead(Frame(f))
  <2>1. PICK i \in DOMAIN Neighbours(f) : KeyOf[Neighbours(f)[i]] = j
    BY <1>2, NeighbourFacts
  <2>2. i >= 1
    BY <2>1, NeighbourFacts
  <2> QED
    BY <1>1, <2>1, <2>2 DEF Ahead
<1> QED
  BY <1>1, <1>2

LEMMA AskStep ==
    ASSUME TraceInvariant, Ask
    PROVE  TraceInvariant'
<1>1. PICK call \in TraceCalls : asked' = call /\ frames' = <<Frame(call.field)>>
  BY DEF Ask
<1>2. res' = <<>> /\ UNCHANGED vars /\ IndexesAgree
  BY DEF Ask, TraceInvariant
<1>3. IndexesAgree' /\ TypeOK' /\ Indexed(lm)'
  BY <1>2 DEF vars, IndexesAgree, TypeOK
<1>4. call.field \in Field
  BY DEF TraceCalls
<1>5. /\ Frame(call.field) \in Frames /\ Frame(call.field).field = call.field
  BY <1>4 DEF Frame, Frames
<1>6. /\ frames' \in Seq(Frames) /\ DOMAIN frames' = {1} /\ frames'[1] = Frame(call.field)
  BY <1>1, <1>5
<1>7. Found' = {} /\ DOMAIN res' = {} /\ Start' = KeyOf[call.field]
  BY <1>1, <1>2 DEF Found, Start
<1>8. ASSUME NEW j \in Key, Further(KeyOf[call.field], j)'
      PROVE  (j \in Ahead(Frame(call.field)))'
  <2>1. PICK i \in DOMAIN Neighbours(call.field)' : KeyOf[Neighbours(call.field)'[i]] = j
    <3>1. asked' \in TraceCalls /\ lm' \in LineageMaps
      BY <1>1, <1>3 DEF TypeOK
    <3>2. CASE call.kind = "sources"
      BY <1>1, <1>3, <1>4, <1>8, <3>1, <3>2, SourcesFacts DEF Neighbours, Further
    <3>3. CASE call.kind # "sources"
      BY <1>1, <1>3, <1>4, <1>8, <3>1, <3>3, TargetsFacts DEF Neighbours, Further
    <3> QED
      BY <3>2, <3>3
  <2>2. i \in Nat \ {0}
    <3>1. lm' \in LineageMaps
      BY <1>3 DEF TypeOK
    <3>2. Neighbours(call.field)' \in Seq(Field)
      BY <1>1, <1>3, <1>4, <3>1, SourcesFacts, TargetsFacts DEF Neighbours
    <3> QED
      BY <2>1, <3>2
  <2> QED
    BY <2>1, <2>2 DEF Ahead, Frame
<1>9. TraceIsOn'
  BY <1>5, <1>6, <1>7, <1>8 DEF TraceIsOn
<1> QED
  BY <1>1, <1>2, <1>3, <1>6, <1>9 DEF TraceInvariant

(* What one turn of the loop in walk takes from what is ahead.             *)
LEMMA TurnTakes ==
    ASSUME TraceInvariant, asked # NoCall, NEW fr \in Frames,
           fr.next <= Len(Neighbours(fr.field)),
           NEW turned, turned = [fr EXCEPT !.next = @ + 1]
    PROVE  /\ turned \in Frames /\ turned.field = fr.field
           /\ fr.next \in DOMAIN Neighbours(fr.field)
           /\ \A j \in Ahead(fr) :
                j \in Ahead(turned) \/ j = KeyOf[Neighbours(fr.field)[fr.next]]
<1>1. fr.field \in Field /\ fr.next \in Nat \ {0} /\ fr = [field |-> fr.field, next |-> fr.next]
  BY DEF Frames
<1>2. turned.field = fr.field /\ turned.next = fr.next + 1 /\ turned \in Frames
  BY <1>1 DEF Frames
<1> DEFINE ns == Neighbours(fr.field)
<1>3. ns \in Seq(Field) /\ DOMAIN ns = 1..Len(ns) /\ Len(ns) \in Nat
  BY <1>1, TraceTypes, NeighbourFacts
<1>4. fr.next \in DOMAIN ns
  BY <1>1, <1>3
<1>5. ASSUME NEW j \in Ahead(fr), j # KeyOf[ns[fr.next]]
      PROVE  j \in Ahead(turned)
  <2>1. PICK p \in DOMAIN ns : p >= fr.next /\ j = KeyOf[ns[p]]
    BY <1>5 DEF Ahead
  <2>2. p # fr.next /\ p \in Nat
    BY <1>3, <1>5, <2>1
  <2>3. p >= turned.next
    BY <1>1, <1>2, <2>1, <2>2
  <2> QED
    BY <1>2, <2>1, <2>3 DEF Ahead
<1> QED
  BY <1>2, <1>4, <1>5

LEMMA VisitStep ==
    ASSUME TraceInvariant, Visit
    PROVE  TraceInvariant'
<1> DEFINE top == frames[Depth]
           f == Neighbours(top.field)[top.next]
           turned == [top EXCEPT !.next = @ + 1]
           turn == [frames EXCEPT ![Depth].next = @ + 1]
<1>1. /\ asked # NoCall /\ frames # <<>> /\ top.next <= Len(Neighbours(top.field))
      /\ IF Visited(f) THEN frames' = turn /\ res' = res
         ELSE frames' = Append(turn, Frame(f)) /\ res' = Append(res, f)
      /\ UNCHANGED <<asked, vars>>
  BY DEF Visit, Walking, Top
<1>2. /\ TypeOK /\ Indexed(lm) /\ asked \in TraceCalls /\ Start \in Key /\ Found \subseteq Key
      /\ TraceIsOn /\ frames \in Seq(Frames) /\ res \in Seq(Field)
      /\ DOMAIN frames = 1..Len(frames) /\ DOMAIN res = 1..Len(res)
      /\ Len(frames) \in Nat /\ Len(res) \in Nat
  BY <1>1, TraceTypes
<1>3. Depth \in DOMAIN frames /\ top \in Frames
  <2>1. Depth \in DOMAIN frames
    BY <1>1, <1>2, EmptySeq DEF Depth
  <2> QED
    BY <1>2, <2>1
<1>4. /\ turned \in Frames /\ turned.field = top.field
      /\ top.next \in DOMAIN Neighbours(top.field)
      /\ \A j \in Ahead(top) : j \in Ahead(turned) \/ j = KeyOf[f]
  BY <1>1, <1>3, TurnTakes
<1>5. /\ f \in Field /\ KeyOf[f] \in Key /\ f \in Ends(lm)
      /\ Further(KeyOf[top.field], KeyOf[f]) /\ KeyOf[top.field] \in Key
  <2>1. top.field \in Field
    BY <1>3 DEF Frames
  <2>2. /\ f \in Field /\ f \in Ends(lm) /\ Further(KeyOf[top.field], KeyOf[f])
    BY <1>2, <1>4, <2>1, NeighbourFacts, ElementOfSeq
  <2> QED
    BY <2>1, <2>2, KeyAssumption
<1>6. OnChain(KeyOf[f])
  <2>1. KeyOf[top.field] \in Found \cup {Start}
    BY <1>2, <1>3 DEF TraceIsOn
  <2>2. KeyOf[top.field] = Start \/ OnChain(KeyOf[top.field])
    BY <1>2, <2>1 DEF TraceIsOn, Found
  <2> QED
    BY <1>2, <1>5, <2>2, FurtherIsOnChain
<1>7. /\ turn \in Seq(Frames) /\ DOMAIN turn = DOMAIN frames /\ Len(turn) = Len(frames)
      /\ \A i \in DOMAIN frames : i # Depth => turn[i] = frames[i]
      /\ turn[Depth] = turned
  <2>1. turn = [frames EXCEPT ![Depth] = turned]
    BY <1>2, <1>3
  <2> HIDE DEF turned, turn
  <2> QED
    BY <1>2, <1>3, <1>4, <2>1, ExceptSeq
<1>8. /\ Frame(f) \in Frames /\ Frame(f).field = f
      /\ \A j \in Key : Further(KeyOf[f], j) => j \in Ahead(Frame(f))
  BY <1>2, <1>5, FrameFacts
<1>9. Visited(f) <=> KeyOf[f] \in Found
  BY DEF Visited, Found
<1>10. IndexesAgree'
  BY <1>1 DEF vars, TraceInvariant, IndexesAgree, TypeOK
<1>11. /\ Start' = Start /\ Ends(lm)' = Ends(lm)
       /\ \A k : OnChain(k)' <=> OnChain(k)
       /\ \A j, k : Further(j, k)' <=> Further(j, k)
       /\ \A fr : Ahead(fr)' = Ahead(fr)
  BY <1>1 DEF vars, Start, Ends, OnChain, Leads, Arrows, Further, Ahead, Neighbours
<1> DEFINE k0 == KeyOf[f]
<1> HIDE DEF f, turned, turn
<1>12. /\ \A i \in DOMAIN frames : turn[i].field = frames[i].field
       /\ \A i \in DOMAIN frames : \A j \in Ahead(frames[i]) : j \in Ahead(turn[i]) \/ j = k0
  BY <1>3, <1>4, <1>7
<1>13. CASE Visited(f)
  <2>1. frames' = turn /\ res' = res /\ Found' = Found /\ k0 \in Found
    BY <1>1, <1>9, <1>13 DEF Found
  <2>2. ASSUME NEW k \in Found \cup {Start}, NEW j \in Key, Further(k, j), j \notin Found
        PROVE  \E i \in DOMAIN turn : KeyOf[turn[i].field] = k /\ j \in Ahead(turn[i])
    <3>1. PICK i \in DOMAIN frames : KeyOf[frames[i].field] = k /\ j \in Ahead(frames[i])
      BY <1>2, <2>2 DEF TraceIsOn
    <3>2. j # k0
      BY <2>1, <2>2
    <3> QED
      BY <1>7, <1>12, <3>1, <3>2
  <2>3. \A i \in DOMAIN turn : KeyOf[turn[i].field] \in Found \cup {Start}
    BY <1>2, <1>7, <1>12 DEF TraceIsOn
  <2>4. /\ \A i \in DOMAIN res : res[i] \in Ends(lm) /\ OnChain(KeyOf[res[i]])
        /\ \A i, j \in DOMAIN res : KeyOf[res[i]] = KeyOf[res[j]] => i = j
    BY <1>2 DEF TraceIsOn
  <2>5. TraceIsOn'
    BY <1>11, <2>1, <2>2, <2>3, <2>4 DEF TraceIsOn
  <2> QED
    BY <1>1, <1>2, <1>7, <1>10, <2>1, <2>5 DEF TraceInvariant
<1>14. CASE ~Visited(f)
  <2>1. frames' = Append(turn, Frame(f)) /\ res' = Append(res, f) /\ k0 \notin Found
    BY <1>1, <1>9, <1>14
  <2>2. /\ frames' \in Seq(Frames) /\ DOMAIN frames' = DOMAIN frames \cup {Len(frames) + 1}
        /\ \A i \in DOMAIN frames : frames'[i] = turn[i]
        /\ frames'[Len(frames) + 1] = Frame(f)
    BY <1>2, <1>7, <1>8, <2>1, AppendProperties
  <2>3. /\ res' \in Seq(Field) /\ DOMAIN res' = DOMAIN res \cup {Len(res) + 1}
        /\ \A i \in DOMAIN res : res'[i] = res[i]
        /\ res'[Len(res) + 1] = f
    BY <1>2, <1>5, <2>1, AppendProperties
  <2>4. Found' = Found \cup {k0}
    BY <2>3 DEF Found
  <2>5. \A i \in DOMAIN res' : res'[i] \in Ends(lm) /\ OnChain(KeyOf[res'[i]])
    BY <1>2, <1>5, <1>6, <2>3 DEF TraceIsOn
  <2>6. \A i, j \in DOMAIN res' : KeyOf[res'[i]] = KeyOf[res'[j]] => i = j
    BY <1>2, <2>1, <2>3 DEF TraceIsOn, Found
  <2>7. \A i \in DOMAIN frames' : KeyOf[frames'[i].field] \in Found' \cup {Start}
    BY <1>2, <1>8, <1>12, <2>2, <2>4 DEF TraceIsOn
  <2>8. ASSUME NEW k \in Found' \cup {Start}, NEW j \in Key, Further(k, j), j \notin Found'
        PROVE  \E i \in DOMAIN frames' : KeyOf[frames'[i].field] = k /\ j \in Ahead(frames'[i])
    <3>1. CASE k \in Found \cup {Start}
      <4>1. PICK i \in DOMAIN frames : KeyOf[frames[i].field] = k /\ j \in Ahead(frames[i])
        BY <1>2, <2>4, <2>8, <3>1 DEF TraceIsOn
      <4>2. j # k0
        BY <2>4, <2>8
      <4> QED
        BY <1>12, <2>2, <4>1, <4>2
    <3>2. CASE k = k0
      BY <1>8, <2>2, <2>8, <3>2
    <3> QED
      BY <2>4, <2>8, <3>1, <3>2
  <2>9. TraceIsOn'
    BY <1>11, <2>5, <2>6, <2>7, <2>8 DEF TraceIsOn
  <2> QED
    BY <1>1, <1>2, <1>10, <2>2, <2>3, <2>9 DEF TraceInvariant
<1> QED
  BY <1>13, <1>14

LEMMA ReturnStep ==
    ASSUME TraceInvariant, Return
    PROVE  TraceInvariant'
<1>1. /\ asked # NoCall /\ frames # <<>>
      /\ frames[Depth].next > Len(Neighbours(frames[Depth].field))
      /\ frames' = SubSeq(frames, 1, Depth - 1)
      /\ UNCHANGED <<asked, res, vars>>
  BY DEF Return, Walking, Top
<1>2. /\ TypeOK /\ Indexed(lm) /\ asked \in TraceCalls /\ TraceIsOn
      /\ frames \in Seq(Frames) /\ res \in Seq(Field)
  BY <1>1, TraceTypes
<1>3. Depth \in Nat \ {0} /\ Depth = Len(frames) /\ DOMAIN frames = 1..Depth
  BY <1>1, <1>2, EmptySeq DEF Depth
<1>4. /\ frames' \in Seq(Frames) /\ DOMAIN frames' = 1..(Depth - 1)
      /\ \A i \in 1..(Depth - 1) : frames'[i] = frames[i]
  <2>1. Len(frames') = Depth - 1
    BY <1>1, <1>2, <1>3
  <2> QED
    BY <1>1, <1>2, <1>3, <2>1
<1>5. Ahead(frames[Depth]) = {}
  <2>1. frames[Depth] \in Frames
    BY <1>2, <1>3
  <2>2. frames[Depth].field \in Field /\ frames[Depth].next \in Nat
    BY <2>1 DEF Frames
  <2>3. Neighbours(frames[Depth].field) \in Seq(Field)
    BY <1>2, <2>2, NeighbourFacts
  <2> QED
    BY <1>1, <2>2, <2>3 DEF Ahead
<1>6. IndexesAgree'
  BY <1>1 DEF vars, TraceInvariant, IndexesAgree, TypeOK
<1>7. /\ Start' = Start /\ Found' = Found /\ Ends(lm)' = Ends(lm)
      /\ \A k : OnChain(k)' <=> OnChain(k)
      /\ \A j, k : Further(j, k)' <=> Further(j, k)
      /\ \A fr : Ahead(fr)' = Ahead(fr)
  BY <1>1 DEF vars, Start, Found, Ends, OnChain, Leads, Arrows, Further, Ahead, Neighbours
<1>8. \A i \in DOMAIN frames' : KeyOf[frames'[i].field] \in Found \cup {Start}
  BY <1>2, <1>3, <1>4 DEF TraceIsOn
<1>9. ASSUME NEW k \in Found \cup {Start}, NEW j \in Key, Further(k, j), j \notin Found
      PROVE  \E i \in DOMAIN frames' : KeyOf[frames'[i].field] = k /\ j \in Ahead(frames'[i])
  <2>1. PICK i \in DOMAIN frames : KeyOf[frames[i].field] = k /\ j \in Ahead(frames[i])
    BY <1>2, <1>9 DEF TraceIsOn
  <2>2. i # Depth
    BY <1>5, <2>1
  <2> QED
    BY <1>3, <1>4, <2>1, <2>2
<1>10. TraceIsOn'
  <2>1. /\ \A i \in DOMAIN res' : res'[i] \in Ends(lm) /\ OnChain(KeyOf[res'[i]])
        /\ \A i, j \in DOMAIN res' : KeyOf[res'[i]] = KeyOf[res'[j]] => i = j
    BY <1>1, <1>2 DEF TraceIsOn
  <2> QED
    BY <1>7, <1>8, <1>9, <2>1 DEF TraceIsOn
<1> QED
  BY <1>1, <1>2, <1>4, <1>6, <1>10 DEF TraceInvariant

LEMMA TraceStep == TraceInvariant /\ [TraceNext]_<<vars, walkVars>> => TraceInvariant'
<1> SUFFICES ASSUME TraceInvariant, [TraceNext]_<<vars, walkVars>> PROVE TraceInvariant'
  OBVIOUS
<1>1. CASE asked = NoCall /\ Next /\ UNCHANGED walkVars
  <2>1. IndexesAgree'
    BY <1>1, IndexesStep DEF TraceInvariant
  <2> QED
    BY <1>1, <2>1 DEF TraceInvariant, walkVars
<1>2. CASE TakeAnswer
  <2>1. IndexesAgree'
    BY <1>2 DEF TakeAnswer, vars, TraceInvariant, IndexesAgree, TypeOK
  <2> QED
    BY <1>2, <2>1 DEF TakeAnswer, TraceInvariant
<1>3. CASE DieTracing
  <2>1. IndexesAgree'
    BY <1>3, IndexesStep DEF DieTracing, Next, TraceInvariant
  <2> QED
    BY <1>3, <2>1 DEF DieTracing, TraceInvariant
<1>4. CASE UNCHANGED <<vars, walkVars>>
  <2>1. IndexesAgree'
    BY <1>4, IndexesStep DEF TraceInvariant
  <2>2. /\ Start' = Start /\ Found' = Found /\ Ends(lm)' = Ends(lm)
        /\ \A k : OnChain(k)' <=> OnChain(k)
        /\ \A j, k : Further(j, k)' <=> Further(j, k)
        /\ \A fr : Ahead(fr)' = Ahead(fr)
    BY <1>4 DEF vars, walkVars, Start, Found, Ends, OnChain, Leads, Arrows, Further, Ahead,
                Neighbours
  <2>3. UNCHANGED <<asked, frames, res>>
    BY <1>4 DEF walkVars
  <2>4. TraceIsOn => TraceIsOn'
    BY <2>2, <2>3 DEF TraceIsOn
  <2> QED
    BY <2>1, <2>3, <2>4 DEF TraceInvariant
<1> QED
  BY <1>1, <1>2, <1>3, <1>4, AskStep, VisitStep, ReturnStep DEF TraceNext

(* For every map, however it came about, TransitiveSourcesOf and           *)
(* TransitiveTargetsOf answer with exactly the keys on a chain of mappings *)
(* to or from the field asked for, cycles of mappings and fields that      *)
(* share a key included.                                                   *)
THEOREM TracesAlwaysAgree == TraceSpec => []TracesAgree
<1>1. TraceInit => TraceInvariant
  BY IndexesInit DEF TraceInit, TraceInvariant
<1>2. TraceInvariant => TracesAgree
  BY TraceEnds DEF TracesAgree
<1> QED
  BY <1>1, <1>2, TraceStep, PTL DEF TraceSpec

(* Asking for traces does nothing to the map and its file, so that all     *)
(* that is proved of Spec holds with traces asked at any time.             *)
THEOREM TracingKeepsSpec == TraceSpec => Spec
<1>1. TraceInit => Init
  BY DEF TraceInit
<1>2. [TraceNext]_<<vars, walkVars>> => [Next]_vars
  BY DEF TraceNext, Ask, Visit, Return, TakeAnswer, DieTracing, Next
<1> QED
  BY <1>1, <1>2, PTL DEF TraceSpec, Spec
=============================================================================
