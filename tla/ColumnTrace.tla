---------------------------- MODULE ColumnTrace ----------------------------
(***************************************************************************)
(* TransitiveSourcesOf and TransitiveTargetsOf of internal/column, asked   *)
(* between two calls that change the map: a depth-first walk from a field  *)
(* over the mappings of the LineageMap, whose recursive calls are the      *)
(* frames of a stack.  The start is not marked as visited, so it is in its *)
(* own trace when it lies on a cycle of mappings.                          *)
(***************************************************************************)
EXTENDS Column

VARIABLES
    asked,     \* the trace asked for, NoCall when there is none
    frames,    \* the calls of walk: the field and the place it has come to
    res        \* the fields found

walkVars == <<asked, frames, res>>

Sources(l, f) == [i \in DOMAIN SourcesOf(l, f) |-> SourcesOf(l, f)[i].source]
Targets(l, f) == [i \in DOMAIN TargetsOf(l, f) |-> TargetsOf(l, f)[i].target]

TraceCalls == [kind : {"sources", "targets"}, field : Field]
NoCall == [kind |-> "none"]

Walking == asked # NoCall /\ frames # <<>>
Answered == asked # NoCall /\ frames = <<>>

Depth == Len(frames)
Top == frames[Depth]

Neighbours(f) == IF asked.kind = "sources" THEN Sources(lm, f) ELSE Targets(lm, f)

Visited(f) == \E i \in DOMAIN res : KeyOf[res[i]] = KeyOf[f]

Frame(f) == [field |-> f, next |-> 1]

-----------------------------------------------------------------------------
TraceInit == Init /\ asked = NoCall /\ frames = <<>> /\ res = <<>>

Ask ==
    /\ pc = "idle"
    /\ asked = NoCall
    /\ \E call \in TraceCalls : asked' = call /\ frames' = <<Frame(call.field)>>
    /\ res' = <<>>
    /\ UNCHANGED vars

VisitFlat ==
    /\ Walking
    /\ Top.next <= Len(Neighbours(Top.field))
    /\ LET f == Neighbours(Top.field)[Top.next]
       IN  /\ res' = IF Visited(f) THEN res ELSE Append(res, f)
           /\ frames' = [frames EXCEPT ![Depth].next = @ + 1]
    /\ UNCHANGED <<asked, vars>>

(* One turn of the loop in walk: the next field is marked and walked from, *)
(* unless one with its key is marked already.                              *)
Visit ==
    /\ Walking
    /\ Top.next <= Len(Neighbours(Top.field))
    /\ LET f    == Neighbours(Top.field)[Top.next]
           turn == [frames EXCEPT ![Depth].next = @ + 1]
       IN  IF Visited(f) THEN frames' = turn /\ res' = res
           ELSE frames' = Append(turn, Frame(f)) /\ res' = Append(res, f)
    /\ UNCHANGED <<asked, vars>>

Return ==
    /\ Walking
    /\ Top.next > Len(Neighbours(Top.field))
    /\ frames' = SubSeq(frames, 1, Depth - 1)
    /\ UNCHANGED <<asked, res, vars>>

(* The caller has the answer and goes on.                                  *)
TakeAnswer ==
    /\ Answered
    /\ asked' = NoCall
    /\ res' = <<>>
    /\ UNCHANGED <<frames, vars>>

DieTracing ==
    /\ asked # NoCall
    /\ Crash
    /\ asked' = NoCall
    /\ frames' = <<>>
    /\ res' = <<>>

TraceNext ==
    \/ asked = NoCall /\ Next /\ UNCHANGED walkVars
    \/ Ask \/ Visit \/ Return \/ TakeAnswer \/ DieTracing

TraceSpec == TraceInit /\ [][TraceNext]_<<vars, walkVars>>

-----------------------------------------------------------------------------
Ends(l) == UNION {{l.mappings[i].source, l.mappings[i].target} : i \in DOMAIN l.mappings}
Tables(l) == {f.table : f \in Ends(l)}
ColumnsOfTable(l, t) == {f.column : f \in {e \in Ends(l) : e.table = t}}

(* The mappings as pairs of keys, and: a chain of one or more of them leads *)
(* from j to k.                                                            *)
Arrows(l) == {<<KeyOf[l.mappings[i].source], KeyOf[l.mappings[i].target]>> :
                i \in DOMAIN l.mappings}

Leads(l, j, k) ==
    \A S \in SUBSET Key : (\A e \in Arrows(l) : e[1] \in S \cup {j} => e[2] \in S) => k \in S

Found == {KeyOf[res[i]] : i \in DOMAIN res}

(* A trace holds a field for every key that leads to, or is led to from,   *)
(* the one asked for, itself only on a cycle, each key once and each field *)
(* one of a table the map lists; so the two directions agree.              *)
TracesAgree ==
    Answered =>
        /\ Found = {k \in Key : IF asked.kind = "sources" THEN Leads(lm, k, KeyOf[asked.field])
                                ELSE Leads(lm, KeyOf[asked.field], k)}
        /\ \A i, j \in DOMAIN res : KeyOf[res[i]] = KeyOf[res[j]] => i = j
        /\ \A i \in DOMAIN res :
             res[i].table \in Tables(lm) /\ res[i].column \in ColumnsOfTable(lm, res[i].table)
=============================================================================
