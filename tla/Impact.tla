------------------------------- MODULE Impact -------------------------------
(***************************************************************************)
(* Upstream, Downstream, BatchImpact and CommonAncestors (internal/lineage)*)
(* and Impact (internal/impact) as the program runs them: a recursive dfs  *)
(* for each id asked about, whose calls are the frames of a stack, and the *)
(* set operations that join the walks.  Impact(id) is a call about one id; *)
(* what Downstream(id) and Upstream(id) return is what a batch of one id   *)
(* and the common ancestors of one id are.  The graph may have cycles:     *)
(* documents bring them in.                                                *)
(***************************************************************************)
EXTENDS Topology

CONSTANT Calls    \* the calls made: the function, its graph and its ids

ASSUME CallsAssumption ==
    \A c \in Calls : /\ c.kind \in {"impact", "common"}
                     /\ c.graph \in Graphs
                     /\ c.ids \in Seq(Node)

VARIABLES
    call,      \* the call
    left,      \* the ids the loop has not finished
    frames,    \* the calls of dfs: node and neighbours still to be looked at
    res,       \* what this walk has marked
    found,     \* the union, or the common part, of the walks so far
    pc         \* "next", "walk", "answered" or "refused"

walkVars == <<call, left, frames, res, found, pc>>

Asked == {call.ids[i] : i \in DOMAIN call.ids}

Neighbours(n) ==
    IF call.kind = "impact" THEN Successors(call.graph, n) ELSE Predecessors(call.graph, n)

Frame(n) == [node |-> n, rest |-> Neighbours(n)]

WalkInit ==
    /\ call \in Calls
    /\ left = call.ids
    /\ frames = <<>>
    /\ res = {}
    /\ found = {}
    /\ pc = "next"

(* A walk begins: dfs(id).                                                 *)
Begin ==
    /\ pc = "next"
    /\ left # <<>>
    /\ HasNode(call.graph, Head(left))
    /\ frames' = <<Frame(Head(left))>>
    /\ res' = {}
    /\ pc' = "walk"
    /\ UNCHANGED <<call, left, found>>

(* An id the graph does not have: the error ends the call, whatever was     *)
(* found for the ids before it.                                            *)
Refuse ==
    /\ pc = "next"
    /\ left # <<>>
    /\ ~HasNode(call.graph, Head(left))
    /\ pc' = "refused"
    /\ UNCHANGED <<call, left, frames, res, found>>

Depth == Len(frames)

(* One turn of the loop in dfs, over the sorted neighbours: the next one is *)
(* marked and walked from, unless it is marked already.                    *)
Mark ==
    /\ pc = "walk"
    /\ frames # <<>>
    /\ frames[Depth].rest # {}
    /\ LET m    == Least(frames[Depth].rest)
           turn == [frames EXCEPT ![Depth].rest = @ \ {m}]
       IN  /\ res' = res \cup {m}
           /\ frames' = IF m \in res THEN turn ELSE Append(turn, Frame(m))
    /\ UNCHANGED <<call, left, found, pc>>

Return ==
    /\ pc = "walk"
    /\ frames # <<>>
    /\ frames[Depth].rest = {}
    /\ frames' = SubSeq(frames, 1, Depth - 1)
    /\ UNCHANGED <<call, left, res, found, pc>>

(* The walk does not count its own start, which it marks when the start    *)
(* lies on a cycle.                                                        *)
Walked == res \ {Head(left)}

Join ==
    /\ pc = "walk"
    /\ frames = <<>>
    /\ found' = IF call.kind = "impact" THEN found \cup Walked
                ELSE IF left = call.ids THEN Walked ELSE found \cap Walked
    /\ left' = Tail(left)
    /\ pc' = "next"
    /\ UNCHANGED <<call, frames, res>>

ReplyKeepsChanged ==
    /\ pc = "next"
    /\ left = <<>>
    /\ found' = found
    /\ pc' = "answered"
    /\ UNCHANGED <<call, left, frames, res>>

(* The ids that changed are not affected by the change, even if they       *)
(* depend on each other.                                                   *)
Reply ==
    /\ pc = "next"
    /\ left = <<>>
    /\ found' = IF call.kind = "impact" THEN found \ Asked ELSE found
    /\ pc' = "answered"
    /\ UNCHANGED <<call, left, frames, res>>

WalkNext == Begin \/ Refuse \/ Mark \/ Return \/ Join \/ Reply

WalkSpec == WalkInit /\ [][WalkNext]_walkVars

-----------------------------------------------------------------------------
(* n depends on c, or c on n, by a path of any length.                     *)
Linked(c, n) ==
    /\ n # c
    /\ IF call.kind = "impact" THEN Reaches(call.graph, c, n) ELSE Reaches(call.graph, n, c)

(* The answer is exactly the nodes reached from an id asked about, or those *)
(* that reach all of them, whatever the cycles of the graph and however the *)
(* ids depend on each other; and a call is refused only for an id that the *)
(* graph does not have.                                                    *)
ImpactIsReachability ==
    /\ pc = "answered" =>
        /\ Asked \subseteq Nodes(call.graph)
        /\ found = IF call.kind = "impact"
                   THEN {n \in Node \ Asked : \E c \in Asked : Linked(c, n)}
                   ELSE {n \in Node : Asked # {} /\ \A c \in Asked : Linked(c, n)}
    /\ pc = "refused" => ~(Asked \subseteq Nodes(call.graph))

(* The call has been answered or refused.                                  *)
WalkEnded == pc \in {"answered", "refused"}
=============================================================================
