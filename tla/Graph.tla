------------------------------- MODULE Graph -------------------------------
(***************************************************************************)
(* One graph.Graph object (internal/graph/graph.go) and the calls a        *)
(* program makes on it.  `graph` is the value of its two maps and          *)
(* `nodeOrder` the slice kept beside them.                                 *)
(*                                                                         *)
(* A call runs to its end before the next one starts, so a mutator is one  *)
(* action; a call that returns an error changes nothing and is a step the  *)
(* module does not take, except UnmarshalJSON, which leaves what it loaded *)
(* before the error.  Clone and SubGraph are two loops, one step per node  *)
(* and one per edge: the edges go through AddEdgeWithAttr, whose error is  *)
(* dropped, in the random order of a Go map.  Ids are numbers that compare *)
(* as the strings do.                                                      *)
(***************************************************************************)
EXTENDS LineageGraph, SequencesExt

CONSTANTS
    Docs,      \* serialised graphs a caller may hand to UnmarshalJSON
    MaxIds     \* bound: length of the id list given to SubGraph

(* A document lists nodes and edges.                                       *)
Documents == [nodes : Seq([id : Node, attr : Attr]),
              edges : Seq([from : Node, to : Node, attr : EdgeAttr])]

ASSUME NodeAssumption == Node \subseteq Nat
ASSUME DocsAssumption == Docs \subseteq Documents
ASSUME MaxIdsAssumption == MaxIds \in Nat

VARIABLES
    graph,      \* g.nodes and g.edges
    nodeOrder,  \* g.nodeOrder
    pc,         \* "idle", "clone" or "subgraph" (their node loop), "edges",
                \* "copied" or "panicked"
    copy,       \* the copy under construction, then the one returned
    copyOrder,  \* its nodeOrder
    asked,      \* ghost: the nodes the copy is asked for
    ids,        \* the ids the node loop has not reached yet
    todo        \* the edges the edge loop has not reached yet

object == <<graph, nodeOrder>>
copying == <<copy, copyOrder, asked, ids, todo>>
vars == <<object, pc, copying>>

-----------------------------------------------------------------------------
(* Serialisation.                                                          *)

Ids(doc) == {doc.nodes[i].id : i \in DOMAIN doc.nodes}

LoadedButLast(doc) ==
    {i \in DOMAIN doc.edges :
        /\ i < Len(doc.edges)
        /\ \A j \in 1..i : {doc.edges[j].from, doc.edges[j].to} \subseteq Ids(doc)}

(* The edges UnmarshalJSON stores: those before the first one that names a *)
(* node the document does not list.                                        *)
Loaded(doc) ==
    {i \in DOMAIN doc.edges :
        \A j \in 1..i : {doc.edges[j].from, doc.edges[j].to} \subseteq Ids(doc)}

(* Later entries for the same key overwrite earlier ones.                  *)
Decode(doc) ==
    [attr |-> [n \in Node |->
        LET at == {i \in DOMAIN doc.nodes : doc.nodes[i].id = n}
        IN  IF at = {} THEN Absent ELSE doc.nodes[Max(at)].attr],
     edge |-> [m \in Node |-> [n \in Node |->
        LET at == {i \in Loaded(doc) : doc.edges[i].from = m /\ doc.edges[i].to = n}
        IN  IF at = {} THEN Absent ELSE doc.edges[Max(at)].attr]]]

MarshalJSON(g) ==
    LET names == Ascending(Nodes(g), <)
        pairs == Ascending(EdgeSet(g), EdgeBefore)
    IN  [nodes |-> [i \in DOMAIN names |-> [id |-> names[i], attr |-> g.attr[names[i]]]],
         edges |-> [i \in DOMAIN pairs |->
                      [from |-> pairs[i][1], to |-> pairs[i][2],
                       attr |-> g.edge[pairs[i][1]][pairs[i][2]]]]]

-----------------------------------------------------------------------------
Init ==
    /\ graph = EmptyGraph
    /\ nodeOrder = <<>>
    /\ pc = "idle"
    /\ copy = EmptyGraph
    /\ copyOrder = <<>>
    /\ asked = {}
    /\ ids = <<>>
    /\ todo = {}

Mutator ==
    /\ pc = "idle"
    /\ UNCHANGED <<pc, copying>>

AddNode(id) ==
    /\ Mutator
    /\ ~HasNode(graph, id)
    /\ graph' = PutNode(graph, id, NoAttr)
    /\ nodeOrder' = Append(nodeOrder, id)

AddNodeWithAttr(id, attr) ==
    /\ Mutator
    /\ graph' = PutNode(graph, id, attr)
    /\ nodeOrder' = IF HasNode(graph, id) THEN nodeOrder ELSE Append(nodeOrder, id)

SetNodeAttr(id, attr) ==
    /\ Mutator
    /\ HasNode(graph, id)
    /\ graph' = PutNode(graph, id, attr)
    /\ UNCHANGED nodeOrder

AddEdgeWithAttr(from, to, attr) ==
    /\ Mutator
    /\ EdgeAllowed(graph, from, to)
    /\ graph' = PutEdge(graph, from, to, attr)
    /\ UNCHANGED nodeOrder

RemoveEdge(from, to) ==
    /\ Mutator
    /\ HasEdge(graph, from, to)
    /\ graph' = DropEdge(graph, from, to)
    /\ UNCHANGED nodeOrder

RemoveNodeKeepsOrder(id) ==
    /\ Mutator
    /\ HasNode(graph, id)
    /\ graph' = DropNode(graph, id)
    /\ UNCHANGED nodeOrder

(* Only the first occurrence of id leaves nodeOrder.                       *)
RemoveNode(id) ==
    /\ Mutator
    /\ HasNode(graph, id)
    /\ graph' = DropNode(graph, id)
    /\ nodeOrder' = RemoveFirst(nodeOrder, id)

(* Neither cycles nor repeated ids are looked for.                         *)
UnmarshalJSON(doc) ==
    /\ Mutator
    /\ graph' = Decode(doc)
    /\ nodeOrder' = [i \in DOMAIN doc.nodes |-> doc.nodes[i].id]

-----------------------------------------------------------------------------
(* Clone and SubGraph.                                                     *)

Clone ==
    /\ pc = "idle"
    /\ pc' = "clone"
    /\ ids' = nodeOrder
    /\ asked' = Nodes(graph)
    /\ UNCHANGED <<object, copy, copyOrder, todo>>

SubGraph(nodeIDs) ==
    /\ pc = "idle"
    /\ pc' = "subgraph"
    /\ ids' = nodeIDs
    /\ asked' = Nodes(graph) \cap ToSet(nodeIDs)
    /\ UNCHANGED <<object, copy, copyOrder, todo>>

(* One turn of the node loop: AddNodeWithAttr on the copy.                 *)
CopyNode ==
    /\ pc \in {"clone", "subgraph"}
    /\ ids # <<>>
    /\ HasNode(graph, Head(ids))
    /\ copy' = PutNode(copy, Head(ids), graph.attr[Head(ids)])
    /\ copyOrder' = IF HasNode(copy, Head(ids)) THEN copyOrder ELSE Append(copyOrder, Head(ids))
    /\ ids' = Tail(ids)
    /\ UNCHANGED <<object, pc, asked, todo>>

(* SubGraph passes over an unknown id, Clone dereferences its attributes.  *)
UnknownNode ==
    /\ pc \in {"clone", "subgraph"}
    /\ ids # <<>>
    /\ ~HasNode(graph, Head(ids))
    /\ pc' = IF pc = "clone" THEN "panicked" ELSE pc
    /\ ids' = Tail(ids)
    /\ UNCHANGED <<object, copy, copyOrder, asked, todo>>

(* The map keep of SubGraph holds the nodes the copy has.                  *)
NodesCopied ==
    /\ pc \in {"clone", "subgraph"}
    /\ ids = <<>>
    /\ pc' = "edges"
    /\ todo' = IF pc = "clone" THEN EdgeSet(graph)
               ELSE {e \in EdgeSet(graph) : {e[1], e[2]} \subseteq Nodes(copy)}
    /\ UNCHANGED <<object, copy, copyOrder, asked, ids>>

CopyEdgeDirect ==
    /\ pc = "edges"
    /\ \E e \in todo :
        /\ copy' = IF EdgeAllowed(copy, e[1], e[2])
                   THEN PutEdge(copy, e[1], e[2], Direct) ELSE copy
        /\ todo' = todo \ {e}
    /\ UNCHANGED <<object, pc, copyOrder, asked, ids>>

CopyEdge ==
    /\ pc = "edges"
    /\ \E e \in todo :
        /\ copy' = IF EdgeAllowed(copy, e[1], e[2])
                   THEN PutEdge(copy, e[1], e[2], graph.edge[e[1]][e[2]])
                   ELSE copy
        /\ todo' = todo \ {e}
    /\ UNCHANGED <<object, pc, copyOrder, asked, ids>>

CopyDone ==
    /\ pc = "edges"
    /\ todo = {}
    /\ pc' = "copied"
    /\ UNCHANGED <<object, copying>>

(* The caller lets go of the copy.                                         *)
Release ==
    /\ pc = "copied"
    /\ pc' = "idle"
    /\ copy' = EmptyGraph
    /\ copyOrder' = <<>>
    /\ asked' = {}
    /\ UNCHANGED <<object, ids, todo>>

Next ==
    \/ \E id \in Node : AddNode(id) \/ RemoveNode(id)
    \/ \E id \in Node, a \in Attr : AddNodeWithAttr(id, a) \/ SetNodeAttr(id, a)
    \/ \E m, n \in Node, a \in EdgeAttr : AddEdgeWithAttr(m, n, a)
    \/ \E m, n \in Node : RemoveEdge(m, n)
    \/ \E doc \in Docs : UnmarshalJSON(doc)
    \/ UnmarshalJSON(MarshalJSON(graph))
    \/ Clone
    \/ \E nodeIDs \in BoundedSeq(Node, MaxIds) : SubGraph(nodeIDs)
    \/ CopyNode
    \/ UnknownNode
    \/ NodesCopied
    \/ CopyEdge
    \/ CopyDone
    \/ Release

Spec == Init /\ [][Next]_vars

-----------------------------------------------------------------------------
TypeOK ==
    /\ graph \in Graphs
    /\ nodeOrder \in Seq(Node)
    /\ pc \in {"idle", "clone", "subgraph", "edges", "copied", "panicked"}
    /\ copy \in Graphs
    /\ copyOrder \in Seq(Node)
    /\ asked \subseteq Node
    /\ ids \in Seq(Node)
    /\ todo \subseteq Node \X Node

(* Whatever calls came before, the object and every copy taken from it are *)
(* directed acyclic graphs whose edges join nodes that are present: each    *)
(* traversal of the program relies on it to terminate.                     *)
DagInvariant == TypeOK /\ IsDag(graph) /\ IsDag(copy)

Enumerates(order, S) == ToSet(order) = S /\ IsInjective(order)

(* nodeOrder, kept beside the map by four different calls, lists exactly    *)
(* the nodes of the map, each once; so does the one a copy gets.           *)
OrderListsNodes ==
    /\ Enumerates(nodeOrder, Nodes(graph))
    /\ Enumerates(copyOrder, Nodes(copy))

(* A finished Clone is the whole source, a finished SubGraph the part it   *)
(* was asked for, edges and attributes included, in whatever order the     *)
(* edge loop ran and although it drops the error of AddEdgeWithAttr.       *)
CopyIsInduced == pc = "copied" => copy = Induced(graph, asked)

(* What MarshalJSON writes, UnmarshalJSON reads back as the same graph.    *)
RoundTrip == Decode(MarshalJSON(graph)) = graph
=============================================================================
