----------------------------- MODULE SpecFormat -----------------------------
(***************************************************************************)
(* internal/parse: the text format of a lineage and what a text says.  A   *)
(* text is a sequence of lines and a line is what the parser's splitting   *)
(* makes of it:                                                            *)
(*   [kind |-> "blank"]                          empty or a comment        *)
(*   [kind |-> "other"]                          without "<-"              *)
(*   [kind |-> "attr", node, pairs]              @node key=value ...       *)
(*   [kind |-> "dep", target, bracket, deps]     target <-[bracket] deps   *)
(* in which Absent is an empty name, an absent bracket, and a key that is  *)
(* neither "layer" nor "owner" or has no "=".  Here Attr is a set of       *)
(* records [layer, owner] and EdgeAttr one of records [transform,          *)
(* comment]; "" is Go's empty string.  Module SpecReader is the loop of    *)
(* ParseSpec and module SpecWriter that of FormatSpec.                     *)
(***************************************************************************)
EXTENDS Topology

CONSTANTS
    Name,       \* the strings that layers and owners are
    LineCap     \* dependencies on the longest line bufio.Scanner returns

ASSUME NameAssumption ==
    Attr = [layer : Name, owner : Name] /\ NoAttr = [layer |-> "", owner |-> ""]
ASSUME TransformAssumption ==
    /\ \A t \in ValidTransforms : [transform |-> t, comment |-> ""] \in EdgeAttr
    /\ \A a \in EdgeAttr : a.transform \in STRING \ {Absent}
ASSUME AbsentAssumption == Absent \notin Node /\ Absent \notin {"layer", "owner"}
ASSUME LineCapAssumption == LineCap \in Nat \ {0}

Lines ==
    [kind : {"blank", "other"}]
    \cup [kind : {"attr"}, node : Node,
          pairs : Seq([key : {"layer", "owner", Absent}, value : Name])]
    \cup [kind : {"dep"}, target : Node \cup {Absent}, bracket : STRING \cup {Absent},
          deps : Seq(Node \cup {Absent})]

WithNode(g, n) == IF HasNode(g, n) THEN g ELSE PutNode(g, n, NoAttr)

WithPair(attr, pair) ==
    IF pair.key = "layer" THEN [attr EXCEPT !.layer = pair.value]
    ELSE [attr EXCEPT !.owner = pair.value]

(* The transform of a line; an empty bracket is no bracket, and one that   *)
(* is not closed is none of the valid transforms.                          *)
TransformOf(line) == IF line.bracket \in {Absent, ""} THEN "direct" ELSE line.bracket

EdgeOf(line) == [transform |-> TransformOf(line), comment |-> ""]

-----------------------------------------------------------------------------
(* What a text says, read all at once.  A place in a text is a line and a  *)
(* word of it, 0 for its beginning: the node or the target.                *)

Words(line) ==
    CASE line.kind = "attr" -> line.pairs
      [] line.kind = "dep" -> line.deps
      [] OTHER -> <<>>

Places(text) == UNION {{i} \X (0..Len(Words(text[i]))) : i \in DOMAIN text}

WordAt(text, p) == Words(text[p[1]])[p[2]]

Names(text, p, n) ==
    \/ text[p[1]].kind = "attr" /\ text[p[1]].node = n
    \/ text[p[1]].kind = "dep" /\ n = IF p[2] = 0 THEN text[p[1]].target ELSE WordAt(text, p)

(* The places among P that give node n a value for key, and those that say *)
(* that n depends on m.                                                    *)
PairsFor(text, P, n, key) ==
    {p \in P : /\ text[p[1]].kind = "attr" /\ text[p[1]].node = n
               /\ p[2] # 0 /\ WordAt(text, p).key = key}

DepsFor(text, P, m, n) ==
    {p \in P : /\ text[p[1]].kind = "dep" /\ text[p[1]].target = n
               /\ p[2] # 0 /\ WordAt(text, p) = m}

LastOf(P) == CHOOSE p \in P : \A q \in P : q = p \/ EdgeBefore(q, p)

ValueFrom(text, P) == IF P = {} THEN "" ELSE WordAt(text, LastOf(P)).value

EdgeFrom(text, P) == IF P = {} THEN Absent ELSE EdgeOf(text[LastOf(P)[1]])

(* The graph that the places P of a text declare: the last of them on an   *)
(* edge, or on an attribute of a node, decides.                            *)
Says(text, P) ==
    [attr |-> [n \in Node |->
        IF \E p \in P : Names(text, p, n)
        THEN [layer |-> ValueFrom(text, PairsFor(text, P, n, "layer")),
              owner |-> ValueFrom(text, PairsFor(text, P, n, "owner"))]
        ELSE Absent],
     edge |-> [m \in Node |-> [n \in Node |-> EdgeFrom(text, DepsFor(text, P, m, n))]]]

Declared(text) == Says(text, Places(text))

WellFormed(line) ==
    CASE line.kind = "dep" ->
           /\ line.target # Absent /\ Len(line.deps) <= LineCap
           /\ line.bracket \in ValidTransforms \cup {Absent, ""}
      [] line.kind = "attr" ->
           line.pairs # <<>> /\ \A i \in DOMAIN line.pairs : line.pairs[i].key # Absent
      [] OTHER -> line.kind = "blank"

(* Every line is well formed and the edges declared have no cycle, in      *)
(* whatever order the lines come.                                          *)
Legal(text) == (\A i \in DOMAIN text : WellFormed(text[i])) /\ Acyclic(Declared(text))

Ok(g) == [ok |-> TRUE, graph |-> g]
Error == [ok |-> FALSE, graph |-> EmptyGraph]

(* What the loop of module SpecReader returns.                             *)
ParseSpec(text) == IF Legal(text) THEN Ok(Declared(text)) ELSE Error
=============================================================================
