----------------------------- MODULE SpecReader -----------------------------
(***************************************************************************)
(* The loop of ParseSpec (internal/parse): it reads a text line by line    *)
(* and word by word, adds what a word names to the graph, and stops at the *)
(* first error, which loses the graph.                                     *)
(***************************************************************************)
EXTENDS SpecFormat

CONSTANT Texts    \* the texts read

ASSUME TextsAssumption == Texts \subseteq Seq(Lines)

VARIABLES
    text,
    at,        \* the line being read
    word,      \* the word of it to be read next, 0 at its beginning
    attr,      \* the attributes parseAttrDirective puts together
    built,     \* the graph
    verdict    \* "reading", "accepted" or "refused"

readerVars == <<text, at, word, attr, built, verdict>>

Line == text[at]

ReaderInit ==
    /\ text \in Texts
    /\ at = 1
    /\ word = 0
    /\ attr = NoAttr
    /\ built = EmptyGraph
    /\ verdict = "reading"

(* At the beginning of a line, and at one of its words.                    *)
Starts(kind) == verdict = "reading" /\ at \in DOMAIN text /\ word = 0 /\ Line.kind = kind

Reads(kind) == verdict = "reading" /\ word # 0 /\ Line.kind = kind /\ word <= Len(Words(Line))

Ends(kind) == verdict = "reading" /\ word # 0 /\ Line.kind = kind /\ word > Len(Words(Line))

NextWord == word' = word + 1 /\ UNCHANGED <<text, at, verdict>>

NextLine == at' = at + 1 /\ word' = 0 /\ UNCHANGED <<text, verdict>>

Fail == verdict' = "refused" /\ UNCHANGED <<text, at, word, attr, built>>

-----------------------------------------------------------------------------
SkipLine == Starts("blank") /\ NextLine /\ UNCHANGED <<attr, built>>

(* No "<-"; no target or no such transform, and a line the scanner does    *)
(* not return; a directive without pairs.                                  *)
RefuseLine ==
    /\ \/ Starts("other")
       \/ /\ Starts("dep")
          /\ \/ Line.target = Absent
             \/ TransformOf(Line) \notin ValidTransforms
             \/ Len(Line.deps) > LineCap
       \/ Starts("attr") /\ Line.pairs = <<>>
    /\ Fail

BeginAttr ==
    /\ Starts("attr")
    /\ Line.pairs # <<>>
    /\ built' = WithNode(built, Line.node)
    /\ attr' = built'.attr[Line.node]
    /\ NextWord

TakePair ==
    /\ Reads("attr")
    /\ Line.pairs[word].key # Absent
    /\ attr' = WithPair(attr, Line.pairs[word])
    /\ NextWord
    /\ UNCHANGED built

RefusePair == Reads("attr") /\ Line.pairs[word].key = Absent /\ Fail

(* SetNodeAttr.                                                            *)
EndAttr ==
    /\ Ends("attr")
    /\ built' = PutNode(built, Line.node, attr)
    /\ attr' = NoAttr
    /\ NextLine

BeginDep ==
    /\ Starts("dep")
    /\ Line.target # Absent
    /\ TransformOf(Line) \in ValidTransforms
    /\ Len(Line.deps) <= LineCap
    /\ built' = WithNode(built, Line.target)
    /\ NextWord
    /\ UNCHANGED attr

SkipDep ==
    /\ Reads("dep")
    /\ Line.deps[word] = Absent
    /\ NextWord
    /\ UNCHANGED <<attr, built>>

TakeDepUnchecked ==
    /\ Reads("dep")
    /\ Line.deps[word] # Absent
    /\ built' = PutEdge(WithNode(built, Line.deps[word]), Line.deps[word], Line.target, EdgeOf(Line))
    /\ NextWord
    /\ UNCHANGED attr

(* AddNode and AddEdgeWithAttr.                                            *)
TakeDep ==
    /\ Reads("dep")
    /\ Line.deps[word] # Absent
    /\ LET g == WithNode(built, Line.deps[word])
       IN  /\ EdgeAllowed(g, Line.deps[word], Line.target)
           /\ built' = PutEdge(g, Line.deps[word], Line.target, EdgeOf(Line))
    /\ NextWord
    /\ UNCHANGED attr

RefuseDep ==
    /\ Reads("dep")
    /\ Line.deps[word] # Absent
    /\ ~EdgeAllowed(WithNode(built, Line.deps[word]), Line.deps[word], Line.target)
    /\ Fail

EndDep == Ends("dep") /\ NextLine /\ UNCHANGED <<attr, built>>

Accept ==
    /\ verdict = "reading"
    /\ at \notin DOMAIN text
    /\ verdict' = "accepted"
    /\ UNCHANGED <<text, at, word, attr, built>>

ReaderNext ==
    \/ SkipLine \/ RefuseLine \/ BeginAttr \/ TakePair \/ RefusePair \/ EndAttr
    \/ BeginDep \/ SkipDep \/ TakeDep \/ RefuseDep \/ EndDep \/ Accept

ReaderSpec == ReaderInit /\ [][ReaderNext]_readerVars

-----------------------------------------------------------------------------
(* A text is accepted exactly when every line of it is well formed and the *)
(* edges it declares have no cycle, in whatever order the lines come; the  *)
(* graph is then the one declared, a later line overriding an earlier one. *)
ParseDecides ==
    /\ verdict = "accepted" => Legal(text) /\ built = Declared(text)
    /\ verdict = "refused" => ~Legal(text)

(* The text has been accepted or refused.                                  *)
ReaderEnded == verdict # "reading"
=============================================================================
