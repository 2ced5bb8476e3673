------------------------------ MODULE Console ------------------------------
(***************************************************************************)
(* The program's two faces over the parts that only compute: the routes of *)
(* internal/server and the commands of main.go that read a spec.  A        *)
(* request or a command is one call with one answer and keeps nothing; the *)
(* graph of module Queries is the one a library caller asks verdicts of.   *)
(***************************************************************************)
EXTENDS Queries, SpecFormat, Checks

CONSTANTS
    Attributed,    \* graphs with attributes and transforms, for the verdicts
    Texts,         \* specs read
    Targets        \* lists of ids asked about

ASSUME AttributedAssumption == Attributed \subseteq Graphs
ASSUME TargetsAssumption == Targets \subseteq Seq(Node)

(* An id that no graph has may be asked about too.                         *)
AllKnown(g, ids) == ToSet(ids) \subseteq Nodes(g)

-----------------------------------------------------------------------------
(* internal/server.  A request has a method, a body that is readable as    *)
(* JSON or not, the text of a spec and, on two routes, ids; the empty text *)
(* is <<>>.  A command has a spec file that it can read or not.            *)

Replied(status, body) == [status |-> status, body |-> body]

(* What the four handlers share: each checks the method, the body, the     *)
(* text and what it alone asks for, and refuses at the first that fails.   *)
SpecOf(req) == ParseSpec(req.text).graph

Served(req) ==
    /\ req.method = "POST"
    /\ req.readable
    /\ req.text # <<>>
    /\ ParseSpec(req.text).ok

Refused(req) == Replied(IF req.method = "POST" THEN 400 ELSE 405, Absent)

HandleParse(req) == IF Served(req) THEN Replied(200, SpecOf(req)) ELSE Refused(req)

HandleImpactUnchecked(req) ==
    IF Served(req) /\ req.ids # <<>>
    THEN Replied(200, BatchImpact(SpecOf(req), req.ids)) ELSE Refused(req)

HandleImpact(req) ==
    IF Served(req) /\ req.ids # <<>> /\ AllKnown(SpecOf(req), req.ids)
    THEN Replied(200, BatchImpact(SpecOf(req), req.ids)) ELSE Refused(req)

(* ValidateComplete also looks for duplicate edges, which a map of maps    *)
(* cannot hold, and for the spelling of ids.                               *)
HandleValidate(req) == IF Served(req) THEN Replied(200, Validate(SpecOf(req))) ELSE Refused(req)

HandleLineage(req) ==
    IF Served(req) /\ req.ids # <<>> /\ AllKnown(SpecOf(req), req.ids)
    THEN Replied(200, [up |-> Upstream(SpecOf(req), req.ids[1]),
                       down |-> Downstream(SpecOf(req), req.ids[1])])
    ELSE Refused(req)

-----------------------------------------------------------------------------
(* main.go: what a command that reads a spec prints, or that it fails.     *)

Printed(result) == [ok |-> TRUE, result |-> result]
Failed == [ok |-> FALSE, result |-> Absent]

(* loadSpec returns no error.                                              *)
Opened(req) == req.readable /\ ParseSpec(req.text).ok

Shown(req, result) == IF Opened(req) THEN Printed(result) ELSE Failed

Asked(req) == Opened(req) /\ req.ids # <<>> /\ AllKnown(SpecOf(req), req.ids)

RunImpact(req) == IF Asked(req) THEN Printed(BatchImpact(SpecOf(req), req.ids)) ELSE Failed

(* runImpact -format json.                                                 *)
RunImpactSummary(req) ==
    IF Asked(req) THEN Printed(ImpactSummary(SpecOf(req), req.ids)) ELSE Failed

RunReport(req) == Shown(req, JSONReport(SpecOf(req)))

RunMatrix(req) == Shown(req, DepMatrix(SpecOf(req)))

(* runDefault: without ids to ask about it draws the graph.                *)
RunDefault(req) == IF req.ids = <<>> THEN Shown(req, SpecOf(req)) ELSE RunImpact(req)

(* The issues are printed before the command fails.                        *)
RunValidate(req) ==
    IF Opened(req) THEN LET issues == Validate(SpecOf(req))
                        IN  [ok |-> Valid(issues), result |-> issues]
    ELSE Failed

RunStats(req) == Shown(req, ComputeStats(SpecOf(req)))

-----------------------------------------------------------------------------
(* The calls.  Where a request is refused before its text is read, one     *)
(* text stands for all.                                                    *)

Plain(req) == req.readable /\ req.method = "POST"

Requests ==
    {req \in [method : {"POST", "GET"}, readable : BOOLEAN, text : Texts, ids : Targets] :
        Plain(req) \/ req.text = <<>>}

Serve ==
    /\ About("call")
    /\ \E req \in Requests :
        \/ req.ids = <<>> /\ Answer("/api/parse", req, HandleParse(req))
        \/ req.ids = <<>> /\ Answer("/api/validate", req, HandleValidate(req))
        \/ Answer("/api/impact", req, HandleImpact(req))
        \/ Len(req.ids) <= 1 /\ Answer("/api/lineage", req, HandleLineage(req))
    /\ UNCHANGED graph

Command ==
    /\ About("call")
    /\ \E req \in {r \in Requests : r.method = "POST"} :
        \/ Answer("run impact", req, RunImpact(req))
        \/ Answer("run impact -format json", req, RunImpactSummary(req))
        \/ Answer("run default", req, RunDefault(req))
        \/ req.ids = <<>> /\ Answer("run validate", req, RunValidate(req))
        \/ req.ids = <<>> /\ Answer("run stats", req, RunStats(req))
        \/ req.ids = <<>> /\ Answer("run report", req, RunReport(req))
        \/ req.ids = <<>> /\ Answer("run report -format matrix", req, RunMatrix(req))
    /\ UNCHANGED graph

Verdict ==
    /\ About("verdict")
    /\ \/ Answer("issues", <<>>, Validate(graph))
       \/ Answer("violations", <<>>, Evaluate(graph))
       \/ Answer("health", <<>>, CheckHealth(graph))
       \/ Answer("statistics", <<>>, ComputeStats(graph))
    /\ UNCHANGED graph

(* A behaviour is about one thing: a graph and a question of Queries, a    *)
(* graph and a verdict on it, or a call, which brings its own graph.       *)
ConsoleInit ==
    \/ Init
    \/ graph \in Attributed /\ About("verdict")
    \/ graph = EmptyGraph /\ About("call")

ConsoleNext == Next \/ Serve \/ Command \/ Verdict

ConsoleSpec == ConsoleInit /\ [][ConsoleNext]_vars

-----------------------------------------------------------------------------
(* An impact summary is right about the graph: distances are those of the  *)
(* shortest paths, every impacted node is counted in one layer, and every  *)
(* pair of a changed node and an impacted leaf it reaches has one path.    *)
SummaryIsRight(g, changed, s) ==
    LET ends == {<<i, n>> \in (DOMAIN changed) \X (s.impacted \cap Leaves(g)) :
                   Reaches(g, changed[i], n)}
        path(p) == \A i \in 1..(Len(p) - 1) : HasEdge(g, p[i], p[i + 1])
        within(k, m, n) == \E p \in [1..(k + 1) -> Node] : p[1] = m /\ p[k + 1] = n /\ path(p)
        far(m, n) == Min({k \in 0..Cardinality(Node) : within(k, m, n)} \cup {Cardinality(Node)})
    IN  /\ s.maxDistance = Max({0} \cup {far(changed[i], n) :
             <<i, n>> \in {e \in (DOMAIN changed) \X s.impacted : Reaches(g, changed[e[1]], e[2])}})
        /\ FoldFunction(+, 0, s.layers) = Cardinality(s.impacted)
        /\ Len(s.criticalPaths) = Cardinality(ends)
        /\ \A <<i, n>> \in ends : \E p \in ToSet(s.criticalPaths) :
             p[1] = changed[i] /\ Last(p) = n /\ path(p)

(* The layers of a report hold every node once and no edge within a layer  *)
(* or against their order; the degrees on both sides add up to the edges.  *)
ReportIsRight(g, r) ==
    LET at(n) == {d \in DOMAIN r.layers : n \in r.layers[d]}
    IN  /\ \A n \in Nodes(g) : Cardinality(at(n)) = 1
        /\ \A e \in DOMAIN r.edges : Min(at(e[1])) < Min(at(e[2]))
        /\ FoldFunction(+, 0, [n \in Nodes(g) |-> r.nodes[n].in]) = Cardinality(Edges(g))
        /\ FoldFunction(+, 0, [n \in Nodes(g) |-> r.nodes[n].out]) = Cardinality(DOMAIN r.edges)
        /\ r.roots = {n \in Nodes(g) : r.nodes[n].in = 0}
        /\ r.leaves = {n \in Nodes(g) : r.nodes[n].out = 0}
        /\ r.ok = \A issue \in r.issues : issue.code # "layer_violation"

(* The server and the command line answer the same about the same text,    *)
(* namely what the declared graph says: they refuse a text that is not     *)
(* legal or an id it does not declare, and a text that is accepted fails   *)
(* validation only for edges against the order of the layers.              *)
AnswersAreRight ==
    "args" \in DOMAIN answer /\ graph = EmptyGraph =>
        LET req     == answer.args
            call    == answer.query
            reply   == answer.value
            asked   == ToSet(req.ids)
            d       == Declared(req.text)
            served  == call \in {"/api/parse", "/api/impact", "/api/validate", "/api/lineage"}
            needs   == call \in {"/api/impact", "/api/lineage", "run impact", "run impact -format json"}
            below(S) == {n \in Nodes(d) \ S : \E c \in S : Reaches(d, c, n)}
            accepted == /\ req.readable /\ Legal(req.text) /\ asked \subseteq Nodes(d)
                        /\ needs => asked # {}
                        /\ served => req.method = "POST" /\ req.text # <<>>
        IN  /\ served => reply.status = CASE req.method # "POST" -> 405
                                          [] req.method = "POST" /\ accepted -> 200
                                          [] OTHER -> 400
            /\ ~served /\ call # "run validate" => reply.ok = accepted
            /\ accepted =>
                 /\ call = "/api/parse" => reply.body = d
                 /\ call = "/api/impact" => reply.body = below(asked)
                 /\ call = "/api/lineage" =>
                      /\ reply.body.down = below(asked)
                      /\ reply.body.up = {n \in Nodes(d) \ asked : below({n}) \cap asked # {}}
                 /\ call = "run impact" \/ (call = "run default" /\ asked # {}) => reply.result = below(asked)
                 /\ call = "run impact -format json" =>
                      /\ reply.result.impacted = below(asked)
                      /\ SummaryIsRight(d, req.ids, reply.result)
                 /\ call = "run report" => ReportIsRight(d, reply.result)
                 /\ call = "run report -format matrix" =>
                      /\ ToSet(reply.result.nodes) = Nodes(d) /\ IsInjective(reply.result.nodes)
                      /\ \A i, j \in DOMAIN reply.result.nodes :
                           reply.result.matrix[i][j] =
                             HasEdge(d, reply.result.nodes[i], reply.result.nodes[j])
                 /\ call \in {"run validate", "/api/validate"} =>
                      LET issues == IF served THEN reply.body ELSE reply.result
                          errors == {issue \in issues : issue.code \in ValidationErrors}
                      IN  /\ {issue.code : issue \in errors} \subseteq {"layer_violation"}
                          /\ ~served => reply.ok = (errors = {})

(* The parts that judge a graph on their own do not contradict each other: *)
(* the rule engine has no error where the validator has none, except for   *)
(* edges without a transform, and finds every error of the validator but a *)
(* cycle; issues, rules, health checks and statistics count the same       *)
(* edges, degrees, layers and components; health is its worst check.       *)
ChecksAgree ==
    LET m        == Compute(graph)
        many     == Cardinality(Nodes(graph)) > 1
        rules(r) == {v \in Evaluate(graph) : v.rule = r}
        codes    == {issue.code : issue \in answer.value}
        statuses == {answer.value.checks[i].status : i \in DOMAIN answer.value.checks}
    IN  /\ answer.query = "issues" =>
             /\ Compliant(Evaluate(graph)) /\ Acyclic(graph) => Valid(answer.value)
             /\ Valid(answer.value) /\ "empty_transform" \notin codes => Compliant(Evaluate(graph))
             /\ "disconnected" \in codes <=> many /\ m.components > 1
             /\ {issue.about : issue \in {i \in answer.value : i.code = "orphan_node"}} =
                  IF many THEN Roots(graph) \cap Leaves(graph) ELSE {}
        /\ answer.query = "violations" =>
             /\ AffectedNodes(answer.value) \subseteq Nodes(graph)
             /\ many => /\ rules("max_fan_in") # {} <=> m.fanIn.size > MaxFanInRule
                        /\ rules("max_fan_out") # {} <=> m.fanOut.size > MaxFanOutRule
                        /\ rules("owner_boundary") # {} <=>
                             MaxCrossTeam > 0 /\ Coupling(graph)[1] > MaxCrossTeam
        /\ answer.query = "health" =>
             answer.value.overall = CASE "CRITICAL" \in statuses -> "CRITICAL"
                                      [] statuses = {"GOOD"} -> "GOOD"
                                      [] OTHER -> "WARNING"
        /\ answer.query = "statistics" =>
             /\ Acyclic(graph) /\ Nodes(graph) # {} => answer.value.depth = m.depth + 1
             /\ many => answer.value.maxIn = m.fanIn /\ answer.value.maxOut = m.fanOut
             /\ FoldFunction(+, 0, answer.value.layers) = answer.value.nodes
             /\ \A n \in Nodes(graph) :
                  Cardinality({o \in DOMAIN answer.value.owners : n \in answer.value.owners[o]}) = 1
=============================================================================
