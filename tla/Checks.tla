------------------------------- MODULE Checks -------------------------------
(***************************************************************************)
(* The verdicts on a graph: internal/validate, internal/policy, the health *)
(* report of internal/metrics and the summaries of internal/report.  An    *)
(* issue or a violation is a record of its code and the node or edge it    *)
(* names; severities follow from the codes.  A ratio is a pair of numbers. *)
(***************************************************************************)
EXTENDS Metrics

CONSTANTS
    MaxCrossTeam, MaxFanInRule, MaxFanOutRule,  \* limits of the policy rules
    HealthLimit                                 \* limits of the health checks, ratios

ASSUME RuleLimitsAssumption == {MaxCrossTeam, MaxFanInRule, MaxFanOutRule} \subseteq Nat

Edges(g) == {e \in Node \X Node : HasEdge(g, e[1], e[2])}
Transform(g, e) == g.edge[e[1]][e[2]].transform

(* An edge against the order of the layers, both of them being ranked.     *)
Descends(g, rank, e) ==
    LET from == g.attr[e[1]].layer
        to   == g.attr[e[2]].layer
    IN  from \in DOMAIN rank /\ to \in DOMAIN rank /\ rank[from] > rank[to]

CrossOwner(g) ==
    {e \in Edges(g) : LET from == g.attr[e[1]].owner
                          to   == g.attr[e[2]].owner
                      IN  from # "" /\ to # "" /\ from # to}

-----------------------------------------------------------------------------
(* internal/validate.                                                      *)

LayerRank == [staging |-> 0, dim |-> 1, fact |-> 2, report |-> 3]

ValidationErrors == {"cycle_detected", "invalid_transform", "layer_violation"}

Orphans(g) ==
    {n \in Nodes(g) : Predecessors(g, n) \cup Successors(g, n) = {} /\ Cardinality(Nodes(g)) > 1}

Validate(g) ==
    LET issue(code, about) == [code |-> code, about |-> about]
        whole(code, when)  == IF when THEN {issue(code, <<>>)} ELSE {}
    IN  {issue("orphan_node", n) : n \in Orphans(g)}
        \cup whole("cycle_detected", TopoOrders(g) = {})
        \cup {issue("empty_transform", e) : e \in {e \in Edges(g) : Transform(g, e) = ""}}
        \cup {issue("invalid_transform", e) :
                e \in {e \in Edges(g) : Transform(g, e) # "" /\ Transform(g, e) \notin ValidTransforms}}
        \cup {issue("layer_violation", e) : e \in {e \in Edges(g) : Descends(g, LayerRank, e)}}
        \cup whole("disconnected", Cardinality(Nodes(g)) > 1 /\ Components(g) > 1)

Valid(issues) == \A i \in issues : i.code \notin ValidationErrors

-----------------------------------------------------------------------------
(* internal/policy, the rules of DefaultEngine.                            *)

FlowRank == [staging |-> 0, dim |-> 1, fact |-> 2, report |-> 3]

AllowlistShort == {"direct", "filter", "aggregate", "join", "lookup"}

Allowlist == {"direct", "filter", "aggregate", "join", "lookup", "union"}

PolicyErrors == {"layer_flow", "transform_allowlist"}

Evaluate(g) ==
    LET violation(rule, nodes) == [rule |-> rule, nodes |-> nodes]
    IN  {violation("layer_flow", e) : e \in {e \in Edges(g) : Descends(g, FlowRank, e)}}
        \cup (IF MaxCrossTeam > 0 /\ Cardinality(CrossOwner(g)) > MaxCrossTeam
              THEN {violation("owner_boundary", <<>>)} ELSE {})
        \cup {violation("transform_allowlist", e) :
                e \in {e \in Edges(g) : Transform(g, e) \notin Allowlist}}
        \cup {violation("max_fan_in", <<n>>) :
                n \in {n \in Nodes(g) : Cardinality(Predecessors(g, n)) > MaxFanInRule}}
        \cup {violation("max_fan_out", <<n>>) :
                n \in {n \in Nodes(g) : Cardinality(Successors(g, n)) > MaxFanOutRule}}

Compliant(violations) == \A v \in violations : v.rule \notin PolicyErrors

AffectedNodes(violations) == UNION {ToSet(v.nodes) : v \in violations}

-----------------------------------------------------------------------------
(* CheckHealth.                                                            *)

Density(g) ==
    LET n == Cardinality(Nodes(g))
    IN  IF n <= 1 THEN <<0, 1>> ELSE <<EdgeCount(g), n * (n - 1)>>

Coupling(g) ==
    IF Cardinality(Nodes(g)) <= 1 \/ EdgeCount(g) = 0 THEN <<0, 1>>
    ELSE <<Cardinality(CrossOwner(g)), EdgeCount(g)>>

(* addCheck: critical above the limit, a warning above four fifths of it.  *)
Status(value, limit) ==
    LET v == value[1] * limit[2]
        l == limit[1] * value[2]
    IN  CASE v > l -> "CRITICAL"
          [] v <= l /\ 5 * v > 4 * l -> "WARNING"
          [] OTHER -> "GOOD"

HealthChecks(g) ==
    LET m == Compute(g)
    IN  << [name |-> "depth", status |-> Status(<<m.depth, 1>>, HealthLimit.depth)],
           [name |-> "max_fan_in", status |-> Status(<<m.fanIn.size, 1>>, HealthLimit.fanIn)],
           [name |-> "max_fan_out", status |-> Status(<<m.fanOut.size, 1>>, HealthLimit.fanOut)],
           [name |-> "density", status |-> Status(Density(g), HealthLimit.density)],
           [name |-> "coupling", status |-> Status(Coupling(g), HealthLimit.coupling)],
           [name |-> "components", status |-> Status(<<m.components, 1>>, HealthLimit.components)] >>

(* The loop over the checks: it stops at the first critical one.           *)
Worsened(overall, check) ==
    CASE overall = "CRITICAL" -> overall
      [] check.status = "CRITICAL" -> "CRITICAL"
      [] check.status = "WARNING" /\ overall = "GOOD" -> "WARNING"
      [] OTHER -> overall

CheckHealth(g) ==
    [checks |-> HealthChecks(g), overall |-> FoldLeft(Worsened, "GOOD", HealthChecks(g))]

-----------------------------------------------------------------------------
(* internal/report.                                                        *)

NamedOr(name, default) == IF name = "" THEN default ELSE name

(* How many of the nodes are in each layer.                                *)
LayerCounts(g, nodes, default) ==
    LET layer(n) == NamedOr(g.attr[n].layer, default)
    IN  [l \in {layer(n) : n \in nodes} |-> Cardinality({n \in nodes : layer(n) = l})]

OwnerReport(g) ==
    LET owner(n) == NamedOr(g.attr[n].owner, "unassigned")
    IN  [o \in {owner(n) : n \in Nodes(g)} |-> {n \in Nodes(g) : owner(n) = o}]

(* ComputeStats; the averages are quotients of the other numbers.          *)
ComputeStats(g) ==
    [nodes |-> Cardinality(Nodes(g)), edges |-> EdgeCount(g),
     maxIn |-> MaxFanIn(g), maxOut |-> MaxFanOut(g),
     depth |-> Len(LayerOrder(g)),
     layers |-> LayerCounts(g, Nodes(g), "unset"), owners |-> OwnerReport(g)]

(* buildJSONReport.                                                        *)
JSONReport(g) ==
    [nodes |-> [n \in Nodes(g) |-> [attr |-> g.attr[n], in |-> Cardinality(Predecessors(g, n)),
                                    out |-> Cardinality(Successors(g, n))]],
     edges |-> [e \in Edges(g) |-> g.edge[e[1]][e[2]]],
     roots |-> Roots(g), leaves |-> Leaves(g), layers |-> LayerOrder(g),
     ok |-> Valid(Validate(g)), issues |-> Validate(g)]

DepMatrix(g) ==
    LET nodes == Sorted(Nodes(g))
    IN  [nodes |-> nodes,
         matrix |-> [i \in DOMAIN nodes |-> [j \in DOMAIN nodes |-> HasEdge(g, nodes[i], nodes[j])]]]

ImpactSummary(g, changed) ==
    LET impacted == BatchImpact(g, changed)
        ends     == Sorted(impacted \cap Leaves(g))
        paths(c) == FlattenSeq([j \in DOMAIN ends |-> AllPaths(g, c, ends[j], 1)])
    IN  [impacted |-> impacted,
         maxDistance |-> Max({0} \cup {Distance(g, c, n) : c \in ToSet(changed), n \in impacted}),
         layers |-> LayerCounts(g, impacted, "unknown"),
         criticalPaths |-> FlattenSeq([i \in DOMAIN changed |-> paths(changed[i])])]
=============================================================================
