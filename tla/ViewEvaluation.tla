--------------------------- MODULE ViewEvaluation ---------------------------
(***************************************************************************)
(* StrategyEngine.evaluate: every registered view, in registry order,      *)
(* turns the snapshot of one analysis into a graph, the graph is checked   *)
(* against the snapshot (_GraphValidationSession.normalize), its cycles    *)
(* are analysed, and the checks that apply to the view look at it.  Views  *)
(* and checks may be extensions, which can return anything or raise; the   *)
(* first failure ends the evaluation without a report.                     *)
(*                                                                         *)
(* Sources and nodes are identified by sequences: <<"source", path>> and   *)
(* <<"package">> followed by the dotted name, so that, as in the program,  *)
(* no source id is a package id.                                           *)
(***************************************************************************)
EXTENDS DottedNames, Reachability, FiniteSets
LOCAL INSTANCE SequencesExt
LOCAL INSTANCE Functions

CONSTANTS
  Evaluations,    \* what there is to evaluate: [snapshot, depth, registry]
  Identifiers,    \* the words that can name a package
  CustomGraphs,   \* what an extension view may return
  CustomFindings  \* what an extension check may return: sets of findings

(***************************************************************************)
(* A source is [id, name, isPackage, status], a fact [id, source, at,      *)
(* typingOnly, inFunction], where at is the statement's place; an          *)
(* unresolved import is [source, requested, reason, facts].  Dependencies  *)
(* are given by their evidence: [source, target, fact, how].  The selected *)
(* dependencies are the resolved ones without the bases that module        *)
(* ImportResolution calls redundant.  The depth is package_max_depth.  A   *)
(* registry holds                                                          *)
(*   views      a sequence of [id, base, package, depth]: base is the      *)
(*              source view shown, or grouped if package, and "custom" in  *)
(*              an extension; depth is the max_depth of a PackageView      *)
(*   checks     a sequence of [id, strategy, everywhere, views]: views are *)
(*              the applicable views unless the check applies everywhere   *)
(*   selection  the checks selected for some of the views                  *)
(* A depth is 0 for None.                                                  *)
(***************************************************************************)
ASSUME SnapshotsAssumption ==
  \A v \in Evaluations : LET s == v.snapshot IN
    /\ IsFiniteSet(s.sources) /\ IsFiniteSet(s.facts) /\ IsFiniteSet(s.resolved)
    /\ \A a, b \in s.sources : a.id = b.id => a = b
    /\ \A a \in s.sources : Head(a.id) = "source"
    /\ \A f, g \in s.facts : f.id = g.id => f = g
    /\ \A f, g \in s.facts : f.at = g.at => f.source = g.source
    /\ \A f \in s.facts : \E a \in s.sources : a.id = f.source
    /\ \A e \in s.resolved : /\ \E f \in s.facts : f.id = e.fact /\ f.source = e.source
                             /\ \E a \in s.sources : a.id = e.target
                             /\ e.how \in {"exact_module", "exact_base", "probable_submodule"}
    /\ \A u \in s.unresolved : \A i \in u.facts : \E f \in s.facts : f.id = i /\ f.source = u.source
    /\ \A u, w \in s.unresolved :
         u.source = w.source /\ u.requested = w.requested /\ u.reason = w.reason => u = w
    /\ s.dependencies =
         {e \in s.resolved :
            ~ (e.how = "exact_base" /\ \E p \in s.resolved :
                 p.how = "probable_submodule" /\ p.fact = e.fact /\ p.source = e.source)}

ASSUME RegistriesAssumption ==
  \A v \in Evaluations :
    LET r == v.registry
    IN /\ Len(r.views) \in Nat /\ DOMAIN r.views = 1 .. Len(r.views)
       /\ DOMAIN r.checks \subseteq Nat
       /\ \A view \in DOMAIN r.selection : DOMAIN r.selection[view] \subseteq Nat

VARIABLES
  snapshot,  \* the snapshot of this analysis
  depth,     \* package_max_depth, 0 for None
  registry,  \* the registry of the engine
  position,  \* the registration whose turn it is
  phase,     \* "register", "transform", "validate", "check", "done", "refused", "failed"
  graph,     \* its graph: [nodes, edges, retained]
  pending,   \* the places of the checks still to run on it
  findings,  \* their findings so far
  reports,   \* the finished views: [id, nodes, edges, retained, findings]
  culprit    \* what failed: "none", "builtin" or "extension"

given == <<snapshot, depth, registry>>
vars  == <<given, position, phase, graph, pending, findings, reports, culprit>>
-----------------------------------------------------------------------------
(* StrategyRegistry                                                        *)

SourceViews == {"structural", "non-typing", "module-body"}

\* the package view that is built on a source view
PackageViewOf(base) ==
  IF base = "structural" THEN "package-structural"
  ELSE IF base = "non-typing" THEN "package-non-typing"
  ELSE "package-module-body"

(* ApplicationFactory: the registry of the program, unless it is given another *)

DefaultViews ==
  << [id |-> "structural", base |-> "structural", package |-> FALSE, depth |-> 0],
     [id |-> "non-typing", base |-> "non-typing", package |-> FALSE, depth |-> 0],
     [id |-> "module-body", base |-> "module-body", package |-> FALSE, depth |-> 0],
     [id |-> "package-structural", base |-> "structural", package |-> TRUE, depth |-> 0],
     [id |-> "package-non-typing", base |-> "non-typing", package |-> TRUE, depth |-> 0],
     [id |-> "package-module-body", base |-> "module-body", package |-> TRUE, depth |-> 0] >>

DefaultChecks ==
  << [id |-> "cycles", strategy |-> "cycles", everywhere |-> TRUE, views |-> {}],
     [id |-> "unresolved-imports", strategy |-> "unresolved-imports", everywhere |-> TRUE, views |-> {}] >>

DefaultRegistry == [views |-> DefaultViews, checks |-> DefaultChecks, selection |-> <<>>]

\* for_run: package_max_depth overrides the depth of every package view, unless it is None
MaxDepth(view) == IF depth = 0 THEN view.depth ELSE depth

Applicable(check, view) == check.everywhere \/ view \in check.views

ViewNames  == {registry.views[i].id : i \in DOMAIN registry.views}
CheckNames == {registry.checks[i].id : i \in DOMAIN registry.checks}

CheckOf(id) == registry.checks[CHOOSE i \in DOMAIN registry.checks : registry.checks[i].id = id]

\* mutant: a reserved package view may group any source view
KeepsReservedStrategies(view) ==
  /\ view.id \in SourceViews => view.base = view.id /\ ~view.package
  /\ view.id \in {PackageViewOf(b) : b \in SourceViews} => view.package

\* the built-in names stand for the built-in strategies
KeepsReservedNames(view) ==
  /\ view.id \in SourceViews => view.base = view.id /\ ~view.package
  /\ \A b \in SourceViews : view.id = PackageViewOf(b) => view.base = b /\ view.package

ValidRegistry ==
  /\ \A i, j \in DOMAIN registry.views : registry.views[i].id = registry.views[j].id => i = j
  /\ \A i, j \in DOMAIN registry.checks : registry.checks[i].id = registry.checks[j].id => i = j
  /\ \A i \in DOMAIN registry.views : KeepsReservedNames(registry.views[i])
  /\ \A i \in DOMAIN registry.checks :
       LET check == registry.checks[i]
       IN /\ check.id \in {"cycles", "unresolved-imports"} => check.strategy = check.id
          /\ ~check.everywhere => check.views \subseteq ViewNames
  /\ \A view \in DOMAIN registry.selection :
       LET selected == registry.selection[view]
       IN /\ view \in ViewNames
          /\ IsInjective(selected)
          /\ \A i \in DOMAIN selected : selected[i] \in CheckNames /\ Applicable(CheckOf(selected[i]), view)

\* selected_checks: the places of the checks selected for a view, or of the applicable ones
PlacesOf(view) ==
  IF view \in DOMAIN registry.selection THEN DOMAIN registry.selection[view]
  ELSE {i \in DOMAIN registry.checks : Applicable(registry.checks[i], view)}

\* the check at such a place
CheckAt(view, i) ==
  IF view \in DOMAIN registry.selection THEN CheckOf(registry.selection[view][i]) ELSE registry.checks[i]
-----------------------------------------------------------------------------
(* The source views                                                        *)

Ids(S) == {x.id : x \in S}

\* one edge per pair of owners, with all the evidence between them
EdgesOf(evidence, Owner(_)) ==
  LET Pair(e) == <<Owner(e.source), Owner(e.target)>>
  IN {[source |-> p[1], target |-> p[2], evidence |-> {e \in evidence : Pair(e) = p}] :
        p \in {Pair(e) : e \in evidence}}

\* SourceGraphProjection.project
SourceGraph(facts) ==
  LET Itself(id) == id
  IN [nodes    |-> {[id |-> s.id, members |-> {s.id}] : s \in snapshot.sources},
      edges    |-> EdgesOf({e \in snapshot.dependencies : e.fact \in facts}, Itself),
      retained |-> facts]

StructuralView == SourceGraph(Ids(snapshot.facts))

NonTypingView == SourceGraph(Ids({f \in snapshot.facts : ~f.typingOnly}))

\* mutant: typing-only imports outside functions stay
ModuleBodyWithTyping == SourceGraph(Ids({f \in snapshot.facts : ~f.inFunction}))

ModuleBodyView == SourceGraph(Ids({f \in snapshot.facts : ~f.typingOnly /\ ~f.inFunction}))

SourceView(base) ==
  IF base = "structural" THEN StructuralView
  ELSE IF base = "non-typing" THEN NonTypingView
  ELSE ModuleBodyView
-----------------------------------------------------------------------------
(* The package views                                                       *)

\* _package: the immediate package of a bound source, cut at the depth of the view
Package(s, cap) ==
  LET name == IF s.isPackage THEN s.name ELSE Front(s.name)
  IN IF s.status # "bound" \/ s.name = NoName \/ Range(s.name) \ Identifiers # {} THEN NoName
     ELSE IF cap \in 1 .. Len(name) THEN SubSeq(name, 1, cap)
     ELSE name

NodeOf(id, cap) ==
  LET s == CHOOSE t \in snapshot.sources : t.id = id
  IN IF Package(s, cap) = NoName THEN id ELSE <<"package">> \o Package(s, cap)

Across(evidence, cap) == {e \in evidence : NodeOf(e.source, cap) # NodeOf(e.target, cap)}

\* mutant: every base the policy dropped comes back
RestoreAll(support, facts, cap) ==
  {e \in snapshot.resolved : e.how = "exact_base" /\ e.fact \in facts}

\* mutant: no dropped base comes back
RestoreNothing(support, facts, cap) == {}

\* the bases the policy dropped come back where the child lies in the same node
Restored(support, facts, cap) ==
  {e \in snapshot.resolved :
     /\ e.how = "exact_base" /\ e.fact \in facts
     /\ \E p \in support : /\ p.how = "probable_submodule"
                           /\ p.source = e.source /\ p.fact = e.fact
                           /\ NodeOf(p.target, cap) = NodeOf(e.target, cap)}

\* PackageView.transform
PackageGraph(sourceGraph, cap) ==
  LET Owner(id) == NodeOf(id, cap)
      support   == Across(UNION {d.evidence : d \in sourceGraph.edges}, cap)
      nodes     == {Owner(s.id) : s \in snapshot.sources}
  IN [nodes    |-> {[id |-> n, members |-> {i \in Ids(snapshot.sources) : Owner(i) = n}] : n \in nodes},
      edges    |-> EdgesOf(support \cup Restored(support, sourceGraph.retained, cap), Owner),
      retained |-> sourceGraph.retained]
-----------------------------------------------------------------------------
(* Validation, cycles and checks                                           *)

Members(g) == UNION {n.members : n \in g.nodes}

\* mutant: only the selected dependencies are evidence
SelectedSupport == snapshot.dependencies

\* GraphValidator.prepare
Support == snapshot.dependencies \cup snapshot.resolved

WellFormedNodes(g) ==
  /\ \A n \in g.nodes : n.members # {} /\ n.members \subseteq Ids(snapshot.sources)
  /\ \A m, n \in g.nodes : m.id = n.id \/ m.members \cap n.members # {} => m = n

RetainedFactsProjected(g) ==
  /\ g.retained \subseteq Ids(snapshot.facts)
  /\ \A f \in snapshot.facts : f.id \in g.retained => f.source \in Members(g)

EvidenceFits(g, d) ==
  \A e \in d.evidence :
    /\ e \in Support /\ e.fact \in g.retained
    /\ \E n \in g.nodes : n.id = d.source /\ e.source \in n.members
    /\ \E n \in g.nodes : n.id = d.target /\ e.target \in n.members
    /\ \E f \in snapshot.facts : f.id = e.fact /\ f.source = e.source

\* _GraphValidationSession.normalize raises nothing
Valid(g) ==
  /\ WellFormedNodes(g)
  /\ RetainedFactsProjected(g)
  /\ \A d \in g.edges : /\ {d.source, d.target} \subseteq Ids(g.nodes)
                        /\ d.evidence # {}
                        /\ EvidenceFits(g, d)
  /\ \A c, d \in g.edges : c.source = d.source /\ c.target = d.target => c = d

Pairs(edges) == {<<d.source, d.target>> : d \in edges}

Definite(edges) == {d \in edges : \E e \in d.evidence : e.how \in {"exact_module", "exact_base"}}

\* CycleAnalyzer.analyze, in detail module CycleAnalysis
Cycles(g) ==
  LET reaches  == Reaches(Pairs(g.edges))
      definite == Reaches(Pairs(Definite(g.edges)))
      Group(n) == {n} \cup {m \in Ids(g.nodes) : {<<n, m>>, <<m, n>>} \subseteq reaches}
      cyclic   == {n \in Ids(g.nodes) : <<n, n>> \in reaches}
  IN {[kind |-> "cycle", members |-> Group(n),
       certainty |-> IF \E m \in Group(n) : <<m, m>> \in definite THEN "definite" ELSE "possible"] : n \in cyclic}

\* the unresolved imports of the view's context, with the retained facts only
RetainedUnresolved ==
  {[source |-> u.source, requested |-> u.requested, reason |-> u.reason, facts |-> u.facts \cap graph.retained] :
     u \in {v \in snapshot.unresolved : v.facts \cap graph.retained # {}}}

Reportable(u) == u.reason # "namespace_base_unmodelled"

-----------------------------------------------------------------------------
(* CheckResultValidator                                                    *)

(***************************************************************************)
(* A finding is a cycle, a rule [kind, nodes, sources, evidence] or an     *)
(* unresolved import [kind, source, requested, reason, node, evidence].    *)
(* Its evidence consists of [at, fact, source, target, how], where all but *)
(* at can be None, which is "none" here, NoName for source and target.     *)
(***************************************************************************)
RetainedFacts == {f \in snapshot.facts : f.id \in graph.retained}

Matched(e) ==
  {f \in RetainedFacts : /\ e.at = f.at
                         /\ e.fact \in {"none", f.id}
                         /\ e.source \in {NoName, f.source}}

SupportedBy(e, f) ==
  \E d \in graph.edges : \E s \in d.evidence :
    /\ s.fact = f.id /\ s.source = f.source
    /\ e.target \in {NoName, s.target}
    /\ e.how \in {"none", s.how}

\* mutant: evidence needs no support in the view
EvidenceLocated(e, allowed) == \E f \in Matched(e) : f.id \in allowed

\* _validate_evidence, for facts among those allowed
EvidenceMatches(e, allowed) ==
  \E f \in Matched(e) :
    /\ f.id \in allowed
    /\ e.target # NoName \/ e.how # "none" => SupportedBy(e, f)

\* the retained facts behind an unresolved import
FactsOf(source, requested, reason) ==
  UNION {u.facts : u \in {v \in RetainedUnresolved : v.source = source /\ v.requested = requested /\ v.reason = reason}}

ValidFinding(f) ==
  \/ f.kind = "cycle" /\ f \in Cycles(graph)
  \/ /\ f.kind = "rule"
     /\ f.nodes \subseteq Ids(graph.nodes)
     /\ f.sources \subseteq Ids(snapshot.sources)
     /\ \A e \in f.evidence : EvidenceMatches(e, Ids(snapshot.facts))
  \/ /\ f.kind = "unresolved"
     /\ \E n \in graph.nodes : n.id = f.node /\ f.source \in n.members
     /\ FactsOf(f.source, f.requested, f.reason) # {}
     /\ \A e \in f.evidence : EvidenceMatches(e, FactsOf(f.source, f.requested, f.reason))
-----------------------------------------------------------------------------
NoGraph == [nodes |-> {}, edges |-> {}, retained |-> {}]

View == registry.views[position]

Init ==
  /\ \E v \in Evaluations : snapshot = v.snapshot /\ depth = v.depth /\ registry = v.registry
  /\ position = 1
  /\ phase = "register"
  /\ graph = NoGraph
  /\ pending = {}
  /\ findings = {}
  /\ reports = {}
  /\ culprit = "none"

\* a registry is checked when it is made, or AnalysisError is raised
Register ==
  /\ phase = "register"
  /\ phase' = IF ~ValidRegistry THEN "refused" ELSE IF Len(registry.views) = 0 THEN "done" ELSE "transform"
  /\ UNCHANGED <<given, position, graph, pending, findings, reports, culprit>>

Fail(who) ==
  /\ phase' = "failed"
  /\ culprit' = who
  /\ UNCHANGED <<given, position, graph, pending, findings, reports>>

\* mutant: package_max_depth does not reach the registered views
BuiltAsRegistered(view) ==
  IF view.package THEN PackageGraph(SourceView(view.base), view.depth) ELSE SourceView(view.base)

\* what the strategy of a built-in view returns
Built(view) ==
  IF view.package THEN PackageGraph(SourceView(view.base), MaxDepth(view)) ELSE SourceView(view.base)

Transform ==
  /\ phase = "transform" /\ View.base # "custom"
  /\ graph' = Built(View)
  /\ phase' = "validate"
  /\ UNCHANGED <<given, position, pending, findings, reports, culprit>>

TransformCustom ==
  /\ phase = "transform" /\ View.base = "custom"
  /\ \E g \in CustomGraphs : graph' = g
  /\ phase' = "validate"
  /\ UNCHANGED <<given, position, pending, findings, reports, culprit>>

Reject ==
  /\ phase = "validate" /\ ~Valid(graph)
  /\ Fail(IF View.base = "custom" THEN "extension" ELSE "builtin")

Accept ==
  /\ phase = "validate" /\ Valid(graph)
  /\ phase' = "check"
  /\ pending' = PlacesOf(View.id)
  /\ findings' = {}
  /\ UNCHANGED <<given, position, graph, reports, culprit>>

\* the place of the check whose turn it is
First == CHOOSE i \in pending : \A j \in pending : i <= j

Turn(strategy) == phase = "check" /\ pending # {} /\ CheckAt(View.id, First).strategy = strategy

Raise ==
  \/ phase = "transform" /\ View.base = "custom" /\ Fail("extension")
  \/ Turn("custom") /\ Fail("extension")

\* a check has returned results, and they are validated
Return(results, who) ==
  IF \A f \in results : ValidFinding(f)
  THEN /\ pending' = pending \ {First}
       /\ findings' = findings \cup {[check |-> CheckAt(View.id, First).id, finding |-> f] : f \in results}
       /\ UNCHANGED <<given, position, phase, graph, reports, culprit>>
  ELSE Fail(who)

CheckCycles == Turn("cycles") /\ Return(Cycles(graph), "builtin")

\* EvidenceInterpreter: facts of one statement share a location, and one of them stands for all
Locations(facts) ==
  LET first(at) == CHOOSE f \in RetainedFacts : f.at = at /\ f.id \in facts
      places    == {f.at : f \in {g \in RetainedFacts : g.id \in facts}}
  IN {[at |-> p, fact |-> first(p).id, source |-> first(p).source, target |-> NoName, how |-> "none"] : p \in places}

UnresolvedFinding(u) ==
  [kind |-> "unresolved", source |-> u.source, requested |-> u.requested, reason |-> u.reason,
   evidence |-> Locations(u.facts), node |-> (CHOOSE n \in graph.nodes : u.source \in n.members).id]

\* node_by_source may have no such key: evaluate turns the KeyError into an ExtensionError
CheckUnresolved ==
  LET reportable == {u \in RetainedUnresolved : Reportable(u)}
  IN /\ Turn("unresolved-imports")
     /\ IF \A u \in reportable : u.source \in Members(graph)
        THEN Return({UnresolvedFinding(u) : u \in reportable}, "builtin")
        ELSE Fail("builtin")

CheckCustom == Turn("custom") /\ \E results \in CustomFindings : Return(results, "extension")

Report ==
  /\ phase = "check" /\ pending = {}
  /\ reports' = reports \cup {[id |-> View.id, nodes |-> graph.nodes, edges |-> graph.edges,
                               retained |-> graph.retained, findings |-> findings]}
  /\ position' = position + 1
  /\ phase' = IF position = Len(registry.views) THEN "done" ELSE "transform"
  /\ UNCHANGED <<given, graph, pending, findings, culprit>>

Next ==
  \/ Register \/ Transform \/ TransformCustom \/ Raise \/ Reject \/ Accept
  \/ CheckCycles \/ CheckUnresolved \/ CheckCustom
  \/ Report

Spec == Init /\ [][Next]_vars
-----------------------------------------------------------------------------
Found(r) == {f.finding : f \in r.findings}

ChecksOf(view) == {CheckAt(view, i).id : i \in PlacesOf(view)}

\* the finished source views with the package view built on each, by their names
Grouped == {p \in reports \X reports : p[1].id \in SourceViews /\ p[2].id = PackageViewOf(p[1].id)}

\* the registration of a view, and where a package view so registered puts a source
ViewOf(id) == registry.views[CHOOSE i \in DOMAIN registry.views : registry.views[i].id = id]

NodeIn(r, id) == NodeOf(id, MaxDepth(ViewOf(r.id)))

\* Only an extension can make the evaluation fail: the validation accepts every graph that a
\* built-in view makes, no built-in check trips over a graph the validation accepted, whoever
\* made it, and its findings pass the validation themselves.
OnlyExtensionsFail == culprit # "builtin"

FactsShown(r) == {f \in snapshot.facts : f.id \in r.retained}

\* a cycle is one of the view's nodes and edges; evidence points to an import that the view
\* retains, and where it names a target or a resolution, to a dependency with that import
\* behind it; an unresolved import stands in a node of the view
SpeaksOfView(f, r) ==
  /\ f.kind = "cycle" =>
       \A m \in f.members : m \in Ids(r.nodes) /\ \E d \in r.edges : d.source = m /\ d.target \in f.members
  /\ f.kind # "cycle" =>
       \A e \in f.evidence : \E i \in FactsShown(r) :
         /\ i.at = e.at
         /\ e.target # NoName \/ e.how # "none" =>
              \E d \in r.edges : \E s \in d.evidence :
                s.fact = i.id /\ e.target \in {NoName, s.target} /\ e.how \in {"none", s.how}
  /\ f.kind = "unresolved" => \E n \in r.nodes : n.id = f.node /\ f.source \in n.members

\* where the built-in check finds an unresolved import
PlacesReported(u, r) ==
  {e.at : e \in UNION {f.finding.evidence : f \in {g \in r.findings :
     /\ g.check = "unresolved-imports" /\ g.finding.source = u.source
     /\ g.finding.requested = u.requested /\ g.finding.reason = u.reason}}}

\* The findings of a view speak of that view, whoever made them.  The built-in check reports
\* each unresolved import at exactly the statements that the view retains, except the bases
\* of namespaces.
FindingsMatchView ==
  \A r \in reports :
    /\ \A f \in Found(r) : SpeaksOfView(f, r)
    /\ "unresolved-imports" \in ChecksOf(r.id) =>
         \A u \in snapshot.unresolved : u.reason # "namespace_base_unmodelled" =>
           PlacesReported(u, r) = {f.at : f \in {g \in FactsShown(r) : g.id \in u.facts}}

\* "package projection must not add parent edges": two package nodes depend on each other
\* exactly as their members do in the source view, restored evidence or not.
PackagePairsAreQuotient ==
  \A pair \in Grouped :
    Pairs(pair[2].edges) =
      {p \in {<<NodeIn(pair[2], d.source), NodeIn(pair[2], d.target)>> : d \in pair[1].edges} : p[1] # p[2]}

\* Grouping hides no cycle between packages: the nodes of a source cycle that leaves its
\* package all belong to one package cycle, which is reported where cycles are checked.
CyclesSurviveGrouping ==
  \A pair \in Grouped : \A f \in Found(pair[1]) :
    f.kind = "cycle" /\ "cycles" \in ChecksOf(pair[2].id) =>
      LET nodes == {NodeIn(pair[2], i) : i \in f.members}
      IN Cardinality(nodes) > 1 =>
           \E g \in Found(pair[2]) : g.kind = "cycle" /\ nodes \subseteq g.members

\* the built-in source views, each with those that show more imports
Narrowings ==
  {<<"non-typing", "structural">>, <<"module-body", "structural">>, <<"module-body", "non-typing">>}

\* the finished built-in views with those that show more imports in the same way: source views,
\* or package views of one depth.  A registry may give its package views different depths, and
\* then a coarser grouping can join packages in a cycle that a finer one keeps apart.
Filtered ==
  {p \in reports \X reports :
     \/ <<p[1].id, p[2].id>> \in Narrowings
     \/ /\ \E n \in Narrowings : p[1].id = PackageViewOf(n[1]) /\ p[2].id = PackageViewOf(n[2])
        /\ MaxDepth(ViewOf(p[1].id)) = MaxDepth(ViewOf(p[2].id))}

\* A view that leaves more imports out finds no cycle that the wider view misses, and is no
\* surer of it, ungrouped or grouped to the same depth: a gate on the wider view passes nothing
\* the narrower one stops.
FilteringFindsNothingNew ==
  \A pair \in Filtered : \A f \in Found(pair[1]) :
    f.kind = "cycle" /\ "cycles" \in ChecksOf(pair[2].id) =>
      \E g \in Found(pair[2]) : /\ g.kind = "cycle" /\ f.members \subseteq g.members
                               /\ f.certainty = "definite" => g.certainty = "definite"

\* Grouping loses no certainty: where every reading of an import leads to the same package,
\* one of them exactly, the dependency on that package is definite, although the policy has
\* dropped the exact evidence from the source view.
CertaintySurvivesGrouping ==
  \A pair \in Grouped : \A e \in snapshot.resolved :
    /\ e.how # "probable_submodule" /\ e.fact \in pair[2].retained
    /\ NodeIn(pair[2], e.source) # NodeIn(pair[2], e.target)
    /\ \A o \in snapshot.dependencies : o.fact = e.fact => NodeIn(pair[2], o.target) = NodeIn(pair[2], e.target)
    => <<NodeIn(pair[2], e.source), NodeIn(pair[2], e.target)>> \in Pairs(Definite(pair[2].edges))
=============================================================================
