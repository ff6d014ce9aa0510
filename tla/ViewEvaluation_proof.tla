------------------------ MODULE ViewEvaluation_proof ------------------------
(***************************************************************************)
(* For every snapshot, registry and extension: the built-in views make     *)
(* graphs that the validation accepts, the built-in checks never fail, and *)
(* a package view is the quotient of its source view.                      *)
(***************************************************************************)
EXTENDS ViewEvaluation, CommonLemmas, TLAPS

\* the snapshot and the registry are given ones
Given == \E v \in Evaluations : snapshot = v.snapshot /\ depth = v.depth /\ registry = v.registry

Started == phase \in {"transform", "validate", "check"}

\* a finished built-in view is what its registration says
ReportIsBuilt(r) ==
  \E i \in DOMAIN registry.views :
    /\ r.id = registry.views[i].id
    /\ registry.views[i].base # "custom" =>
         /\ r.nodes = Built(registry.views[i]).nodes
         /\ r.edges = Built(registry.views[i]).edges
         /\ r.retained = Built(registry.views[i]).retained

ViewInv ==
  /\ Given
  /\ phase = "register" => position = 1
  /\ Started => ValidRegistry /\ position \in 1 .. Len(registry.views)
  /\ reports # {} => ValidRegistry
  /\ phase \in {"validate", "check"} /\ View.base # "custom" => graph = Built(View)
  /\ phase = "check" => Valid(graph)
  /\ culprit # "builtin"
  /\ \A r \in reports : ReportIsBuilt(r)
\* what the built-in check reports of unresolved imports
Expected == {UnresolvedFinding(u) : u \in {v \in RetainedUnresolved : Reportable(v)}}

\* the findings of the view so far: all are valid, and those of the built-in checks that
\* have run are complete
FindingsInv ==
  phase = "check" =>
    /\ pending \subseteq PlacesOf(View.id)
    /\ \A f \in findings : ValidFinding(f.finding)
    /\ \A f \in findings : f.check = "unresolved-imports" => f.finding \in Expected
    /\ \A i \in PlacesOf(View.id) \ pending :
         /\ CheckAt(View.id, i).id = "unresolved-imports" =>
              \A f \in Expected : [check |-> "unresolved-imports", finding |-> f] \in findings
         /\ CheckAt(View.id, i).id = "cycles" =>
              \A f \in Cycles(graph) : [check |-> "cycles", finding |-> f] \in findings

\* a report speaks of its view, and its cycles are the view's
ReportMatches(r) ==
  /\ \A f \in Found(r) : SpeaksOfView(f, r)
  /\ "unresolved-imports" \in ChecksOf(r.id) =>
       \A u \in snapshot.unresolved : u.reason # "namespace_base_unmodelled" =>
         PlacesReported(u, r) = {f.at : f \in {g \in FactsShown(r) : g.id \in u.facts}}
  /\ \A f \in Found(r) : f.kind = "cycle" => f \in Cycles(r)
  /\ "cycles" \in ChecksOf(r.id) => Cycles(r) \subseteq Found(r)

IInv == ViewInv /\ FindingsInv /\ \A r \in reports : ReportMatches(r)
-----------------------------------------------------------------------------
LEMMA SnapshotFacts ==
  ASSUME Given
  PROVE  /\ \A f, g \in snapshot.facts : f.id = g.id => f = g
         /\ \A f \in snapshot.facts : f.source \in Ids(snapshot.sources)
         /\ \A e \in snapshot.resolved : /\ \E f \in snapshot.facts : f.id = e.fact /\ f.source = e.source
                                         /\ e.source \in Ids(snapshot.sources)
                                         /\ e.target \in Ids(snapshot.sources)
         /\ \A u \in snapshot.unresolved : \A i \in u.facts :
              \E f \in snapshot.facts : f.id = i /\ f.source = u.source
         /\ snapshot.dependencies \subseteq snapshot.resolved
<1>1. PICK v \in Evaluations : snapshot = v.snapshot
  BY DEF Given
<1>2. /\ \A a \in snapshot.sources : a.id \in Ids(snapshot.sources)
      /\ \A i : (\E a \in snapshot.sources : a.id = i) => i \in Ids(snapshot.sources)
  BY DEF Ids
<1>3. /\ \A f, g \in snapshot.facts : f.id = g.id => f = g
      /\ \A f \in snapshot.facts : \E a \in snapshot.sources : a.id = f.source
      /\ \A e \in snapshot.resolved : /\ \E f \in snapshot.facts : f.id = e.fact /\ f.source = e.source
                                      /\ \E a \in snapshot.sources : a.id = e.target
      /\ \A u \in snapshot.unresolved : \A i \in u.facts :
           \E f \in snapshot.facts : f.id = i /\ f.source = u.source
      /\ snapshot.dependencies \subseteq snapshot.resolved
  BY <1>1, SnapshotsAssumption
<1>4. \A f \in snapshot.facts : f.source \in Ids(snapshot.sources)
  BY <1>2, <1>3
<1>5. \A e \in snapshot.resolved : e.source \in Ids(snapshot.sources) /\ e.target \in Ids(snapshot.sources)
  BY <1>2, <1>3, <1>4
<1> QED BY <1>3, <1>4, <1>5

\* The edges of a source graph are those of its evidence.
LEMMA SourceEdges ==
  ASSUME NEW facts
  PROVE  LET edges == SourceGraph(facts).edges
             evidence == {e \in snapshot.dependencies : e.fact \in facts}
         IN /\ \A d \in edges : /\ d.evidence # {} /\ d.evidence \subseteq evidence
                                /\ \A e \in d.evidence : e.source = d.source /\ e.target = d.target
            /\ \A e \in evidence : \E d \in edges : e \in d.evidence
            /\ \A c, d \in edges : c.source = d.source /\ c.target = d.target => c = d
<1> DEFINE evidence == {e \in snapshot.dependencies : e.fact \in facts}
           Edge(p) == [source |-> p[1], target |-> p[2],
                       evidence |-> {e \in evidence : <<e.source, e.target>> = p}]
<1>1. SourceGraph(facts).edges = {Edge(p) : p \in {<<e.source, e.target>> : e \in evidence}}
  BY DEF SourceGraph, EdgesOf
<1>2. ASSUME NEW e \in evidence
      PROVE  /\ Edge(<<e.source, e.target>>) \in SourceGraph(facts).edges
             /\ e \in Edge(<<e.source, e.target>>).evidence
  BY <1>1
<1>3. ASSUME NEW d \in SourceGraph(facts).edges
      PROVE  /\ d = Edge(<<d.source, d.target>>)
             /\ d.evidence # {} /\ d.evidence \subseteq evidence
             /\ \A e \in d.evidence : e.source = d.source /\ e.target = d.target
  <2>1. PICK e \in evidence : d = Edge(<<e.source, e.target>>)
    BY <1>1
  <2>2. d.source = e.source /\ d.target = e.target /\ e \in d.evidence
    BY <2>1
  <2>3. d.evidence = {o \in evidence : <<o.source, o.target>> = <<d.source, d.target>>}
    BY <2>1
  <2> QED BY <2>1, <2>2, <2>3
<1> HIDE DEF Edge, evidence
<1>4. \A c, d \in SourceGraph(facts).edges : c.source = d.source /\ c.target = d.target => c = d
  BY <1>3
<1>5. \A e \in evidence : \E d \in SourceGraph(facts).edges : e \in d.evidence
  BY <1>2
<1> QED BY <1>3, <1>4, <1>5 DEF evidence

\* The nodes, the retained facts and the evidence of a source graph fit the snapshot.
LEMMA SourceGraphValid ==
  ASSUME Given, NEW facts \in SUBSET Ids(snapshot.facts)
  PROVE  Valid(SourceGraph(facts))
<1> DEFINE g == SourceGraph(facts)
           Node(s) == [id |-> s.id, members |-> {s.id}]
<1>1. g.nodes = {Node(s) : s \in snapshot.sources} /\ g.retained = facts
  BY DEF SourceGraph
<1>2. /\ \A n \in g.nodes : n = [id |-> n.id, members |-> {n.id}] /\ n.id \in Ids(snapshot.sources)
      /\ \A i \in Ids(snapshot.sources) : \E n \in g.nodes : n.id = i /\ n.members = {i}
  <2>1. ASSUME NEW n \in g.nodes
        PROVE  n = [id |-> n.id, members |-> {n.id}] /\ n.id \in Ids(snapshot.sources)
    <3>1. PICK s \in snapshot.sources : n = Node(s)
      BY <1>1
    <3> QED BY <3>1 DEF Ids
  <2>2. ASSUME NEW i \in Ids(snapshot.sources) PROVE \E n \in g.nodes : n.id = i /\ n.members = {i}
    <3>1. PICK s \in snapshot.sources : s.id = i
      BY DEF Ids
    <3>2. Node(s) \in g.nodes /\ Node(s).id = i /\ Node(s).members = {i}
      BY <1>1, <3>1
    <3> QED BY <3>2
  <2> QED BY <2>1, <2>2
<1> HIDE DEF g
<1>3. WellFormedNodes(g)
  <2>1. \A n \in g.nodes : n.members = {n.id} /\ n.id \in Ids(snapshot.sources)
    BY <1>2
  <2>2. ASSUME NEW m \in g.nodes, NEW n \in g.nodes, m.id = n.id \/ m.members \cap n.members # {}
        PROVE  m = n
    <3>1. m.id = n.id
      BY <2>1, <2>2
    <3>2. m = [id |-> m.id, members |-> {m.id}] /\ n = [id |-> n.id, members |-> {n.id}]
      BY <1>2
    <3> QED BY <3>1, <3>2
  <2> QED BY <2>1, <2>2 DEF WellFormedNodes
<1>4. Ids(snapshot.sources) \subseteq Ids(g.nodes) /\ Ids(snapshot.sources) \subseteq Members(g)
  BY <1>2 DEF Ids, Members
<1>5. RetainedFactsProjected(g)
  BY <1>1, <1>4, SnapshotFacts DEF RetainedFactsProjected
<1>6. ASSUME NEW d \in g.edges
      PROVE  {d.source, d.target} \subseteq Ids(g.nodes) /\ d.evidence # {} /\ EvidenceFits(g, d)
  <2>1. /\ d.evidence # {}
        /\ \A e \in d.evidence : /\ e \in snapshot.dependencies /\ e.fact \in facts
                                 /\ e.source = d.source /\ e.target = d.target
    BY <1>6, SourceEdges DEF g
  <2>2. \A e \in d.evidence : /\ e \in Support /\ e.fact \in g.retained
                             /\ d.source \in Ids(snapshot.sources) /\ d.target \in Ids(snapshot.sources)
                             /\ \E f \in snapshot.facts : f.id = e.fact /\ f.source = e.source
    BY <1>1, <2>1, SnapshotFacts DEF Support
  <2>3. EvidenceFits(g, d)
    BY <1>2, <2>1, <2>2 DEF EvidenceFits
  <2> QED BY <1>4, <2>1, <2>2, <2>3
<1>7. \A c, d \in g.edges : c.source = d.source /\ c.target = d.target => c = d
  BY SourceEdges DEF g
<1> QED BY <1>3, <1>5, <1>6, <1>7 DEF Valid, g

\* A source view shows a part of the imports.
LEMMA SourceViewIsGraph ==
  ASSUME Given, NEW base
  PROVE  \E facts \in SUBSET Ids(snapshot.facts) : SourceView(base) = SourceGraph(facts)
<1>1. /\ Ids({f \in snapshot.facts : ~f.typingOnly}) \subseteq Ids(snapshot.facts)
      /\ Ids({f \in snapshot.facts : ~f.typingOnly /\ ~f.inFunction}) \subseteq Ids(snapshot.facts)
  BY DEF Ids
<1> QED BY <1>1 DEF SourceView, StructuralView, NonTypingView, ModuleBodyView
-----------------------------------------------------------------------------
\* Evidence a package view shows for a source graph of some imports.
Shown(facts, cap) ==
  LET support == Across({e \in snapshot.dependencies : e.fact \in facts}, cap)
  IN support \cup Restored(support, facts, cap)

\* The edges of a package graph are those of the evidence shown, between nodes of the sources.
LEMMA PackageEdges ==
  ASSUME NEW facts, NEW cap
  PROVE  LET edges == PackageGraph(SourceGraph(facts), cap).edges
         IN /\ \A d \in edges : /\ d.evidence # {} /\ d.evidence \subseteq Shown(facts, cap)
                                /\ \A e \in d.evidence : NodeOf(e.source, cap) = d.source /\ NodeOf(e.target, cap) = d.target
            /\ \A e \in Shown(facts, cap) : \E d \in edges : e \in d.evidence
            /\ \A c, d \in edges : c.source = d.source /\ c.target = d.target => c = d
<1> DEFINE Pair(e) == <<NodeOf(e.source, cap), NodeOf(e.target, cap)>>
           Edge(p) == [source |-> p[1], target |-> p[2], evidence |-> {e \in Shown(facts, cap) : Pair(e) = p}]
           edges == PackageGraph(SourceGraph(facts), cap).edges
<1>1. UNION {d.evidence : d \in SourceGraph(facts).edges} = {e \in snapshot.dependencies : e.fact \in facts}
  BY SourceEdges
<1>2. SourceGraph(facts).retained = facts
  BY DEF SourceGraph
<1>3. edges = {Edge(p) : p \in {Pair(e) : e \in Shown(facts, cap)}}
  BY <1>1, <1>2 DEF PackageGraph, Shown, EdgesOf
<1> HIDE DEF edges
<1>4. ASSUME NEW e \in Shown(facts, cap) PROVE Edge(Pair(e)) \in edges /\ e \in Edge(Pair(e)).evidence
  <2>1. Edge(Pair(e)) \in edges
    <3> HIDE DEF Edge, Pair
    <3> QED BY <1>3
  <2>2. Edge(Pair(e)).evidence = {o \in Shown(facts, cap) : Pair(o) = Pair(e)}
    BY DEF Edge
  <2> QED BY <2>1, <2>2
<1>5. ASSUME NEW d \in edges
      PROVE  /\ d = Edge(<<d.source, d.target>>)
             /\ d.evidence # {} /\ d.evidence \subseteq Shown(facts, cap)
             /\ \A e \in d.evidence : NodeOf(e.source, cap) = d.source /\ NodeOf(e.target, cap) = d.target
  <2>1. PICK e \in Shown(facts, cap) : d = Edge(Pair(e))
    BY <1>3
  <2>2. d.source = NodeOf(e.source, cap) /\ d.target = NodeOf(e.target, cap) /\ e \in d.evidence
    BY <2>1
  <2>3. d.evidence = {o \in Shown(facts, cap) : Pair(o) = <<d.source, d.target>>}
    BY <2>1
  <2> QED BY <2>1, <2>2, <2>3
<1> HIDE DEF Edge, Pair
<1>6. \A c, d \in edges : c.source = d.source /\ c.target = d.target => c = d
  BY <1>5
<1>7. \A e \in Shown(facts, cap) : \E d \in edges : e \in d.evidence
  BY <1>4
<1> QED BY <1>5, <1>6, <1>7 DEF edges

\* What is shown is evidence of the snapshot, between different nodes.
LEMMA ShownFacts ==
  ASSUME Given, NEW facts, NEW cap, NEW e \in Shown(facts, cap)
  PROVE  /\ e \in snapshot.resolved /\ e.fact \in facts
         /\ NodeOf(e.source, cap) # NodeOf(e.target, cap)
         /\ \E o \in snapshot.dependencies : /\ o.fact \in facts /\ o.source = e.source
                                            /\ NodeOf(o.target, cap) = NodeOf(e.target, cap)
<1> DEFINE support == Across({o \in snapshot.dependencies : o.fact \in facts}, cap)
<1>1. support \subseteq {o \in snapshot.dependencies : o.fact \in facts /\ NodeOf(o.source, cap) # NodeOf(o.target, cap)}
  BY DEF Across
<1>2. CASE e \in support
  BY <1>1, <1>2, SnapshotFacts
<1>3. CASE e \in Restored(support, facts, cap)
  <2>1. /\ e \in snapshot.resolved /\ e.fact \in facts
        /\ \E o \in support : o.source = e.source /\ NodeOf(o.target, cap) = NodeOf(e.target, cap)
    BY <1>3 DEF Restored
  <2> QED BY <1>1, <2>1
<1> QED BY <1>2, <1>3 DEF Shown

\* A package graph groups the sources and fits the snapshot.
LEMMA PackageGraphValid ==
  ASSUME Given, NEW facts \in SUBSET Ids(snapshot.facts), NEW cap
  PROVE  Valid(PackageGraph(SourceGraph(facts), cap))
<1> DEFINE g == PackageGraph(SourceGraph(facts), cap)
           Group(n) == {i \in Ids(snapshot.sources) : NodeOf(i, cap) = n}
           Node(n) == [id |-> n, members |-> Group(n)]
<1>1. g.nodes = {Node(n) : n \in {NodeOf(s.id, cap) : s \in snapshot.sources}} /\ g.retained = facts
  BY DEF PackageGraph, SourceGraph
<1> HIDE DEF g
<1>2. ASSUME NEW n \in g.nodes
      PROVE  n = Node(n.id) /\ n.members = Group(n.id) /\ n.members # {}
  <2>1. PICK s \in snapshot.sources : n = Node(NodeOf(s.id, cap))
    BY <1>1
  <2>2. s.id \in Group(NodeOf(s.id, cap)) /\ n.id = NodeOf(s.id, cap) /\ n.members = Group(NodeOf(s.id, cap))
    BY <2>1 DEF Ids
  <2> QED BY <2>1, <2>2
<1>3. ASSUME NEW i \in Ids(snapshot.sources) PROVE \E n \in g.nodes : n.id = NodeOf(i, cap) /\ i \in n.members
  <2>1. PICK s \in snapshot.sources : s.id = i
    BY DEF Ids
  <2>2. Node(NodeOf(i, cap)) \in g.nodes
    <3> HIDE DEF Node
    <3> QED BY <1>1, <2>1
  <2> QED BY <2>2
<1>4. WellFormedNodes(g)
  <2>1. \A n \in g.nodes : n.members # {} /\ n.members \subseteq Ids(snapshot.sources)
    BY <1>2
  <2>2. ASSUME NEW m \in g.nodes, NEW n \in g.nodes, m.id = n.id \/ m.members \cap n.members # {}
        PROVE  m = n
    <3>1. m.id = n.id
      BY <1>2, <2>2
    <3>2. m = Node(m.id) /\ n = Node(n.id)
      BY <1>2
    <3> HIDE DEF Node
    <3> QED BY <3>1, <3>2
  <2> QED BY <2>1, <2>2 DEF WellFormedNodes
<1> HIDE DEF Node, Group
<1>5. RetainedFactsProjected(g)
  BY <1>1, <1>3, SnapshotFacts DEF RetainedFactsProjected, Members
<1>6. ASSUME NEW d \in g.edges
      PROVE  {d.source, d.target} \subseteq Ids(g.nodes) /\ d.evidence # {} /\ EvidenceFits(g, d)
  <2>1. /\ d.evidence # {} /\ d.evidence \subseteq Shown(facts, cap)
        /\ \A e \in d.evidence : NodeOf(e.source, cap) = d.source /\ NodeOf(e.target, cap) = d.target
    BY <1>6, PackageEdges DEF g
  <2>2. ASSUME NEW e \in d.evidence
        PROVE  /\ e \in Support /\ e.fact \in g.retained
               /\ \E n \in g.nodes : n.id = d.source /\ e.source \in n.members
               /\ \E n \in g.nodes : n.id = d.target /\ e.target \in n.members
               /\ \E f \in snapshot.facts : f.id = e.fact /\ f.source = e.source
    <3>1. e \in snapshot.resolved /\ e.fact \in facts
      BY <2>1, ShownFacts
    <3>2. /\ e.source \in Ids(snapshot.sources) /\ e.target \in Ids(snapshot.sources)
          /\ \E f \in snapshot.facts : f.id = e.fact /\ f.source = e.source
      BY <3>1, SnapshotFacts
    <3> QED BY <1>1, <1>3, <2>1, <3>1, <3>2 DEF Support
  <2>3. EvidenceFits(g, d)
    BY <2>2 DEF EvidenceFits
  <2>4. d.source \in Ids(g.nodes) /\ d.target \in Ids(g.nodes)
    BY <2>1, <2>2 DEF Ids
  <2> QED BY <2>1, <2>3, <2>4
<1>7. \A c, d \in g.edges : c.source = d.source /\ c.target = d.target => c = d
  BY PackageEdges DEF g
<1> QED BY <1>4, <1>5, <1>6, <1>7 DEF Valid, g

\* Whatever view is built in, the validation accepts its graph.
LEMMA BuiltIsValid ==
  ASSUME Given, NEW view
  PROVE  Valid(Built(view))
<1>1. PICK facts \in SUBSET Ids(snapshot.facts) : SourceView(view.base) = SourceGraph(facts)
  BY SourceViewIsGraph
<1> QED BY <1>1, SourceGraphValid, PackageGraphValid DEF Built
-----------------------------------------------------------------------------
\* An unresolved import is reported from the retained facts of its own source.
LEMMA UnresolvedIsFound ==
  ASSUME Given, Valid(graph), NEW u \in RetainedUnresolved
  PROVE  /\ u.facts # {} /\ u.source \in Members(graph)
         /\ \A i \in u.facts : \E f \in RetainedFacts : f.id = i /\ f.source = u.source
<1>1. PICK v \in snapshot.unresolved :
        /\ v.facts \cap graph.retained # {}
        /\ u.source = v.source /\ u.facts = v.facts \cap graph.retained
  BY DEF RetainedUnresolved
<1>2. ASSUME NEW i \in u.facts
      PROVE  /\ \E f \in RetainedFacts : f.id = i /\ f.source = u.source
             /\ u.source \in Members(graph)
  <2>1. i \in graph.retained /\ i \in v.facts
    BY <1>1
  <2>2. PICK f \in snapshot.facts : f.id = i /\ f.source = v.source
    BY <2>1, SnapshotFacts
  <2>3. f.source \in Members(graph)
    BY <2>1, <2>2 DEF Valid, RetainedFactsProjected
  <2> QED BY <1>1, <2>1, <2>2, <2>3 DEF RetainedFacts
<1> QED BY <1>1, <1>2

\* The findings of the built-in checks pass the validation.
LEMMA UnresolvedFindingValid ==
  ASSUME Given, Valid(graph), NEW u \in RetainedUnresolved
  PROVE  ValidFinding(UnresolvedFinding(u))
<1> DEFINE finding == UnresolvedFinding(u)
           behind == FactsOf(u.source, u.requested, u.reason)
<1>1. u.facts # {} /\ u.facts \subseteq behind
  BY UnresolvedIsFound DEF FactsOf
<1>2. \E n \in graph.nodes : u.source \in n.members
  BY UnresolvedIsFound DEF Members
<1>3. /\ finding.kind = "unresolved" /\ finding.source = u.source
      /\ finding.requested = u.requested /\ finding.reason = u.reason
      /\ finding.evidence = Locations(u.facts)
      /\ \E n \in graph.nodes : n.id = finding.node /\ u.source \in n.members
  BY <1>2 DEF UnresolvedFinding
<1>4. ASSUME NEW e \in Locations(u.facts) PROVE EvidenceMatches(e, behind)
  <2> DEFINE first(at) == CHOOSE f \in RetainedFacts : f.at = at /\ f.id \in u.facts
  <2>1. PICK g \in RetainedFacts :
          /\ g.id \in u.facts
          /\ e = [at |-> g.at, fact |-> first(g.at).id, source |-> first(g.at).source, target |-> NoName, how |-> "none"]
    BY DEF Locations
  <2>2. first(g.at) \in RetainedFacts /\ first(g.at).at = g.at /\ first(g.at).id \in u.facts
    BY <2>1
  <2> HIDE DEF first
  <2>3. first(g.at) \in Matched(e)
    BY <2>1, <2>2 DEF Matched
  <2>4. e.target = NoName /\ e.how = "none"
    BY <2>1
  <2> QED BY <1>1, <2>2, <2>3, <2>4 DEF EvidenceMatches
<1> HIDE DEF finding
<1> QED BY <1>1, <1>3, <1>4 DEF ValidFinding, finding

LEMMA CyclesAreFindings ==
  ASSUME NEW f \in Cycles(graph)
  PROVE  ValidFinding(f)
<1>1. f.kind = "cycle"
  BY DEF Cycles
<1> QED BY <1>1 DEF ValidFinding
-----------------------------------------------------------------------------
\* What the definitions make of the snapshot and the registry stays.
LEMMA GivenStays ==
  ASSUME UNCHANGED given
  PROVE  /\ \A view : Built(view)' = Built(view)
         /\ ValidRegistry' = ValidRegistry
         /\ Given' = Given
<1>1. snapshot' = snapshot /\ depth' = depth /\ registry' = registry
  BY DEF given
<1>2. \A i, cap : NodeOf(i, cap)' = NodeOf(i, cap)
  BY <1>1 DEF NodeOf, Package
<1>3. \A facts : SourceGraph(facts)' = SourceGraph(facts)
  BY <1>1 DEF SourceGraph, EdgesOf
<1>4. \A base : SourceView(base)' = SourceView(base)
  BY <1>1, <1>3 DEF SourceView, StructuralView, NonTypingView, ModuleBodyView
<1>5. /\ \A S, cap : Across(S, cap)' = Across(S, cap)
      /\ \A S, facts, cap : Restored(S, facts, cap)' = Restored(S, facts, cap)
  BY <1>1, <1>2 DEF Across, Restored
<1>6. ASSUME NEW g, NEW cap PROVE PackageGraph(g, cap)' = PackageGraph(g, cap)
  <2> DEFINE Owner(id) == NodeOf(id, cap)
             support   == Across(UNION {d.evidence : d \in g.edges}, cap)
             evidence  == support \cup Restored(support, g.retained, cap)
  <2>1. evidence' = evidence
    BY <1>5
  <2>2. EdgesOf(evidence, Owner)' = EdgesOf(evidence, Owner)
    <3> HIDE DEF evidence
    <3> QED BY <1>2, <2>1 DEF EdgesOf
  <2> QED BY <1>1, <1>2, <2>2 DEF PackageGraph, Ids
<1>7. \A view : MaxDepth(view)' = MaxDepth(view)
  BY <1>1 DEF MaxDepth
<1>8. \A view : Built(view)' = Built(view)
  BY <1>4, <1>6, <1>7 DEF Built
<1>9. ValidRegistry' = ValidRegistry
  BY <1>1 DEF ValidRegistry, ViewNames, CheckNames, CheckOf, Applicable
<1>10. Given' = Given
  BY <1>1 DEF Given
<1> QED BY <1>8, <1>9, <1>10

LEMMA ValidStays ==
  ASSUME UNCHANGED <<snapshot, graph>>
  PROVE  Valid(graph)' = Valid(graph)
BY DEF Valid, WellFormedNodes, RetainedFactsProjected, EvidenceFits, Members, Support

LEMMA ReportsStay ==
  ASSUME UNCHANGED given, NEW r, ReportIsBuilt(r)
  PROVE  ReportIsBuilt(r)'
BY GivenStays DEF ReportIsBuilt, given

\* A step that stays with its view, does not change the reports and blames no built-in.
LEMMA SameViewKeepsView ==
  ASSUME ViewInv, UNCHANGED <<given, position, reports>>,
         phase' # "register", Started' => Started,
         phase' \in {"validate", "check"} /\ View.base # "custom" => graph' = Built(View),
         phase' = "check" => Valid(graph)',
         culprit' # "builtin"
  PROVE  ViewInv'
<1>1. View' = View /\ registry' = registry
  BY DEF View, given
<1>2. \A r \in reports' : ReportIsBuilt(r)'
  BY ReportsStay DEF ViewInv
<1>3. Given' /\ (Started' => ValidRegistry') /\ (reports' # {} => ValidRegistry')
  BY GivenStays DEF ViewInv
<1>4. Started' => position' \in 1 .. Len(registry'.views)
  BY <1>1 DEF ViewInv
<1> QED BY <1>1, <1>2, <1>3, <1>4, GivenStays DEF ViewInv

LEMMA InitView == Init => ViewInv
BY DEF Init, ViewInv, Given, Started

LEMMA RegisterKeepsView == ViewInv /\ Register => ViewInv'
<1> SUFFICES ASSUME ViewInv, Register PROVE ViewInv'
  OBVIOUS
<1>1. /\ phase = "register" /\ UNCHANGED <<given, position, graph, reports, culprit>>
      /\ phase' \in {"refused", "done", "transform"}
      /\ phase' = "transform" => ValidRegistry /\ Len(registry.views) # 0
  BY DEF Register
<1>2. \A r \in reports' : ReportIsBuilt(r)'
  BY <1>1, ReportsStay DEF ViewInv
<1>3. /\ Given' /\ (Started' => ValidRegistry') /\ (reports' # {} => ValidRegistry')
  BY <1>1, GivenStays DEF ViewInv, Started
<1>4. Started' => position' \in 1 .. Len(registry'.views)
  <2>1. Len(registry.views) \in Nat
    BY RegistriesAssumption DEF ViewInv, Given
  <2> QED BY <1>1, <2>1 DEF ViewInv, Started, given
<1> QED BY <1>1, <1>2, <1>3, <1>4 DEF ViewInv

LEMMA FailKeepsView ==
  ASSUME ViewInv, Started, NEW who, Fail(who), who # "builtin"
  PROVE  ViewInv'
<1>1. /\ UNCHANGED <<given, position, reports>> /\ phase' = "failed" /\ culprit' # "builtin"
  BY DEF Fail
<1> QED BY <1>1, SameViewKeepsView DEF Started

LEMMA TransformKeepsView == ViewInv /\ (Transform \/ TransformCustom) => ViewInv'
<1> SUFFICES ASSUME ViewInv, Transform \/ TransformCustom PROVE ViewInv'
  OBVIOUS
<1>1. CASE Transform
  <2>1. /\ phase = "transform" /\ graph' = Built(View) /\ phase' = "validate"
        /\ UNCHANGED <<given, position, reports, culprit>>
    BY <1>1 DEF Transform
  <2> QED BY <2>1, SameViewKeepsView DEF ViewInv, Started
<1>2. CASE TransformCustom
  <2>1. /\ phase = "transform" /\ View.base = "custom" /\ phase' = "validate"
        /\ UNCHANGED <<given, position, reports, culprit>>
    BY <1>2 DEF TransformCustom
  <2> QED BY <2>1, SameViewKeepsView DEF ViewInv, Started
<1> QED BY <1>1, <1>2

LEMMA ValidateKeepsView == ViewInv /\ (Reject \/ Accept) => ViewInv'
<1> SUFFICES ASSUME ViewInv, Reject \/ Accept PROVE ViewInv'
  OBVIOUS
<1>1. CASE Reject
  <2>1. phase = "validate" /\ ~Valid(graph)
    BY <1>1 DEF Reject
  <2>2. View.base = "custom"
    BY <2>1, BuiltIsValid DEF ViewInv
  <2> QED BY <1>1, <2>1, <2>2, FailKeepsView DEF Reject, Started
<1>2. CASE Accept
  <2>1. /\ phase = "validate" /\ Valid(graph) /\ phase' = "check"
        /\ UNCHANGED <<given, position, graph, reports, culprit>>
    BY <1>2 DEF Accept
  <2>2. Valid(graph)'
    BY <2>1, ValidStays DEF given
  <2> QED BY <2>1, <2>2, SameViewKeepsView DEF ViewInv, Started
<1> QED BY <1>1, <1>2

\* Results that pass leave the view as it is; only an extension's may not pass.
LEMMA ReturnKeepsView ==
  ASSUME ViewInv, phase = "check", NEW results, NEW who, Return(results, who),
         who = "builtin" => \A f \in results : ValidFinding(f)
  PROVE  ViewInv'
<1>1. CASE \A f \in results : ValidFinding(f)
  <2>1. UNCHANGED <<given, position, phase, graph, reports, culprit>>
    BY <1>1 DEF Return
  <2>2. Valid(graph)'
    BY <2>1, ValidStays DEF ViewInv, given
  <2>3. View.base # "custom" => graph' = Built(View)
    BY <2>1 DEF ViewInv
  <2>4. phase' # "register" /\ (Started' => Started) /\ culprit' # "builtin"
    BY <2>1 DEF ViewInv, Started
  <2> QED BY <2>1, <2>2, <2>3, <2>4, SameViewKeepsView
<1>2. CASE ~ \A f \in results : ValidFinding(f)
  BY <1>2, FailKeepsView DEF Return, Started
<1> QED BY <1>1, <1>2

LEMMA ChecksKeepView == ViewInv /\ (CheckCycles \/ CheckUnresolved \/ CheckCustom \/ Raise) => ViewInv'
<1> SUFFICES ASSUME ViewInv, CheckCycles \/ CheckUnresolved \/ CheckCustom \/ Raise PROVE ViewInv'
  OBVIOUS
<1>1. CASE CheckCycles
  BY <1>1, ReturnKeepsView, CyclesAreFindings DEF CheckCycles, Turn
<1>2. CASE CheckUnresolved
  <2> DEFINE reportable == {u \in RetainedUnresolved : Reportable(u)}
  <2>1. phase = "check" /\ Given /\ Valid(graph)
    BY <1>2 DEF CheckUnresolved, Turn, ViewInv
  <2>2. \A u \in reportable : u.source \in Members(graph) /\ ValidFinding(UnresolvedFinding(u))
    BY <2>1, UnresolvedIsFound, UnresolvedFindingValid
  <2>3. Return({UnresolvedFinding(u) : u \in reportable}, "builtin")
    BY <1>2, <2>2 DEF CheckUnresolved
  <2>4. \A f \in {UnresolvedFinding(u) : u \in reportable} : ValidFinding(f)
    BY <2>2
  <2> HIDE DEF reportable
  <2> QED BY <2>1, <2>3, <2>4, ReturnKeepsView
<1>3. CASE CheckCustom
  <2>1. PICK results \in CustomFindings : Return(results, "extension")
    BY <1>3 DEF CheckCustom
  <2> QED BY <1>3, <2>1, ReturnKeepsView DEF CheckCustom, Turn
<1>4. CASE Raise
  BY <1>4, FailKeepsView DEF Raise, Turn, Started
<1> QED BY <1>1, <1>2, <1>3, <1>4

LEMMA ReportKeepsView == ViewInv /\ Report => ViewInv'
<1> SUFFICES ASSUME ViewInv, Report PROVE ViewInv'
  OBVIOUS
<1> DEFINE new == [id |-> View.id, nodes |-> graph.nodes, edges |-> graph.edges,
                   retained |-> graph.retained, findings |-> findings]
<1>1. /\ phase = "check" /\ reports' = reports \cup {new}
      /\ position' = position + 1
      /\ phase' = IF position = Len(registry.views) THEN "done" ELSE "transform"
      /\ UNCHANGED given /\ culprit' = culprit
  BY DEF Report
<1>2. ValidRegistry /\ position \in 1 .. Len(registry.views)
  BY <1>1 DEF ViewInv, Started
<1>3. Len(registry.views) \in Nat /\ DOMAIN registry.views = 1 .. Len(registry.views)
  BY RegistriesAssumption DEF ViewInv, Given
<1>4. /\ new.id = registry.views[position].id
      /\ registry.views[position].base # "custom" =>
           /\ new.nodes = Built(registry.views[position]).nodes
           /\ new.edges = Built(registry.views[position]).edges
           /\ new.retained = Built(registry.views[position]).retained
  BY <1>1 DEF ViewInv, View
<1> HIDE DEF new
<1>5. ReportIsBuilt(new)
  BY <1>2, <1>3, <1>4 DEF ReportIsBuilt
<1>6. \A r \in reports' : ReportIsBuilt(r)'
  BY <1>1, <1>5, ReportsStay DEF ViewInv
<1>7. Given' /\ ValidRegistry'
  BY <1>1, <1>2, GivenStays DEF ViewInv
<1>8. Started' => position' \in 1 .. Len(registry'.views)
  BY <1>1, <1>2, <1>3 DEF given, Started
<1>9. phase' \in {"done", "transform"} /\ culprit' # "builtin"
  BY <1>1 DEF ViewInv
<1> QED BY <1>6, <1>7, <1>8, <1>9 DEF ViewInv

-----------------------------------------------------------------------------
(* The findings.                                                           *)

\* What runs on a view is registered; the built-in names stand for the built-in checks.
LEMMA CheckIsRegistered ==
  ASSUME ValidRegistry, NEW view, NEW i \in PlacesOf(view)
  PROVE  CheckAt(view, i).id \in {"cycles", "unresolved-imports"} =>
           CheckAt(view, i).strategy = CheckAt(view, i).id
<1>1. \E k \in DOMAIN registry.checks : CheckAt(view, i) = registry.checks[k]
  <2>1. CASE view \in DOMAIN registry.selection
    <3>1. i \in DOMAIN registry.selection[view] /\ CheckAt(view, i) = CheckOf(registry.selection[view][i])
      BY <2>1 DEF PlacesOf, CheckAt
    <3>2. registry.selection[view][i] \in CheckNames
      BY <2>1, <3>1 DEF ValidRegistry
    <3>3. \E k \in DOMAIN registry.checks : registry.checks[k].id = registry.selection[view][i]
      BY <3>2 DEF CheckNames
    <3> QED BY <3>1, <3>3 DEF CheckOf
  <2>2. CASE view \notin DOMAIN registry.selection
    BY <2>2 DEF PlacesOf, CheckAt
  <2> QED BY <2>1, <2>2
<1> QED BY <1>1 DEF ValidRegistry

LEMMA FirstIsPending ==
  ASSUME Given, pending \subseteq PlacesOf(View.id), pending # {}
  PROVE  First \in pending
<1>1. PlacesOf(View.id) \subseteq Nat
  BY RegistriesAssumption DEF Given, PlacesOf
<1>2. pending \in SUBSET Nat
  BY <1>1
<1> QED BY <1>2, LeastElementExists DEF First

\* What is looked at while the checks of a view run.
LEMMA ViewStays ==
  ASSUME UNCHANGED <<given, position, graph>>
  PROVE  /\ View' = View
         /\ \A view : PlacesOf(view)' = PlacesOf(view)
         /\ \A view, i : CheckAt(view, i)' = CheckAt(view, i)
         /\ Cycles(graph)' = Cycles(graph)
         /\ Expected' = Expected
         /\ \A f : ValidFinding(f)' <=> ValidFinding(f)
<1>1. snapshot' = snapshot /\ registry' = registry /\ graph' = graph /\ position' = position
  BY DEF given
<1>2. RetainedFacts' = RetainedFacts /\ RetainedUnresolved' = RetainedUnresolved
  BY <1>1 DEF RetainedFacts, RetainedUnresolved
<1>3. \A facts : Locations(facts)' = Locations(facts)
  BY <1>2 DEF Locations
<1>4. Expected' = Expected
  BY <1>1, <1>2, <1>3 DEF Expected, UnresolvedFinding
<1>5. \A e : Matched(e)' = Matched(e)
  BY <1>2 DEF Matched
<1>6. \A e, f : SupportedBy(e, f)' <=> SupportedBy(e, f)
  BY <1>1 DEF SupportedBy
<1>7. \A e, allowed : EvidenceMatches(e, allowed)' <=> EvidenceMatches(e, allowed)
  BY <1>5, <1>6 DEF EvidenceMatches
<1>8. \A a, b, c : FactsOf(a, b, c)' = FactsOf(a, b, c)
  BY <1>2 DEF FactsOf
<1>9. Cycles(graph)' = Cycles(graph)
  BY <1>1 DEF Cycles
<1>10. \A f : ValidFinding(f)' <=> ValidFinding(f)
  BY <1>1, <1>7, <1>8, <1>9 DEF ValidFinding
<1>11. \A view, i : CheckAt(view, i)' = CheckAt(view, i)
  BY <1>1 DEF CheckAt, CheckOf
<1>12. \A view : PlacesOf(view)' = PlacesOf(view)
  BY <1>1 DEF PlacesOf, Applicable
<1>13. View' = View
  BY <1>1 DEF View
<1> QED BY <1>4, <1>9, <1>10, <1>11, <1>12, <1>13

\* What a cycle found in a graph is.
LEMMA CycleMembers ==
  ASSUME NEW g, NEW f \in Cycles(g)
  PROVE  \E n \in Ids(g.nodes) :
           /\ <<n, n>> \in Reaches(Pairs(g.edges))
           /\ f.members = {n} \cup {m \in Ids(g.nodes) : {<<n, m>>, <<m, n>>} \subseteq Reaches(Pairs(g.edges))}
<1> DEFINE reaches  == Reaches(Pairs(g.edges))
           definite == Reaches(Pairs(Definite(g.edges)))
           Group(n) == {n} \cup {m \in Ids(g.nodes) : {<<n, m>>, <<m, n>>} \subseteq reaches}
           Cycle(n) == [kind |-> "cycle", members |-> Group(n),
                        certainty |-> IF \E m \in Group(n) : <<m, m>> \in definite THEN "definite" ELSE "possible"]
<1>1. Cycles(g) = {Cycle(n) : n \in {m \in Ids(g.nodes) : <<m, m>> \in reaches}}
  BY DEF Cycles
<1>2. PICK n \in {m \in Ids(g.nodes) : <<m, m>> \in reaches} : f = Cycle(n)
  BY <1>1
<1> QED BY <1>2

LEMMA CycleIsFound ==
  ASSUME NEW g, NEW n \in Ids(g.nodes), <<n, n>> \in Reaches(Pairs(g.edges))
  PROVE  \E f \in Cycles(g) :
           /\ f.kind = "cycle"
           /\ f.members = {n} \cup {m \in Ids(g.nodes) : {<<n, m>>, <<m, n>>} \subseteq Reaches(Pairs(g.edges))}
<1> DEFINE reaches  == Reaches(Pairs(g.edges))
           definite == Reaches(Pairs(Definite(g.edges)))
           Group(k) == {k} \cup {m \in Ids(g.nodes) : {<<k, m>>, <<m, k>>} \subseteq reaches}
           Cycle(k) == [kind |-> "cycle", members |-> Group(k),
                        certainty |-> IF \E m \in Group(k) : <<m, m>> \in definite THEN "definite" ELSE "possible"]
<1>1. Cycles(g) = {Cycle(k) : k \in {m \in Ids(g.nodes) : <<m, m>> \in reaches}}
  BY DEF Cycles
<1>2. Cycle(n).kind = "cycle" /\ Cycle(n).members = Group(n)
  OBVIOUS
<1>3. Cycle(n) \in Cycles(g)
  <2> HIDE DEF Cycle
  <2> QED BY <1>1
<1> QED BY <1>2, <1>3

\* Every member of a reported cycle is a node of the view and depends on a member.
LEMMA CycleSpeaks ==
  ASSUME Valid(graph), NEW f \in Cycles(graph), NEW m \in f.members
  PROVE  m \in Ids(graph.nodes) /\ \E d \in graph.edges : d.source = m /\ d.target \in f.members
<1> DEFINE reaches == Reaches(Pairs(graph.edges))
<1>1. PICK n \in Ids(graph.nodes) :
        /\ <<n, n>> \in reaches
        /\ f.members = {n} \cup {k \in Ids(graph.nodes) : {<<n, k>>, <<k, n>>} \subseteq reaches}
  BY CycleMembers
<1>2. <<m, n>> \in reaches /\ <<n, m>> \in reaches /\ m \in Ids(graph.nodes)
  BY <1>1
<1>3. PICK s \in Successors(Pairs(graph.edges), m) : s = n \/ <<s, n>> \in reaches
  BY <1>2, FirstEdge
<1>4. PICK d \in graph.edges : d.source = m /\ d.target = s
  BY <1>3 DEF Successors, Pairs
<1>5. s \in Ids(graph.nodes)
  BY <1>4 DEF Valid
<1>6. <<m, s>> \in Pairs(graph.edges)
  BY <1>4 DEF Pairs
<1>7. <<n, s>> \in reaches
  BY <1>2, <1>6, EdgeReaches, ReachesTransitive
<1>8. s \in f.members
  BY <1>1, <1>3, <1>5, <1>7
<1> QED BY <1>2, <1>4, <1>8

LEMMA FindingSpeaks ==
  ASSUME Valid(graph), NEW f, ValidFinding(f), NEW r,
         r.nodes = graph.nodes, r.edges = graph.edges, r.retained = graph.retained
  PROVE  SpeaksOfView(f, r) /\ (f.kind = "cycle" => f \in Cycles(graph))
<1>1. FactsShown(r) = RetainedFacts
  BY DEF FactsShown, RetainedFacts
<1>2. ASSUME NEW e, NEW allowed, EvidenceMatches(e, allowed)
      PROVE  \E i \in FactsShown(r) :
               /\ i.at = e.at
               /\ e.target # NoName \/ e.how # "none" =>
                    \E d \in r.edges : \E s \in d.evidence :
                      s.fact = i.id /\ e.target \in {NoName, s.target} /\ e.how \in {"none", s.how}
  BY <1>1, <1>2 DEF EvidenceMatches, Matched, SupportedBy
<1>3. CASE f.kind = "cycle" /\ f \in Cycles(graph)
  BY <1>3, CycleSpeaks DEF SpeaksOfView
<1>4. CASE f.kind = "rule" /\ \A e \in f.evidence : EvidenceMatches(e, Ids(snapshot.facts))
  BY <1>2, <1>4 DEF SpeaksOfView
<1>5. CASE /\ f.kind = "unresolved"
           /\ \E n \in graph.nodes : n.id = f.node /\ f.source \in n.members
           /\ \A e \in f.evidence : EvidenceMatches(e, FactsOf(f.source, f.requested, f.reason))
  BY <1>2, <1>5 DEF SpeaksOfView
<1> QED BY <1>3, <1>4, <1>5 DEF ValidFinding

\* The unresolved imports expected stand where the retained facts stand.
LEMMA ExpectedPlaces ==
  ASSUME Given, NEW r, r.retained = graph.retained,
         \A f \in r.findings : f.check = "unresolved-imports" => f.finding \in Expected,
         \A f \in Expected : [check |-> "unresolved-imports", finding |-> f] \in r.findings,
         NEW u \in snapshot.unresolved, u.reason # "namespace_base_unmodelled"
  PROVE  PlacesReported(u, r) = {f.at : f \in {g \in FactsShown(r) : g.id \in u.facts}}
<1> DEFINE mine == [source |-> u.source, requested |-> u.requested, reason |-> u.reason,
                    facts |-> u.facts \cap graph.retained]
           places == {f.at : f \in {g \in FactsShown(r) : g.id \in u.facts}}
<1>1. FactsShown(r) = RetainedFacts /\ \A f \in RetainedFacts : f.id \in graph.retained
  BY DEF FactsShown, RetainedFacts
<1>2. \A facts : {e.at : e \in Locations(facts)} = {f.at : f \in {g \in RetainedFacts : g.id \in facts}}
  <2> TAKE facts
  <2> DEFINE located == {f.at : f \in {g \in RetainedFacts : g.id \in facts}}
             first(at) == CHOOSE f \in RetainedFacts : f.at = at /\ f.id \in facts
             Location(p) == [at |-> p, fact |-> first(p).id, source |-> first(p).source,
                             target |-> NoName, how |-> "none"]
  <2>1. Locations(facts) = {Location(p) : p \in located}
    BY DEF Locations
  <2>2. \A p \in located : Location(p).at = p
    OBVIOUS
  <2> HIDE DEF located, Location
  <2>3. {e.at : e \in Locations(facts)} = located
    BY <2>1, <2>2
  <2> QED BY <2>3 DEF located
<1>3. {e.at : e \in Locations(mine.facts)} = places
  BY <1>1, <1>2
<1>4. \A x : /\ UnresolvedFinding(x).source = x.source
             /\ UnresolvedFinding(x).requested = x.requested
             /\ UnresolvedFinding(x).reason = x.reason
             /\ UnresolvedFinding(x).evidence = Locations(x.facts)
  BY DEF UnresolvedFinding
<1>5. \A v \in snapshot.unresolved :
        v.source = u.source /\ v.requested = u.requested /\ v.reason = u.reason => v = u
  BY SnapshotsAssumption DEF Given
<1>6. ASSUME NEW x \in RetainedUnresolved, x.source = u.source, x.requested = u.requested, x.reason = u.reason
      PROVE  x = mine
  <2>1. PICK v \in snapshot.unresolved :
          x = [source |-> v.source, requested |-> v.requested, reason |-> v.reason,
               facts |-> v.facts \cap graph.retained]
    BY DEF RetainedUnresolved
  <2> QED BY <1>5, <1>6, <2>1
<1>7. ASSUME NEW g \in r.findings, g.check = "unresolved-imports", g.finding.source = u.source,
             g.finding.requested = u.requested, g.finding.reason = u.reason
      PROVE  g.finding.evidence = Locations(mine.facts)
  <2>1. PICK x \in RetainedUnresolved : g.finding = UnresolvedFinding(x)
    BY <1>7 DEF Expected
  <2> HIDE DEF mine
  <2>2. x = mine
    BY <1>4, <1>6, <1>7, <2>1
  <2> QED BY <1>4, <2>1, <2>2
<1>8. PlacesReported(u, r) \subseteq {e.at : e \in Locations(mine.facts)}
  <2> HIDE DEF mine
  <2> QED BY <1>7 DEF PlacesReported
<1>9. ASSUME u.facts \cap graph.retained # {}
      PROVE  {e.at : e \in Locations(mine.facts)} \subseteq PlacesReported(u, r)
  <2>1. mine \in RetainedUnresolved
    BY <1>9 DEF RetainedUnresolved
  <2>2. /\ mine.source = u.source /\ mine.requested = u.requested /\ mine.reason = u.reason
        /\ Reportable(mine)
    BY DEF Reportable
  <2> DEFINE new == [check |-> "unresolved-imports", finding |-> UnresolvedFinding(mine)]
  <2> HIDE DEF mine
  <2>3. new \in r.findings
    BY <2>1, <2>2 DEF Expected
  <2>4. /\ new.check = "unresolved-imports" /\ new.finding.source = u.source
        /\ new.finding.requested = u.requested /\ new.finding.reason = u.reason
        /\ new.finding.evidence = Locations(mine.facts)
    BY <1>4, <2>2
  <2> HIDE DEF new
  <2> QED BY <2>3, <2>4 DEF PlacesReported
<1>10. ASSUME u.facts \cap graph.retained = {}
       PROVE  places = {}
  BY <1>1, <1>10
<1> HIDE DEF mine, places
<1> QED BY <1>3, <1>8, <1>9, <1>10 DEF places

LEMMA SameCycles ==
  ASSUME NEW r, r.nodes = graph.nodes, r.edges = graph.edges
  PROVE  Cycles(r) = Cycles(graph)
BY DEF Cycles

\* What is reported when all checks of a view have run.
LEMMA ReportIsComplete ==
  ASSUME IInv, phase = "check", pending = {}, NEW r,
         r = [id |-> View.id, nodes |-> graph.nodes, edges |-> graph.edges,
              retained |-> graph.retained, findings |-> findings]
  PROVE  ReportMatches(r)
<1>1. /\ r.id = View.id /\ r.nodes = graph.nodes /\ r.edges = graph.edges
      /\ r.retained = graph.retained /\ r.findings = findings
  OBVIOUS
<1>2. Valid(graph) /\ Given
  BY DEF IInv, ViewInv
<1>3. \A f \in Found(r) : ValidFinding(f)
  BY <1>1 DEF IInv, FindingsInv, Found
<1>4. \A f \in Found(r) : SpeaksOfView(f, r) /\ (f.kind = "cycle" => f \in Cycles(r))
  BY <1>1, <1>2, <1>3, FindingSpeaks, SameCycles
<1>5. ASSUME "unresolved-imports" \in ChecksOf(r.id), NEW u \in snapshot.unresolved,
             u.reason # "namespace_base_unmodelled"
      PROVE  PlacesReported(u, r) = {f.at : f \in {g \in FactsShown(r) : g.id \in u.facts}}
  <2>1. /\ \A f \in r.findings : f.check = "unresolved-imports" => f.finding \in Expected
        /\ \A f \in Expected : [check |-> "unresolved-imports", finding |-> f] \in r.findings
    BY <1>1, <1>5 DEF IInv, FindingsInv, ChecksOf
  <2> QED BY <1>1, <1>2, <1>5, <2>1, ExpectedPlaces
<1>6. ASSUME "cycles" \in ChecksOf(r.id), NEW f \in Cycles(r)
      PROVE  f \in Found(r)
  <2>1. f \in Cycles(graph)
    BY <1>1, <1>6, SameCycles
  <2>2. [check |-> "cycles", finding |-> f] \in r.findings
    BY <1>1, <1>6, <2>1 DEF IInv, FindingsInv, ChecksOf
  <2>3. [check |-> "cycles", finding |-> f].finding = f
    OBVIOUS
  <2> QED BY <2>2, <2>3 DEF Found
<1> QED BY <1>4, <1>5, <1>6 DEF ReportMatches

\* A finished report stays as it is.
LEMMA MatchStays ==
  ASSUME UNCHANGED given, NEW r, ReportMatches(r)
  PROVE  ReportMatches(r)'
<1>1. snapshot' = snapshot /\ registry' = registry
  BY DEF given
<1>2. ChecksOf(r.id)' = ChecksOf(r.id)
  BY <1>1 DEF ChecksOf, PlacesOf, CheckAt, CheckOf, Applicable
<1>3. FactsShown(r)' = FactsShown(r)
  BY <1>1 DEF FactsShown
<1>4. \A f : SpeaksOfView(f, r)' <=> SpeaksOfView(f, r)
  BY <1>3 DEF SpeaksOfView
<1> QED BY <1>1, <1>2, <1>3, <1>4 DEF ReportMatches, PlacesReported, Found

\* What a check adds: valid findings, the expected ones if it is built in.
LEMMA ReturnKeepsFindings ==
  ASSUME IInv, phase = "check", pending # {}, NEW results, NEW who, Return(results, who),
         CheckAt(View.id, First).id = "unresolved-imports" => results = Expected,
         CheckAt(View.id, First).id = "cycles" => results = Cycles(graph)
  PROVE  FindingsInv'
<1>1. CASE ~ \A f \in results : ValidFinding(f)
  BY <1>1 DEF Return, Fail, FindingsInv
<1>2. CASE \A f \in results : ValidFinding(f)
  <2> DEFINE name == CheckAt(View.id, First).id
             new  == {[check |-> name, finding |-> f] : f \in results}
  <2>1. /\ pending' = pending \ {First} /\ findings' = findings \cup new
        /\ UNCHANGED <<given, position, phase, graph>>
    BY <1>2 DEF Return
  <2>2. pending \subseteq PlacesOf(View.id) /\ First \in pending
    BY FirstIsPending DEF IInv, ViewInv, FindingsInv
  <2>3. \A f \in new : f.check = name /\ f.finding \in results
    OBVIOUS
  <2>4. \A f \in results : [check |-> name, finding |-> f] \in findings'
    BY <2>1
  <2> HIDE DEF name, new
  <2>5. \A f \in findings' : ValidFinding(f.finding)'
    BY <1>2, <2>1, <2>3, ViewStays DEF IInv, FindingsInv
  <2>6. \A f \in findings' : f.check = "unresolved-imports" => f.finding \in Expected'
    BY <2>1, <2>3, ViewStays DEF IInv, FindingsInv, name
  <2>7. ASSUME NEW i \in PlacesOf(View.id)' \ pending'
        PROVE  /\ CheckAt(View.id, i)'.id = "unresolved-imports" =>
                    \A f \in Expected' : [check |-> "unresolved-imports", finding |-> f] \in findings'
               /\ CheckAt(View.id, i)'.id = "cycles" =>
                    \A f \in Cycles(graph)' : [check |-> "cycles", finding |-> f] \in findings'
    <3>1. /\ i \in PlacesOf(View.id) /\ CheckAt(View.id, i)' = CheckAt(View.id, i)
          /\ Expected' = Expected /\ Cycles(graph)' = Cycles(graph)
      BY <2>1, ViewStays
    <3>2. CASE i = First
      BY <2>4, <3>1, <3>2 DEF name
    <3>3. CASE i \notin pending
      BY <2>1, <3>1, <3>3 DEF IInv, FindingsInv
    <3> QED BY <2>1, <3>2, <3>3
  <2>8. pending' \subseteq PlacesOf(View.id)'
    BY <2>1, <2>2, ViewStays
  <2> QED BY <2>5, <2>6, <2>7, <2>8 DEF FindingsInv
<1> QED BY <1>1, <1>2

LEMMA ChecksKeepFindings == IInv /\ (CheckCycles \/ CheckUnresolved \/ CheckCustom \/ Raise) => FindingsInv'
<1> SUFFICES ASSUME IInv, CheckCycles \/ CheckUnresolved \/ CheckCustom \/ Raise PROVE FindingsInv'
  OBVIOUS
<1>1. ASSUME NEW strategy, Turn(strategy)
      PROVE  /\ phase = "check" /\ pending # {} /\ CheckAt(View.id, First).strategy = strategy
             /\ CheckAt(View.id, First).id \in {"cycles", "unresolved-imports"} =>
                  strategy = CheckAt(View.id, First).id
  <2>1. phase = "check" /\ pending # {} /\ CheckAt(View.id, First).strategy = strategy
    BY <1>1 DEF Turn
  <2>2. First \in PlacesOf(View.id)
    BY <2>1, FirstIsPending DEF IInv, ViewInv, FindingsInv
  <2>3. ValidRegistry
    BY <2>1 DEF IInv, ViewInv, Started
  <2> QED BY <2>1, <2>2, <2>3, CheckIsRegistered
<1>2. CASE CheckCycles
  <2>1. Turn("cycles") /\ Return(Cycles(graph), "builtin")
    BY <1>2 DEF CheckCycles
  <2>2. /\ phase = "check" /\ pending # {} /\ CheckAt(View.id, First).id # "unresolved-imports"
    BY <1>1, <2>1
  <2> QED BY <2>1, <2>2, ReturnKeepsFindings
<1>3. CASE CheckUnresolved
  <2> DEFINE reportable == {u \in RetainedUnresolved : Reportable(u)}
  <2>1. Turn("unresolved-imports")
    BY <1>3 DEF CheckUnresolved
  <2>2. /\ phase = "check" /\ pending # {} /\ CheckAt(View.id, First).id # "cycles"
    BY <1>1, <2>1
  <2>3. \A u \in reportable : u.source \in Members(graph)
    BY <2>2, UnresolvedIsFound DEF IInv, ViewInv
  <2>4. Return(Expected, "builtin")
    BY <1>3, <2>3 DEF CheckUnresolved, Expected
  <2> QED BY <2>2, <2>4, ReturnKeepsFindings
<1>4. CASE CheckCustom
  <2>1. PICK results \in CustomFindings : Return(results, "extension")
    BY <1>4 DEF CheckCustom
  <2>2. Turn("custom")
    BY <1>4 DEF CheckCustom
  <2>3. /\ phase = "check" /\ pending # {}
        /\ CheckAt(View.id, First).id \notin {"cycles", "unresolved-imports"}
    BY <1>1, <2>2
  <2> QED BY <2>1, <2>3, ReturnKeepsFindings
<1>5. CASE Raise
  BY <1>5 DEF Raise, Fail, FindingsInv
<1> QED BY <1>2, <1>3, <1>4, <1>5

LEMMA AcceptKeepsFindings == Accept => FindingsInv'
<1> SUFFICES ASSUME Accept PROVE FindingsInv'
  OBVIOUS
<1>1. pending' = PlacesOf(View.id) /\ findings' = {} /\ UNCHANGED <<given, position, graph>>
  BY DEF Accept
<1>2. pending' = PlacesOf(View.id)'
  BY <1>1, ViewStays
<1> QED BY <1>1, <1>2 DEF FindingsInv

\* No step but a report changes the reports.
LEMMA ReportsMatch == IInv /\ [Next]_vars => \A r \in reports' : ReportMatches(r)'
<1> SUFFICES ASSUME IInv, [Next]_vars, NEW r \in reports' PROVE ReportMatches(r)'
  OBVIOUS
<1>1. CASE Report
  <2>1. phase = "check" /\ pending = {} /\ UNCHANGED given
    BY <1>1 DEF Report
  <2>2. r \in reports \/ r = [id |-> View.id, nodes |-> graph.nodes, edges |-> graph.edges,
                              retained |-> graph.retained, findings |-> findings]
    BY <1>1 DEF Report
  <2>3. ReportMatches(r)
    BY <2>1, <2>2, ReportIsComplete DEF IInv
  <2> QED BY <2>1, <2>3, MatchStays
<1>2. CASE ~Report
  <2>1. UNCHANGED <<given, reports>>
    BY <1>2 DEF Next, vars, Register, Transform, TransformCustom, Raise, Reject, Accept, CheckCycles,
                CheckUnresolved, CheckCustom, Return, Fail, given
  <2> QED BY <2>1, MatchStays DEF IInv
<1> QED BY <1>1, <1>2

-----------------------------------------------------------------------------
LEMMA NextKeepsView == ViewInv /\ [Next]_vars => ViewInv'
<1> SUFFICES ASSUME ViewInv, [Next]_vars PROVE ViewInv'
  OBVIOUS
<1>1. CASE UNCHANGED vars
  <2>1. UNCHANGED <<given, position, phase, graph, reports, culprit>> /\ View' = View
    BY <1>1 DEF vars, given, View
  <2>2. \A r \in reports' : ReportIsBuilt(r)'
    BY <2>1, ReportsStay DEF ViewInv
  <2>3. /\ Given' /\ (Started' => ValidRegistry') /\ (reports' # {} => ValidRegistry')
        /\ Valid(graph)' = Valid(graph) /\ Built(View)' = Built(View)
    BY <2>1, GivenStays, ValidStays DEF ViewInv, Started, given
  <2> QED BY <2>1, <2>2, <2>3 DEF ViewInv, Started, given
<1> QED BY <1>1, RegisterKeepsView, TransformKeepsView, ValidateKeepsView, ChecksKeepView, ReportKeepsView DEF Next

LEMMA NextKeepsFindings == IInv /\ [Next]_vars => FindingsInv'
<1> SUFFICES ASSUME IInv, [Next]_vars PROVE FindingsInv'
  OBVIOUS
<1>1. CASE Accept
  BY <1>1, AcceptKeepsFindings
<1>2. CASE CheckCycles \/ CheckUnresolved \/ CheckCustom \/ Raise
  BY <1>2, ChecksKeepFindings
<1>3. CASE Register \/ Transform \/ TransformCustom \/ Reject \/ Report
  <2>1. phase' # "check"
    BY <1>3 DEF Register, Transform, TransformCustom, Reject, Report, Fail
  <2> QED BY <2>1 DEF FindingsInv
<1>4. CASE UNCHANGED vars
  <2>1. UNCHANGED <<given, position, phase, graph, pending, findings>>
    BY <1>4 DEF vars, given
  <2> QED BY <2>1, ViewStays DEF IInv, FindingsInv
<1> QED BY <1>1, <1>2, <1>3, <1>4 DEF Next

\* Every reachable state satisfies the strengthened invariant.
THEOREM InductiveInvariant == Spec => []IInv
<1>1. Init => IInv
  BY InitView DEF IInv, Init, FindingsInv
<1>2. IInv /\ [Next]_vars => IInv'
  BY NextKeepsView, NextKeepsFindings, ReportsMatch DEF IInv
<1> QED BY <1>1, <1>2, PTL DEF Spec

\* "Only an extension can make the evaluation fail", for every snapshot, registry and extension.
THEOREM BuiltInsNeverFail == Spec => []OnlyExtensionsFail
<1>1. IInv => OnlyExtensionsFail
  BY DEF IInv, ViewInv, OnlyExtensionsFail
<1> QED BY <1>1, InductiveInvariant, PTL
-----------------------------------------------------------------------------
\* In a valid registry a view has one registration.
LEMMA ViewOfRegistered ==
  ASSUME ValidRegistry, NEW i \in DOMAIN registry.views
  PROVE  ViewOf(registry.views[i].id) = registry.views[i]
<1> DEFINE j == CHOOSE k \in DOMAIN registry.views : registry.views[k].id = registry.views[i].id
<1>1. j \in DOMAIN registry.views /\ registry.views[j].id = registry.views[i].id
  OBVIOUS
<1> HIDE DEF j
<1>2. j = i
  BY <1>1 DEF ValidRegistry
<1> QED BY <1>2 DEF ViewOf, j

\* The report of a reserved name is the graph of the built-in strategy, with its depth.
LEMMA ReservedAreBuilt ==
  ASSUME IInv, NEW r \in reports, NEW base \in SourceViews, NEW cap, cap = MaxDepth(ViewOf(r.id))
  PROVE  /\ r.id = base => /\ r.nodes = SourceView(base).nodes
                           /\ r.edges = SourceView(base).edges
         /\ r.id = PackageViewOf(base) => /\ r.nodes = PackageGraph(SourceView(base), cap).nodes
                                          /\ r.edges = PackageGraph(SourceView(base), cap).edges
                                          /\ r.retained = PackageGraph(SourceView(base), cap).retained
<1>1. ValidRegistry /\ ReportIsBuilt(r)
  BY DEF IInv, ViewInv
<1>2. PICK i \in DOMAIN registry.views :
        /\ r.id = registry.views[i].id
        /\ registry.views[i].base # "custom" =>
             /\ r.nodes = Built(registry.views[i]).nodes
             /\ r.edges = Built(registry.views[i]).edges
             /\ r.retained = Built(registry.views[i]).retained
  BY <1>1 DEF ReportIsBuilt
<1>3. base # "custom" /\ cap = MaxDepth(registry.views[i])
  BY <1>1, <1>2, ViewOfRegistered DEF SourceViews
<1>4. CASE r.id = base
  <2>1. registry.views[i].base = base /\ ~registry.views[i].package
    BY <1>1, <1>2, <1>4 DEF ValidRegistry, KeepsReservedNames
  <2>2. r.id # PackageViewOf(base)
    BY <1>4 DEF SourceViews, PackageViewOf
  <2> QED BY <1>2, <1>3, <2>1, <2>2 DEF Built
<1>5. CASE r.id = PackageViewOf(base)
  <2>1. registry.views[i].base = base /\ registry.views[i].package
    BY <1>1, <1>2, <1>5 DEF ValidRegistry, KeepsReservedNames
  <2>2. r.id # base
    BY <1>5 DEF SourceViews, PackageViewOf
  <2> QED BY <1>2, <1>3, <2>1, <2>2 DEF Built
<1> QED BY <1>4, <1>5

\* Two reports compared are the graphs of the same imports.
LEMMA GroupedAreBuilt ==
  ASSUME IInv, NEW pair \in Grouped, NEW cap, cap = MaxDepth(ViewOf(pair[2].id))
  PROVE  \E facts \in SUBSET Ids(snapshot.facts) :
           /\ pair[1].nodes = SourceGraph(facts).nodes
           /\ pair[1].edges = SourceGraph(facts).edges
           /\ pair[2].nodes = PackageGraph(SourceGraph(facts), cap).nodes
           /\ pair[2].edges = PackageGraph(SourceGraph(facts), cap).edges
           /\ pair[2].retained = facts
<1> DEFINE base == pair[1].id
<1>1. /\ pair[1] \in reports /\ pair[2] \in reports
      /\ base \in SourceViews /\ pair[2].id = PackageViewOf(base)
  BY DEF Grouped
<1>2. /\ pair[1].nodes = SourceView(base).nodes /\ pair[1].edges = SourceView(base).edges
      /\ pair[2].nodes = PackageGraph(SourceView(base), cap).nodes
      /\ pair[2].edges = PackageGraph(SourceView(base), cap).edges
      /\ pair[2].retained = PackageGraph(SourceView(base), cap).retained
  BY <1>1, ReservedAreBuilt
<1>3. PICK facts \in SUBSET Ids(snapshot.facts) : SourceView(base) = SourceGraph(facts)
  BY SourceViewIsGraph DEF IInv, ViewInv
<1>4. PackageGraph(SourceGraph(facts), cap).retained = facts
  BY DEF PackageGraph, SourceGraph
<1> QED BY <1>2, <1>3, <1>4

\* Grouping a source graph joins exactly the packages that its edges join.
LEMMA Quotient ==
  ASSUME Given, NEW facts, NEW cap
  PROVE  Pairs(PackageGraph(SourceGraph(facts), cap).edges) =
           {p \in {<<NodeOf(d.source, cap), NodeOf(d.target, cap)>> : d \in SourceGraph(facts).edges} : p[1] # p[2]}
<1> DEFINE source == SourceGraph(facts).edges
           package == PackageGraph(SourceGraph(facts), cap).edges
<1>1. ASSUME NEW d \in package
      PROVE  \E o \in source : /\ NodeOf(o.source, cap) = d.source /\ NodeOf(o.target, cap) = d.target
                               /\ d.source # d.target
  <2>1. PICK e \in d.evidence : e \in Shown(facts, cap) /\ NodeOf(e.source, cap) = d.source /\ NodeOf(e.target, cap) = d.target
    BY PackageEdges
  <2>2. d.source # d.target
    BY <2>1, ShownFacts
  <2>3. PICK s \in snapshot.dependencies : s.fact \in facts /\ s.source = e.source /\ NodeOf(s.target, cap) = NodeOf(e.target, cap)
    BY <2>1, ShownFacts
  <2>4. PICK o \in source : s \in o.evidence /\ o.source = s.source /\ o.target = s.target
    BY <2>3, SourceEdges
  <2> QED BY <2>1, <2>2, <2>3, <2>4
<1>2. ASSUME NEW o \in source, NodeOf(o.source, cap) # NodeOf(o.target, cap)
      PROVE  \E d \in package : d.source = NodeOf(o.source, cap) /\ d.target = NodeOf(o.target, cap)
  <2>1. PICK e \in o.evidence :
          e \in snapshot.dependencies /\ e.fact \in facts /\ e.source = o.source /\ e.target = o.target
    BY SourceEdges
  <2>2. e \in Shown(facts, cap)
    BY <1>2, <2>1 DEF Shown, Across
  <2>3. PICK d \in package : e \in d.evidence
    BY <2>2, PackageEdges
  <2>4. NodeOf(e.source, cap) = d.source /\ NodeOf(e.target, cap) = d.target
    BY <2>3, PackageEdges
  <2> QED BY <2>1, <2>4
<1> HIDE DEF source, package
<1> QED BY <1>1, <1>2 DEF Pairs, source, package

\* "package projection must not add parent edges", for every snapshot and registry.
THEOREM PackageViewsAreQuotients == Spec => []PackagePairsAreQuotient
<1>1. IInv => PackagePairsAreQuotient
  <2> SUFFICES ASSUME IInv, NEW pair \in Grouped, NEW cap, cap = MaxDepth(ViewOf(pair[2].id))
               PROVE  Pairs(pair[2].edges) =
                        {p \in {<<NodeOf(d.source, cap), NodeOf(d.target, cap)>> : d \in pair[1].edges} : p[1] # p[2]}
    BY DEF PackagePairsAreQuotient, NodeIn
  <2>1. PICK facts :
          pair[1].edges = SourceGraph(facts).edges /\ pair[2].edges = PackageGraph(SourceGraph(facts), cap).edges
    BY GroupedAreBuilt
  <2> QED BY <2>1, Quotient DEF IInv, ViewInv
<1> QED BY <1>1, InductiveInvariant, PTL

\* "Grouping loses no certainty", although the policy has dropped the exact evidence.
THEOREM GroupingKeepsCertainty == Spec => []CertaintySurvivesGrouping
<1>1. IInv => CertaintySurvivesGrouping
  <2> SUFFICES ASSUME IInv, NEW pair \in Grouped, NEW e \in snapshot.resolved,
                      NEW cap, cap = MaxDepth(ViewOf(pair[2].id)),
                      e.how # "probable_submodule", e.fact \in pair[2].retained,
                      NodeOf(e.source, cap) # NodeOf(e.target, cap),
                      \A o \in snapshot.dependencies : o.fact = e.fact => NodeOf(o.target, cap) = NodeOf(e.target, cap)
               PROVE  <<NodeOf(e.source, cap), NodeOf(e.target, cap)>> \in Pairs(Definite(pair[2].edges))
    BY DEF CertaintySurvivesGrouping, NodeIn
  <2>1. PICK facts : pair[2].edges = PackageGraph(SourceGraph(facts), cap).edges /\ pair[2].retained = facts
    BY GroupedAreBuilt
  <2>2. e.how \in {"exact_module", "exact_base"}
    BY SnapshotsAssumption DEF IInv, ViewInv, Given
  <2>3. snapshot.dependencies =
          {d \in snapshot.resolved :
             ~ (d.how = "exact_base" /\ \E p \in snapshot.resolved :
                  p.how = "probable_submodule" /\ p.fact = d.fact /\ p.source = d.source)}
    BY SnapshotsAssumption DEF IInv, ViewInv, Given
  <2>4. e \in Shown(facts, cap)
    <3>1. CASE e \in snapshot.dependencies
      BY <2>1, <3>1 DEF Shown, Across
    <3>2. CASE e \notin snapshot.dependencies
      <4>1. e.how = "exact_base"
        BY <2>3, <3>2
      <4>2. PICK p \in snapshot.resolved : p.how = "probable_submodule" /\ p.fact = e.fact /\ p.source = e.source
        BY <2>3, <3>2
      <4>3. p \in snapshot.dependencies
        BY <2>3, <4>2
      <4>4. p \in Across({d \in snapshot.dependencies : d.fact \in facts}, cap) /\ NodeOf(p.target, cap) = NodeOf(e.target, cap)
        BY <2>1, <4>2, <4>3 DEF Across
      <4> QED BY <2>1, <4>1, <4>2, <4>4 DEF Shown, Restored
    <3> QED BY <3>1, <3>2
  <2>5. PICK d \in pair[2].edges : e \in d.evidence /\ d.source = NodeOf(e.source, cap) /\ d.target = NodeOf(e.target, cap)
    BY <2>1, <2>4, PackageEdges
  <2> QED BY <2>2, <2>5 DEF Pairs, Definite
<1> QED BY <1>1, InductiveInvariant, PTL
-----------------------------------------------------------------------------
\* "The findings of a view speak of that view", whoever made them, and the built-in check
\* reports each unresolved import exactly where the view retains it (evaluate,
\* CheckResultValidator.validate).
THEOREM FindingsMatchTheirView == Spec => []FindingsMatchView
<1>1. IInv => FindingsMatchView
  BY DEF IInv, ReportMatches, FindingsMatchView
<1> QED BY <1>1, InductiveInvariant, PTL

\* A path between sources leads between their packages, or stays in one.
LEMMA PathsAreGrouped ==
  ASSUME NEW cap, NEW pairs, NEW grouped, \A p \in pairs : p = <<p[1], p[2]>>,
         \A p \in pairs : NodeOf(p[1], cap) # NodeOf(p[2], cap) => <<NodeOf(p[1], cap), NodeOf(p[2], cap)>> \in grouped,
         NEW a, NEW b, <<a, b>> \in Reaches(pairs), NodeOf(a, cap) # NodeOf(b, cap)
  PROVE  <<NodeOf(a, cap), NodeOf(b, cap)>> \in Reaches(grouped)
<1> DEFINE S == {x \in Ends(pairs) :
                   NodeOf(x, cap) = NodeOf(a, cap) \/ <<NodeOf(a, cap), NodeOf(x, cap)>> \in Reaches(grouped)}
<1>1. \A p \in pairs : p[1] \in Ends(pairs) /\ p[2] \in Ends(pairs)
  BY DEF Ends
<1>2. \A p \in pairs : NodeOf(p[1], cap) = NodeOf(p[2], cap) \/ <<NodeOf(p[1], cap), NodeOf(p[2], cap)>> \in Reaches(grouped)
  BY EdgeReaches
<1>3. Successors(pairs, a) \subseteq S
  BY <1>1, <1>2 DEF Successors
<1>4. Closed(S, pairs)
  <2> SUFFICES ASSUME NEW p \in pairs, p[1] \in S PROVE p[2] \in S
    BY DEF Closed
  <2> QED BY <1>1, <1>2, ReachesTransitive
<1> HIDE DEF S
<1>5. b \in S
  BY <1>3, <1>4, StaysInside
<1> QED BY <1>5 DEF S

\* A cycle of sources that leaves its package becomes a cycle of packages.
LEMMA CycleIsGrouped ==
  ASSUME NEW cap, NEW g, NEW h, NEW f \in Cycles(g),
         \A n \in Ids(g.nodes) : NodeOf(n, cap) \in Ids(h.nodes),
         \A p \in Pairs(g.edges) :
           NodeOf(p[1], cap) # NodeOf(p[2], cap) => <<NodeOf(p[1], cap), NodeOf(p[2], cap)>> \in Pairs(h.edges),
         NEW a \in f.members, NEW b \in f.members, NodeOf(a, cap) # NodeOf(b, cap)
  PROVE  \E c \in Cycles(h) : c.kind = "cycle" /\ \A i \in f.members : NodeOf(i, cap) \in c.members
<1> DEFINE reaches == Reaches(Pairs(g.edges))
           grouped == Reaches(Pairs(h.edges))
<1>1. PICK n \in Ids(g.nodes) :
        /\ <<n, n>> \in reaches
        /\ f.members = {n} \cup {m \in Ids(g.nodes) : {<<n, m>>, <<m, n>>} \subseteq reaches}
  BY CycleMembers
<1>2. \A i \in f.members : i \in Ids(g.nodes) /\ <<n, i>> \in reaches /\ <<i, n>> \in reaches
  BY <1>1
<1>3. \A i, j \in f.members : <<i, j>> \in reaches
  BY <1>2, ReachesTransitive
<1>4. \A p \in Pairs(g.edges) : p = <<p[1], p[2]>>
  BY DEF Pairs
<1>5. \A i, j \in f.members : NodeOf(i, cap) # NodeOf(j, cap) => <<NodeOf(i, cap), NodeOf(j, cap)>> \in grouped
  BY <1>3, <1>4, PathsAreGrouped
<1>6. <<NodeOf(a, cap), NodeOf(a, cap)>> \in grouped
  BY <1>5, ReachesTransitive
<1>7. NodeOf(a, cap) \in Ids(h.nodes)
  BY <1>2
<1>8. PICK c \in Cycles(h) :
        /\ c.kind = "cycle"
        /\ c.members = {NodeOf(a, cap)} \cup {m \in Ids(h.nodes) : {<<NodeOf(a, cap), m>>, <<m, NodeOf(a, cap)>>} \subseteq grouped}
  BY <1>6, <1>7, CycleIsFound
<1>9. \A i \in f.members : NodeOf(i, cap) \in c.members
  BY <1>2, <1>5, <1>8
<1> QED BY <1>8, <1>9

\* "Grouping hides no cycle between packages", for every snapshot, registry and extension
\* (PackageView.transform, CycleCheck.evaluate).
THEOREM GroupingKeepsCycles == Spec => []CyclesSurviveGrouping
<1>1. IInv => CyclesSurviveGrouping
  <2> SUFFICES ASSUME IInv, NEW pair \in Grouped, NEW f \in Found(pair[1]),
                      NEW cap, cap = MaxDepth(ViewOf(pair[2].id)),
                      f.kind = "cycle", "cycles" \in ChecksOf(pair[2].id),
                      Cardinality({NodeOf(i, cap) : i \in f.members}) > 1
               PROVE  \E c \in Found(pair[2]) :
                        c.kind = "cycle" /\ {NodeOf(i, cap) : i \in f.members} \subseteq c.members
    BY DEF CyclesSurviveGrouping, NodeIn
  <2>1. pair[1] \in reports /\ pair[2] \in reports
    BY DEF Grouped
  <2>2. f \in Cycles(pair[1]) /\ Cycles(pair[2]) \subseteq Found(pair[2])
    BY <2>1 DEF IInv, ReportMatches
  <2>3. PICK facts \in SUBSET Ids(snapshot.facts) :
          /\ pair[1].nodes = SourceGraph(facts).nodes
          /\ pair[1].edges = SourceGraph(facts).edges
          /\ pair[2].nodes = PackageGraph(SourceGraph(facts), cap).nodes
          /\ pair[2].edges = PackageGraph(SourceGraph(facts), cap).edges
    BY GroupedAreBuilt
  <2>4. Pairs(pair[2].edges) =
          {p \in {<<NodeOf(d.source, cap), NodeOf(d.target, cap)>> : d \in pair[1].edges} : p[1] # p[2]}
    BY <2>3, Quotient DEF IInv, ViewInv
  <2>5. ASSUME NEW p \in Pairs(pair[1].edges), NodeOf(p[1], cap) # NodeOf(p[2], cap)
        PROVE  <<NodeOf(p[1], cap), NodeOf(p[2], cap)>> \in Pairs(pair[2].edges)
    <3>1. PICK d \in pair[1].edges : p = <<d.source, d.target>>
      BY DEF Pairs
    <3>2. NodeOf(p[1], cap) = NodeOf(d.source, cap) /\ NodeOf(p[2], cap) = NodeOf(d.target, cap)
      BY <3>1
    <3> QED BY <2>4, <2>5, <3>2
  <2>6. ASSUME NEW n \in Ids(pair[1].nodes) PROVE NodeOf(n, cap) \in Ids(pair[2].nodes)
    <3> DEFINE Node(k) == [id |-> k, members |-> {i \in Ids(snapshot.sources) : NodeOf(i, cap) = k}]
    <3>1. PICK s \in snapshot.sources : n = s.id
      BY <2>3, <2>6 DEF SourceGraph, Ids
    <3>2. pair[2].nodes = {Node(k) : k \in {NodeOf(t.id, cap) : t \in snapshot.sources}}
      BY <2>3 DEF PackageGraph
    <3>3. Node(NodeOf(n, cap)).id = NodeOf(n, cap)
      OBVIOUS
    <3> HIDE DEF Node
    <3>4. Node(NodeOf(n, cap)) \in pair[2].nodes
      BY <3>1, <3>2
    <3> QED BY <3>3, <3>4 DEF Ids
  <2>7. PICK a \in f.members, b \in f.members : NodeOf(a, cap) # NodeOf(b, cap)
    <3>1. PICK n : n \in f.members
      <4>1. PICK n \in Ids(pair[1].nodes) :
              /\ <<n, n>> \in Reaches(Pairs(pair[1].edges))
              /\ f.members = {n} \cup {m \in Ids(pair[1].nodes) :
                                      {<<n, m>>, <<m, n>>} \subseteq Reaches(Pairs(pair[1].edges))}
        BY <2>2, CycleMembers, Zenon
      <4> QED BY <4>1
    <3>2. CASE \A a \in f.members : NodeOf(a, cap) = NodeOf(n, cap)
      <4>1. {NodeOf(i, cap) : i \in f.members} = {NodeOf(n, cap)}
        BY <3>1, <3>2
      <4>2. Cardinality({NodeOf(i, cap) : i \in f.members}) = 1
        BY <4>1, FS_Singleton
      <4> QED BY <4>2
    <3> QED BY <3>1, <3>2
  <2>8. \E c \in Cycles(pair[2]) : c.kind = "cycle" /\ \A i \in f.members : NodeOf(i, cap) \in c.members
    BY <2>2, <2>5, <2>6, <2>7, CycleIsGrouped
  <2> QED BY <2>2, <2>8
<1> QED BY <1>1, InductiveInvariant, PTL
-----------------------------------------------------------------------------
(* A view that shows more imports.                                         *)

\* the nodes are the same, and every edge is there with the evidence it has
Widens(h, g) ==
  /\ Ids(h.nodes) = Ids(g.nodes)
  /\ \A d \in g.edges : \E e \in h.edges :
       e.source = d.source /\ e.target = d.target /\ d.evidence \subseteq e.evidence

LEMMA WiderSource ==
  ASSUME NEW more, NEW facts \in SUBSET more
  PROVE  Widens(SourceGraph(more), SourceGraph(facts))
<1>1. SourceGraph(more).nodes = SourceGraph(facts).nodes
  BY DEF SourceGraph
<1>2. ASSUME NEW d \in SourceGraph(facts).edges
      PROVE  \E e \in SourceGraph(more).edges :
               e.source = d.source /\ e.target = d.target /\ d.evidence \subseteq e.evidence
  <2>1. \A o \in d.evidence : /\ o \in {e \in snapshot.dependencies : e.fact \in more}
                              /\ o.source = d.source /\ o.target = d.target
    BY SourceEdges
  <2>2. \A o \in d.evidence : \E e \in SourceGraph(more).edges :
          o \in e.evidence /\ e.source = d.source /\ e.target = d.target
    BY <2>1, SourceEdges
  <2>3. \A c, e \in SourceGraph(more).edges : c.source = e.source /\ c.target = e.target => c = e
    BY SourceEdges
  <2>4. d.evidence # {}
    BY SourceEdges
  <2> QED BY <2>2, <2>3, <2>4
<1> QED BY <1>1, <1>2 DEF Widens

\* A package view restores what the narrower one restores.
LEMMA MoreIsShown ==
  ASSUME NEW cap, NEW more, NEW facts \in SUBSET more
  PROVE  Shown(facts, cap) \subseteq Shown(more, cap)
BY DEF Shown, Across, Restored

LEMMA WiderPackage ==
  ASSUME NEW cap, NEW more, NEW facts \in SUBSET more
  PROVE  Widens(PackageGraph(SourceGraph(more), cap), PackageGraph(SourceGraph(facts), cap))
<1> DEFINE wide   == PackageGraph(SourceGraph(more), cap)
           narrow == PackageGraph(SourceGraph(facts), cap)
<1>1. wide.nodes = narrow.nodes
  BY DEF PackageGraph
<1>2. ASSUME NEW d \in narrow.edges
      PROVE  \E e \in wide.edges :
               e.source = d.source /\ e.target = d.target /\ d.evidence \subseteq e.evidence
  <2>1. \A o \in d.evidence :
          o \in Shown(more, cap) /\ NodeOf(o.source, cap) = d.source /\ NodeOf(o.target, cap) = d.target
    BY PackageEdges, MoreIsShown
  <2>2. \A o \in d.evidence : \E e \in wide.edges :
          o \in e.evidence /\ e.source = d.source /\ e.target = d.target
    BY <2>1, PackageEdges
  <2>3. \A c, e \in wide.edges : c.source = e.source /\ c.target = e.target => c = e
    BY PackageEdges
  <2>4. d.evidence # {}
    BY PackageEdges
  <2> QED BY <2>2, <2>3, <2>4
<1> QED BY <1>1, <1>2 DEF Widens

\* A graph that shows more joins the nodes of a cycle too, and is as sure of it.
LEMMA WiderFindsCycle ==
  ASSUME NEW g, NEW h, Widens(h, g), NEW f \in Cycles(g)
  PROVE  \E c \in Cycles(h) : /\ c.kind = "cycle" /\ f.members \subseteq c.members
                              /\ f.certainty = "definite" => c.certainty = "definite"
<1> DEFINE Reached(k)  == Reaches(Pairs(k.edges))
           Sure(k)     == Reaches(Pairs(Definite(k.edges)))
           Group(k, n) == {n} \cup {m \in Ids(k.nodes) : {<<n, m>>, <<m, n>>} \subseteq Reached(k)}
           Cycle(k, n) == [kind |-> "cycle", members |-> Group(k, n),
                           certainty |-> IF \E m \in Group(k, n) : <<m, m>> \in Sure(k)
                                         THEN "definite" ELSE "possible"]
<1>1. /\ Cycles(g) = {Cycle(g, n) : n \in {m \in Ids(g.nodes) : <<m, m>> \in Reached(g)}}
      /\ Cycles(h) = {Cycle(h, n) : n \in {m \in Ids(h.nodes) : <<m, m>> \in Reached(h)}}
  BY DEF Cycles
<1>2. Pairs(g.edges) \subseteq Pairs(h.edges) /\ Pairs(Definite(g.edges)) \subseteq Pairs(Definite(h.edges))
  BY DEF Pairs, Definite, Widens
<1>3. Reached(g) \subseteq Reached(h) /\ Sure(g) \subseteq Sure(h)
  BY <1>2, ReachesMonotone
<1>4. Ids(h.nodes) = Ids(g.nodes)
  BY DEF Widens
<1> HIDE DEF Reached, Sure
<1>5. PICK n \in {m \in Ids(g.nodes) : <<m, m>> \in Reached(g)} : f = Cycle(g, n)
  BY <1>1
<1>6. Group(g, n) \subseteq Group(h, n)
  BY <1>3, <1>4
<1>7. Cycle(h, n) \in Cycles(h)
  <2> HIDE DEF Cycle
  <2> QED BY <1>1, <1>3, <1>4, <1>5
<1>8. /\ Cycle(h, n).kind = "cycle" /\ f.members \subseteq Cycle(h, n).members
      /\ f.certainty = "definite" => Cycle(h, n).certainty = "definite"
  <2> HIDE DEF Group
  <2> QED BY <1>3, <1>5, <1>6
<1> QED BY <1>7, <1>8

\* Of two views compared, one shows all that the other does.
LEMMA NarrowingsShowLess ==
  ASSUME NEW n \in Narrowings
  PROVE  /\ n[1] \in SourceViews /\ n[2] \in SourceViews
         /\ \E more : \E facts \in SUBSET more :
              SourceView(n[1]) = SourceGraph(facts) /\ SourceView(n[2]) = SourceGraph(more)
<1> DEFINE Shows(base) == IF base = "structural" THEN Ids(snapshot.facts)
                          ELSE IF base = "non-typing" THEN Ids({f \in snapshot.facts : ~f.typingOnly})
                          ELSE Ids({f \in snapshot.facts : ~f.typingOnly /\ ~f.inFunction})
<1>1. \A base : SourceView(base) = SourceGraph(Shows(base))
  BY DEF SourceView, StructuralView, NonTypingView, ModuleBodyView
<1>2. \/ n[1] = "non-typing" /\ n[2] = "structural"
      \/ n[1] = "module-body" /\ n[2] = "structural"
      \/ n[1] = "module-body" /\ n[2] = "non-typing"
  BY DEF Narrowings
<1>3. Shows(n[1]) \subseteq Shows(n[2])
  BY <1>2 DEF Ids
<1>4. n[1] \in SourceViews /\ n[2] \in SourceViews
  BY <1>2 DEF SourceViews
<1> HIDE DEF Shows
<1> QED BY <1>1, <1>3, <1>4

LEMMA FilteredWiden ==
  ASSUME IInv, NEW pair \in Filtered
  PROVE  Widens(pair[2], pair[1])
<1>1. pair[1] \in reports /\ pair[2] \in reports
  BY DEF Filtered
<1> DEFINE cap == MaxDepth(ViewOf(pair[2].id))
<1>2. PICK n \in Narrowings :
        \/ pair[1].id = n[1] /\ pair[2].id = n[2]
        \/ /\ pair[1].id = PackageViewOf(n[1]) /\ pair[2].id = PackageViewOf(n[2])
           /\ cap = MaxDepth(ViewOf(pair[1].id))
  <2>1. \A m \in Narrowings : m = <<m[1], m[2]>>
    BY DEF Narrowings
  <2>2. CASE <<pair[1].id, pair[2].id>> \in Narrowings
    BY <2>2
  <2>3. CASE /\ \E n \in Narrowings : pair[1].id = PackageViewOf(n[1]) /\ pair[2].id = PackageViewOf(n[2])
             /\ MaxDepth(ViewOf(pair[1].id)) = MaxDepth(ViewOf(pair[2].id))
    BY <2>3
  <2> QED BY <2>2, <2>3 DEF Filtered
<1>3. n[1] \in SourceViews /\ n[2] \in SourceViews
  BY NarrowingsShowLess
<1>4. PICK more : \E facts \in SUBSET more :
        SourceView(n[1]) = SourceGraph(facts) /\ SourceView(n[2]) = SourceGraph(more)
  BY NarrowingsShowLess
<1>5. PICK facts \in SUBSET more :
        SourceView(n[1]) = SourceGraph(facts) /\ SourceView(n[2]) = SourceGraph(more)
  BY <1>4
<1>6. CASE pair[1].id = n[1] /\ pair[2].id = n[2]
  <2>1. /\ pair[1].nodes = SourceGraph(facts).nodes /\ pair[1].edges = SourceGraph(facts).edges
        /\ pair[2].nodes = SourceGraph(more).nodes /\ pair[2].edges = SourceGraph(more).edges
    BY <1>1, <1>3, <1>5, <1>6, ReservedAreBuilt
  <2> QED BY <2>1, WiderSource DEF Widens
<1>7. CASE /\ pair[1].id = PackageViewOf(n[1]) /\ pair[2].id = PackageViewOf(n[2])
           /\ cap = MaxDepth(ViewOf(pair[1].id))
  <2>1. /\ pair[1].nodes = PackageGraph(SourceGraph(facts), cap).nodes
        /\ pair[1].edges = PackageGraph(SourceGraph(facts), cap).edges
        /\ pair[2].nodes = PackageGraph(SourceGraph(more), cap).nodes
        /\ pair[2].edges = PackageGraph(SourceGraph(more), cap).edges
    BY <1>1, <1>3, <1>5, <1>7, ReservedAreBuilt
  <2> QED BY <2>1, WiderPackage DEF Widens
<1> QED BY <1>2, <1>6, <1>7

\* "A view that leaves more imports out finds no cycle that the wider view misses, and is no
\* surer of it", between source views and between package views of the same depth, for every
\* snapshot, registry and extension (StructuralView, NonTypingView, ModuleBodyView,
\* PackageView.transform, StrategyRegistry.for_run, CycleCheck.evaluate).
THEOREM FilteringKeepsGates == Spec => []FilteringFindsNothingNew
<1>1. IInv => FilteringFindsNothingNew
  <2> SUFFICES ASSUME IInv, NEW pair \in Filtered, NEW f \in Found(pair[1]),
                      f.kind = "cycle", "cycles" \in ChecksOf(pair[2].id)
               PROVE  \E g \in Found(pair[2]) :
                        /\ g.kind = "cycle" /\ f.members \subseteq g.members
                        /\ f.certainty = "definite" => g.certainty = "definite"
    BY DEF FilteringFindsNothingNew
  <2>1. pair[1] \in reports /\ pair[2] \in reports
    BY DEF Filtered
  <2>2. f \in Cycles(pair[1]) /\ Cycles(pair[2]) \subseteq Found(pair[2])
    BY <2>1 DEF IInv, ReportMatches
  <2>3. Widens(pair[2], pair[1])
    BY FilteredWiden
  <2>4. PICK c \in Cycles(pair[2]) : /\ c.kind = "cycle" /\ f.members \subseteq c.members
                                     /\ f.certainty = "definite" => c.certainty = "definite"
    BY <2>2, <2>3, WiderFindsCycle
  <2> QED BY <2>2, <2>4
<1> QED BY <1>1, InductiveInvariant, PTL
=============================================================================
