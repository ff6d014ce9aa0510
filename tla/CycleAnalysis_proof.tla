------------------------- MODULE CycleAnalysis_proof -------------------------
(***************************************************************************)
(* For every view and every graph: CycleAnalyzer reports exactly the nodes *)
(* that depend on themselves, its witness search always finds a closed     *)
(* simple cycle, and a finding is definite exactly when dependencies that  *)
(* are definite close a cycle, which its witness then shows.               *)
(***************************************************************************)
EXTENDS CycleAnalysis, CommonLemmas, SequenceTheorems, TLAPS

\* A definite finding has no possible dependency in its witness.
DefiniteWitness ==
  \A f \in findings : f.certainty = "definite" => CycleEdges(f.witness) \subseteq graph.definite

\* what the search relies on, step by step
SearchInv ==
  /\ graph \in Graphs
  /\ \A c \in todo : c # {} /\ c \subseteq Nodes
  /\ TypeOK
  /\ members # {} => tried \subseteq SearchEdges

WitnessInv == SearchInv /\ WitnessIsCycle /\ DefiniteWitness

\* a cyclic component is to be reported or has one finding, which names its definite members
ReportInv ==
  /\ graph \in Graphs
  /\ definiteCyclic = UNION CyclicComponents(graph.definite)
  /\ todo \cup {f.members : f \in findings} = CyclicComponents(graph.edges)
  /\ \A f \in findings :
       /\ f.members \notin todo
       /\ f.definiteMembers = DefiniteMembers(f.members)
       /\ f.certainty = "possible" => f.definiteMembers = {}
  /\ \A f, g \in findings : f.members = g.members => f = g

\* the search has followed no edge to its start, and all edges of each node it has left
TrailInv ==
  members # {} =>
    /\ path # <<>> /\ path[1] = StartOf(members)
    /\ \A e \in tried : /\ e[2] # StartOf(members)
                        /\ OnPath(e[2]) \/ Untried(e[2]) = {}

IInv == WitnessInv /\ ReportInv /\ TrailInv
-----------------------------------------------------------------------------
LEMMA LeastMember ==
  ASSUME NEW S \in SUBSET Nat, S # {}
  PROVE  Least(S) \in S
BY LeastElementExists DEF Least

\* What a part of a sequence consists of.
LEMMA Part ==
  ASSUME NEW S, NEW s \in Seq(S), NEW a \in 1 .. Len(s) + 1, NEW b \in 0 .. Len(s), a <= b + 1
  PROVE  LET part == SubSeq(s, a, b)
         IN /\ part \in Seq(S)
            /\ Len(part) = b - a + 1
            /\ DOMAIN part = 1 .. b - a + 1
            /\ \A k \in 1 .. b - a + 1 : part[k] = s[a + k - 1]
<1>1. \A k \in a .. b : s[k] \in S
  OBVIOUS
<1>2. /\ SubSeq(s, a, b) \in Seq(S)
      /\ Len(SubSeq(s, a, b)) = b - a + 1
      /\ \A k \in 1 .. b - a + 1 : SubSeq(s, a, b)[k] = s[a + k - 1]
  BY <1>1, SubSeqProperties
<1> QED BY <1>2

\* The search starts inside the component.
LEMMA StartInside ==
  ASSUME NEW c \in SUBSET Nodes, c # {}
  PROVE  StartOf(c) \in c
BY LeastMember, NodesAssumption DEF StartOf, DefiniteMembers

\* The searched dependencies lie inside the component.
LEMMA SearchEdgesInside ==
  SearchEdges \subseteq members \X members
BY DEF SearchEdges, Inside

\* The next head is reached by a searched dependency that has not been followed.
LEMMA NextHeadIsSuccessor ==
  ASSUME SearchInv, members # {}, path # <<>>, Untried(Current) # {}
  PROVE  /\ NextHead \in members
         /\ <<Current, NextHead>> \in SearchEdges
<1>1. members \subseteq Nodes
  BY DEF SearchInv, TypeOK
<1>2. Untried(Current) \subseteq members
  BY SearchEdgesInside DEF Untried
<1>3. NextHead \in Untried(Current)
  BY <1>1, <1>2, LeastMember, NodesAssumption DEF NextHead
<1>4. PICK e \in SearchEdges : e[1] = Current /\ e[2] = NextHead
  BY <1>3 DEF Untried
<1>5. e = <<Current, NextHead>>
  BY <1>4, SearchEdgesInside
<1> QED BY <1>2, <1>3, <1>4, <1>5

\* The searched dependencies are dependencies of the view, definite ones for a definite finding.
LEMMA SearchEdgesReal ==
  ASSUME graph \in Graphs
  PROVE  /\ SearchEdges \subseteq graph.edges
         /\ DefiniteMembers(members) # {} => SearchEdges \subseteq graph.definite
BY GraphsAssumption DEF SearchEdges, Inside

-----------------------------------------------------------------------------
(* Components                                                              *)

\* The members of a component are those that any of them leads to and that lead back to it.
LEMMA ComponentOf ==
  ASSUME NEW edges, NEW c \in Components(edges), NEW n \in c
  PROVE  c = {n} \cup {m \in Nodes : {<<n, m>>, <<m, n>>} \subseteq Reaches(edges)}
<1>1. PICK k \in Nodes : c = {k} \cup {m \in Nodes : {<<k, m>>, <<m, k>>} \subseteq Reaches(edges)}
  BY DEF Components
<1>2. n = k \/ {<<k, n>>, <<n, k>>} \subseteq Reaches(edges)
  BY <1>1
<1>3. n \in Nodes
  BY <1>1
<1>4. ASSUME NEW m \in c PROVE m = n \/ {<<n, m>>, <<m, n>>} \subseteq Reaches(edges)
  <2>1. m = k \/ {<<k, m>>, <<m, k>>} \subseteq Reaches(edges)
    BY <1>1
  <2> QED BY <2>1, <1>2, ReachesTransitive
<1>5. ASSUME NEW m \in Nodes, {<<n, m>>, <<m, n>>} \subseteq Reaches(edges) PROVE m \in c
  <2>1. m = k \/ {<<k, m>>, <<m, k>>} \subseteq Reaches(edges)
    BY <1>2, <1>5, ReachesTransitive
  <2> QED BY <2>1, <1>1
<1> QED BY <1>1, <1>4, <1>5

\* Two members of a component lie on a common cycle.
LEMMA MembersReach ==
  ASSUME NEW edges, NEW c \in Components(edges), NEW n \in c, NEW m \in c, n # m
  PROVE  <<n, m>> \in Reaches(edges) /\ <<m, n>> \in Reaches(edges) /\ <<n, n>> \in Reaches(edges)
<1>1. <<n, m>> \in Reaches(edges) /\ <<m, n>> \in Reaches(edges)
  BY ComponentOf
<1> QED BY <1>1, ReachesTransitive

\* A component of one member has size one.
LEMMA OneMember ==
  ASSUME NEW edges, NEW c \in Components(edges), NEW n \in c, Cardinality(c) > 1
  PROVE  \E m \in c : m # n
<1>1. CASE c = {n}
  BY <1>1, FS_Singleton
<1> QED BY <1>1

LEMMA SeveralMembers ==
  ASSUME NEW edges, NEW c \in Components(edges), NEW n \in c, NEW m \in c, n # m
  PROVE  Cardinality(c) > 1
<1>1. c \subseteq Nodes
  BY DEF Components
<1>2. IsFiniteSet(c)
  BY <1>1, NodesAssumption, FS_Subset
<1>3. Cardinality({n, m}) = 2
  <2>1. IsFiniteSet({n}) /\ Cardinality({n}) = 1
    BY FS_Singleton
  <2>2. Cardinality({n} \cup {m}) = 2
    BY <2>1, FS_AddElement
  <2>3. {n} \cup {m} = {n, m}
    OBVIOUS
  <2> QED BY <2>2, <2>3
<1>4. Cardinality({n, m}) <= Cardinality(c)
  BY <1>2, FS_Subset
<1>5. Cardinality(c) \in Nat
  BY <1>2, FS_CardinalityType
<1> QED BY <1>3, <1>4, <1>5

\* The cyclic components hold exactly the nodes that lead to themselves.
LEMMA CyclicNodes ==
  ASSUME NEW edges \in SUBSET (Nodes \X Nodes), NEW n
  PROVE  <<n, n>> \in Reaches(edges) <=> \E c \in CyclicComponents(edges) : n \in c
<1>1. ASSUME NEW c \in CyclicComponents(edges), n \in c
      PROVE  <<n, n>> \in Reaches(edges)
  <2>1. c \in Components(edges)
    BY DEF CyclicComponents
  <2>2. ASSUME NEW m \in c, m # n PROVE <<n, n>> \in Reaches(edges)
    BY <2>1, <2>2, <1>1, MembersReach
  <2>3. CASE Cardinality(c) > 1
    BY <2>1, <2>2, <2>3, <1>1, OneMember
  <2>4. CASE \E l \in c : <<l, l>> \in edges
    BY <2>2, <2>4, EdgeReaches
  <2> QED BY <2>3, <2>4 DEF CyclicComponents
<1>2. ASSUME <<n, n>> \in Reaches(edges)
      PROVE  \E c \in CyclicComponents(edges) : n \in c
  <2> DEFINE c == {n} \cup {m \in Nodes : {<<n, m>>, <<m, n>>} \subseteq Reaches(edges)}
  <2>1. PICK s \in Successors(edges, n) : s = n \/ <<s, n>> \in Reaches(edges)
    BY <1>2, FirstEdge
  <2>2. <<n, s>> \in edges /\ n \in Nodes /\ s \in Nodes
    BY <2>1 DEF Successors
  <2>3. c \in Components(edges) /\ n \in c
    BY <2>2 DEF Components
  <2>4. s \in c
    BY <2>1, <2>2, EdgeReaches
  <2> HIDE DEF c
  <2>5. Cardinality(c) > 1 \/ \E l \in c : <<l, l>> \in edges
    BY <2>2, <2>3, <2>4, SeveralMembers
  <2> QED BY <2>3, <2>5 DEF CyclicComponents
<1> QED BY <1>1, <1>2

\* Components are disjoint.
LEMMA ComponentsDisjoint ==
  ASSUME NEW edges, NEW c \in CyclicComponents(edges), NEW d \in CyclicComponents(edges),
         NEW n \in c, n \in d
  PROVE  c = d
<1>1. c \in Components(edges) /\ d \in Components(edges)
  BY DEF CyclicComponents
<1>2. /\ c = {n} \cup {m \in Nodes : {<<n, m>>, <<m, n>>} \subseteq Reaches(edges)}
      /\ d = {n} \cup {m \in Nodes : {<<n, m>>, <<m, n>>} \subseteq Reaches(edges)}
  BY <1>1, ComponentOf
<1> QED BY <1>2

\* The start lies on a cycle of the dependencies that are searched.
LEMMA StartOnCycle ==
  ASSUME SearchInv, ReportInv, members # {}
  PROVE  <<StartOf(members), StartOf(members)>> \in Reaches(SearchEdges)
<1> DEFINE start == StartOf(members)
           some  == IF DefiniteMembers(members) # {} THEN graph.definite ELSE graph.edges
<1>1. /\ graph.edges \in SUBSET (Nodes \X Nodes) /\ graph.definite \subseteq graph.edges
      /\ members \in CyclicComponents(graph.edges)
      /\ members \in SUBSET Nodes
  BY GraphsAssumption DEF SearchInv, ReportInv, TypeOK
<1>2. start \in members
  BY <1>1, StartInside
<1>3. <<start, start>> \in Reaches(some)
  <2>1. CASE DefiniteMembers(members) # {}
    <3>1. DefiniteMembers(members) \in SUBSET Nat
      BY <1>1, NodesAssumption DEF DefiniteMembers
    <3>2. start \in definiteCyclic
      BY <2>1, <3>1, LeastMember DEF StartOf, DefiniteMembers
    <3>3. \E c \in CyclicComponents(graph.definite) : start \in c
      BY <3>2 DEF ReportInv
    <3>4. graph.definite \in SUBSET (Nodes \X Nodes)
      BY <1>1
    <3> QED BY <2>1, <3>3, <3>4, CyclicNodes
  <2>2. CASE DefiniteMembers(members) = {}
    BY <2>2, <1>1, <1>2, CyclicNodes
  <2> QED BY <2>1, <2>2
<1>4. \A b : <<start, b>> \in Reaches(graph.edges) /\ <<b, start>> \in Reaches(graph.edges) => b \in members
  <2> SUFFICES ASSUME NEW b, <<start, b>> \in Reaches(graph.edges), <<b, start>> \in Reaches(graph.edges)
               PROVE  b \in members
    OBVIOUS
  <2>1. b \in Ends(graph.edges)
    BY ReachesEnds
  <2>2. b \in Nodes
    BY <2>1, <1>1 DEF Ends
  <2>3. members \in Components(graph.edges)
    BY <1>1 DEF CyclicComponents
  <2>4. members = {start} \cup {m \in Nodes : {<<start, m>>, <<m, start>>} \subseteq Reaches(graph.edges)}
    BY <2>3, <1>2, ComponentOf
  <2> QED BY <2>2, <2>4
<1>5. some \in SUBSET graph.edges
  BY <1>1
<1>6. SearchEdges = some \cap (members \X members)
  BY DEF SearchEdges, Inside
<1> HIDE DEF start, some
<1>7. <<start, start>> \in Reaches(some \cap (members \X members))
  <2>1. \A e \in graph.edges : e = <<e[1], e[2]>>
    BY <1>1
  <2> QED BY <2>1, <1>2, <1>3, <1>4, <1>5, CycleStaysInside
<1> QED BY <1>6, <1>7 DEF start
-----------------------------------------------------------------------------
(* Every step keeps the invariant.                                       *)

LEMMA InitWitness == Init => WitnessInv
<1> SUFFICES ASSUME Init PROVE WitnessInv
  OBVIOUS
<1>1. \A c \in todo : c # {} /\ c \subseteq Nodes
  BY DEF Init, CyclicComponents, Components
<1>2. TypeOK
  BY DEF Init, TypeOK, Distinct
<1> QED BY <1>1, <1>2 DEF Init, WitnessInv, SearchInv, WitnessIsCycle, DefiniteWitness

LEMMA StartKeepsWitness ==
  ASSUME WitnessInv, StartSearch
  PROVE  WitnessInv'
<1>1. PICK c \in todo : members' = c /\ path' = <<StartOf(c)>>
  BY DEF StartSearch
<1>2. c # {} /\ c \subseteq Nodes /\ StartOf(c) \in c
  BY StartInside DEF WitnessInv, SearchInv
<1>3. tried' = {} /\ UNCHANGED <<graph, definiteCyclic, todo, findings>>
  BY DEF StartSearch
<1>4. TypeOK'
  BY <1>1, <1>2, <1>3 DEF TypeOK, Distinct
<1>5. WitnessIsCycle' /\ DefiniteWitness'
  BY <1>3 DEF WitnessInv, WitnessIsCycle, DefiniteWitness
<1> QED BY <1>3, <1>4, <1>5 DEF WitnessInv, SearchInv

\* Following a dependency extends the path by a member that was not on it.
LEMMA FollowKeepsWitness ==
  ASSUME WitnessInv, Follow
  PROVE  WitnessInv'
<1>1. /\ path # <<>> /\ ~OnPath(NextHead)
      /\ path' = Append(path, NextHead)
      /\ tried' = tried \cup {<<Current, NextHead>>}
      /\ UNCHANGED <<graph, definiteCyclic, todo, members, findings>>
  BY DEF Follow
<1>2. members # {} /\ path \in Seq(members) /\ SearchInv
  BY <1>1 DEF WitnessInv, SearchInv, TypeOK
<1>3. NextHead \in members /\ <<Current, NextHead>> \in SearchEdges
  BY <1>2, NextHeadIsSuccessor DEF Follow
<1>4. SearchEdges' = SearchEdges
  BY <1>1 DEF SearchEdges, DefiniteMembers
<1>5. tried' \subseteq SearchEdges' /\ tried' \subseteq graph'.edges
  BY <1>1, <1>2, <1>3, <1>4, SearchEdgesReal DEF SearchInv
<1>6. path' \in Seq(members') /\ Distinct(path')
  <2>1. Distinct(path) /\ path' \in Seq(members)
    BY <1>1, <1>2, <1>3 DEF SearchInv, TypeOK
  <2>2. \A i \in DOMAIN path : path'[i] = path[i] /\ path[i] # NextHead
    BY <1>1, <1>2, <1>3 DEF OnPath
  <2>3. DOMAIN path' = DOMAIN path \cup {Len(path) + 1} /\ path'[Len(path) + 1] = NextHead
    BY <1>1, <1>2, <1>3
  <2>4. Distinct(path')
    BY <2>1, <2>2, <2>3 DEF Distinct
  <2> QED BY <2>1, <2>4, <1>1
<1>7. \A i \in 1 .. Len(path') - 1 : <<path'[i], path'[i + 1]>> \in tried'
  <2> TAKE i \in 1 .. Len(path') - 1
  <2>1. Len(path') = Len(path) + 1 /\ Len(path) \in Nat \ {0}
    BY <1>1, <1>2, <1>3
  <2>2. CASE i = Len(path)
    BY <2>2, <1>1, <1>2, <1>3 DEF Current
  <2>3. CASE i # Len(path)
    <3>1. <<path[i], path[i + 1]>> \in tried
      BY <2>1, <2>3, <1>2 DEF SearchInv, TypeOK
    <3>2. path'[i] = path[i] /\ path'[i + 1] = path[i + 1]
      BY <2>1, <2>3, <1>1, <1>2, <1>3
    <3> QED BY <3>1, <3>2, <1>1
  <2> QED BY <2>2, <2>3
<1>8. TypeOK'
  BY <1>1, <1>2, <1>5, <1>6, <1>7 DEF SearchInv, TypeOK
<1>9. WitnessIsCycle' /\ DefiniteWitness'
  BY <1>1 DEF WitnessInv, WitnessIsCycle, DefiniteWitness
<1> QED BY <1>1, <1>5, <1>8, <1>9 DEF WitnessInv, SearchInv

LEMMA BacktrackKeepsWitness ==
  ASSUME WitnessInv, Backtrack
  PROVE  WitnessInv'
<1>1. /\ path # <<>>
      /\ path' = SubSeq(path, 1, Len(path) - 1)
      /\ UNCHANGED <<graph, definiteCyclic, todo, members, tried, findings>>
  BY DEF Backtrack
<1>2. members # {} /\ path \in Seq(members) /\ SearchInv
  BY <1>1 DEF WitnessInv, SearchInv, TypeOK
<1>3. /\ path' \in Seq(members)
      /\ Len(path') = Len(path) - 1
      /\ \A i \in 1 .. Len(path) - 1 : path'[i] = path[i]
  <2> DEFINE n == Len(path) - 1
  <2>1. n \in 0 .. Len(path) /\ 1 \in 1 .. Len(path) + 1 /\ 1 <= n + 1 /\ n - 1 + 1 = n
    BY <1>1, <1>2
  <2>2. \A i \in 1 .. n : 1 + i - 1 = i
    BY <2>1
  <2> HIDE DEF n
  <2>3. /\ SubSeq(path, 1, n) \in Seq(members)
        /\ Len(SubSeq(path, 1, n)) = n - 1 + 1
        /\ \A k \in 1 .. n - 1 + 1 : SubSeq(path, 1, n)[k] = path[1 + k - 1]
    BY <2>1, <1>2, Part
  <2>4. path' = SubSeq(path, 1, n)
    BY <1>1 DEF n
  <2>5. path' \in Seq(members) /\ Len(path') = n /\ \A i \in 1 .. n : path'[i] = path[i]
    BY <2>1, <2>2, <2>3, <2>4
  <2> QED BY <2>5 DEF n
<1>4. Distinct(path')
  BY <1>2, <1>3 DEF SearchInv, TypeOK, Distinct
<1>5. \A i \in 1 .. Len(path') - 1 : <<path'[i], path'[i + 1]>> \in tried'
  BY <1>1, <1>2, <1>3 DEF SearchInv, TypeOK
<1>6. TypeOK'
  BY <1>1, <1>2, <1>3, <1>4, <1>5 DEF SearchInv, TypeOK
<1>7. SearchEdges' = SearchEdges
  BY <1>1 DEF SearchEdges, DefiniteMembers
<1>8. WitnessIsCycle' /\ DefiniteWitness'
  BY <1>1 DEF WitnessInv, WitnessIsCycle, DefiniteWitness
<1> QED BY <1>1, <1>2, <1>6, <1>7, <1>8 DEF WitnessInv, SearchInv

\* The part of a simple path from one of its nodes on, closed by a searched dependency back
\* to that node, is a simple cycle.
LEMMA CutIsCycle ==
  ASSUME SearchInv, members # {}, path # <<>>, Untried(Current) # {},
         NEW i \in DOMAIN path, path[i] = NextHead
  PROVE  LET w == SubSeq(path, i, Len(path))
         IN /\ w # <<>> /\ w \in Seq(members) /\ Distinct(w)
            /\ CycleEdges(w) \subseteq SearchEdges
<1> DEFINE w == SubSeq(path, i, Len(path))
<1>1. path \in Seq(members) /\ Distinct(path) /\ tried \subseteq SearchEdges
  BY DEF SearchInv, TypeOK
<1>2. /\ w \in Seq(members)
      /\ Len(w) = Len(path) - i + 1
      /\ DOMAIN w = 1 .. Len(w)
      /\ \A k \in 1 .. Len(w) : w[k] = path[i + k - 1] /\ i + k - 1 \in DOMAIN path
  <2>1. Len(path) \in 0 .. Len(path) /\ i \in 1 .. Len(path)
    BY <1>1
  <2> QED BY <2>1, <1>1, Part
<1> HIDE DEF w
<1>3. w # <<>> /\ Len(w) >= 1 /\ Len(w) \in Nat
  BY <1>1, <1>2
<1>4. Distinct(w)
  <2> SUFFICES ASSUME NEW j \in DOMAIN w, NEW k \in DOMAIN w, w[j] = w[k]
               PROVE  j = k
    BY DEF Distinct
  <2>1. path[i + j - 1] = path[i + k - 1]
    BY <1>2, <1>3
  <2>2. i + j - 1 = i + k - 1
    BY <2>1, <1>1, <1>2, <1>3 DEF Distinct
  <2> QED BY <2>2, <1>1, <1>3
<1>5. ASSUME NEW k \in DOMAIN w
      PROVE  <<w[k], IF k = Len(w) THEN w[1] ELSE w[k + 1]>> \in SearchEdges
  <2>1. CASE k = Len(w)
    <3>1. w[1] = NextHead /\ w[k] = Current
      BY <2>1, <1>1, <1>2, <1>3 DEF Current
    <3> QED BY <3>1, <2>1, NextHeadIsSuccessor
  <2>2. CASE k # Len(w)
    <3>1. w[k] = path[i + k - 1] /\ w[k + 1] = path[(i + k - 1) + 1]
      <4>1. k \in 1 .. Len(w) /\ k + 1 \in 1 .. Len(w)
        BY <2>2, <1>2, <1>3
      <4>2. i + (k + 1) - 1 = (i + k - 1) + 1
        BY <4>1, <1>1
      <4> QED BY <4>1, <4>2, <1>2
    <3>2. i + k - 1 \in 1 .. Len(path) - 1
      BY <2>2, <1>1, <1>2, <1>3
    <3>3. <<w[k], w[k + 1]>> \in tried
      BY <3>1, <3>2 DEF SearchInv, TypeOK
    <3> QED BY <3>3, <2>2, <1>1
  <2> QED BY <2>1, <2>2
<1>6. CycleEdges(w) \subseteq SearchEdges
  BY <1>5 DEF CycleEdges
<1> QED BY <1>2, <1>3, <1>4, <1>6 DEF w

LEMMA CloseKeepsWitness ==
  ASSUME WitnessInv, Close
  PROVE  WitnessInv'
<1>1. PICK i \in DOMAIN path :
        /\ path[i] = NextHead
        /\ findings' = findings \cup {Finding(SubSeq(path, i, Len(path)))}
  BY DEF Close
<1>2. /\ path # <<>> /\ Untried(Current) # {}
      /\ todo' = todo \ {members} /\ members' = {} /\ path' = <<>>
      /\ UNCHANGED <<graph, definiteCyclic, tried>>
  BY DEF Close
<1>3. members # {} /\ SearchInv
  BY <1>2 DEF WitnessInv, SearchInv, TypeOK
<1> DEFINE w == SubSeq(path, i, Len(path))
<1>4. /\ w # <<>> /\ w \in Seq(members) /\ Distinct(w)
      /\ CycleEdges(w) \subseteq SearchEdges
  BY <1>1, <1>2, <1>3, CutIsCycle
<1>5. /\ CycleEdges(w) \subseteq graph.edges
      /\ DefiniteMembers(members) # {} => CycleEdges(w) \subseteq graph.definite
  BY <1>3, <1>4, SearchEdgesReal DEF SearchInv
<1> HIDE DEF w
<1>6. findings' = findings \cup {Finding(w)}
  BY <1>1 DEF w
<1>7. /\ Finding(w).members = members /\ Finding(w).witness = w
      /\ Finding(w).certainty = "definite" => DefiniteMembers(members) # {}
  BY DEF Finding
<1>8. WitnessIsCycle'
  BY <1>2, <1>4, <1>5, <1>6, <1>7 DEF WitnessInv, WitnessIsCycle
<1>9. DefiniteWitness'
  BY <1>2, <1>5, <1>6, <1>7 DEF WitnessInv, DefiniteWitness
<1>10. TypeOK'
  BY <1>2, <1>3 DEF SearchInv, TypeOK, Distinct
<1> QED BY <1>2, <1>3, <1>8, <1>9, <1>10 DEF WitnessInv, SearchInv

-----------------------------------------------------------------------------
(* What has been reported, and where the search has been.                  *)

\* Only the end of a search changes what has been reported.
LEMMA ReportStays ==
  ASSUME ReportInv, UNCHANGED <<graph, definiteCyclic, todo, findings>>
  PROVE  ReportInv'
BY DEF ReportInv, DefiniteMembers

LEMMA CloseKeepsReport ==
  ASSUME IInv, Close
  PROVE  ReportInv'
<1>1. PICK i \in DOMAIN path : findings' = findings \cup {Finding(SubSeq(path, i, Len(path)))}
  BY DEF Close
<1>2. path # <<>> /\ todo' = todo \ {members} /\ UNCHANGED <<graph, definiteCyclic>>
  BY DEF Close
<1>3. members \in todo
  BY <1>2 DEF IInv, WitnessInv, SearchInv, TypeOK
<1> DEFINE new == Finding(SubSeq(path, i, Len(path)))
<1>4. /\ new.members = members
      /\ new.definiteMembers = DefiniteMembers(members)
      /\ new.certainty = "possible" => DefiniteMembers(members) = {}
  BY DEF Finding
<1>5. findings' = findings \cup {new}
  BY <1>1
<1> HIDE DEF new
<1>6. /\ todo \cup {f.members : f \in findings} = CyclicComponents(graph.edges)
      /\ \A f \in findings : f.members # members
  BY <1>3 DEF IInv, ReportInv
<1>7. {f.members : f \in findings'} = {f.members : f \in findings} \cup {members}
  BY <1>4, <1>5
<1>8. todo' \cup {f.members : f \in findings'} = CyclicComponents(graph'.edges)
  BY <1>2, <1>3, <1>6, <1>7
<1>9. \A f \in findings' :
        /\ f.members \notin todo'
        /\ f.definiteMembers = DefiniteMembers(f.members)'
        /\ f.certainty = "possible" => f.definiteMembers = {}
  <2> TAKE f \in findings'
  <2>1. CASE f \in findings
    BY <2>1, <1>2 DEF IInv, ReportInv, DefiniteMembers
  <2>2. CASE f = new
    BY <2>2, <1>2, <1>4 DEF DefiniteMembers
  <2> QED BY <2>1, <2>2, <1>5
<1>10. \A f, g \in findings' : f.members = g.members => f = g
  BY <1>4, <1>5, <1>6 DEF IInv, ReportInv
<1> QED BY <1>2, <1>8, <1>9, <1>10 DEF IInv, ReportInv

LEMMA FollowKeepsTrail ==
  ASSUME IInv, Follow
  PROVE  TrailInv'
<1>1. /\ path # <<>>
      /\ path' = Append(path, NextHead)
      /\ tried' = tried \cup {<<Current, NextHead>>}
      /\ UNCHANGED <<graph, definiteCyclic, members>>
      /\ ~OnPath(NextHead) /\ Untried(Current) # {}
  BY DEF Follow
<1>2. members # {} /\ path \in Seq(members) /\ SearchInv
  BY <1>1 DEF IInv, WitnessInv, SearchInv, TypeOK
<1>3. NextHead \in members
  BY <1>1, <1>2, NextHeadIsSuccessor
<1>4. /\ Len(path) \in Nat \ {0} /\ DOMAIN path = 1 .. Len(path)
      /\ DOMAIN path' = 1 .. Len(path) + 1
      /\ \A i \in DOMAIN path : path'[i] = path[i]
      /\ path'[Len(path) + 1] = NextHead
      /\ path' # <<>>
  BY <1>1, <1>2, <1>3
<1>5. path'[1] = StartOf(members) /\ path[1] = StartOf(members)
  BY <1>2, <1>4 DEF IInv, TrailInv
<1>6. NextHead # StartOf(members)
  BY <1>1, <1>4, <1>5 DEF OnPath
<1>7. StartOf(members)' = StartOf(members) /\ SearchEdges' = SearchEdges
  BY <1>1 DEF StartOf, DefiniteMembers, SearchEdges
<1>8. \A n : (OnPath(n) => OnPath(n)') /\ (Untried(n) = {} => Untried(n)' = {})
  <2> TAKE n
  <2>1. ASSUME NEW i \in DOMAIN path, path[i] = n
        PROVE  OnPath(n)'
    <3>1. i \in DOMAIN path' /\ path'[i] = n
      BY <2>1, <1>4
    <3> QED BY <3>1 DEF OnPath
  <2>2. Untried(n)' \subseteq Untried(n)
    BY <1>1, <1>7 DEF Untried
  <2> QED BY <2>1, <2>2 DEF OnPath
<1>9. \A n : n = NextHead => OnPath(n)'
  <2> TAKE n
  <2>1. Len(path) + 1 \in DOMAIN path' /\ path'[Len(path) + 1] = NextHead
    BY <1>4
  <2> QED BY <2>1 DEF OnPath
<1>10. \A e \in tried' : e[2] # StartOf(members) /\ (OnPath(e[2])' \/ Untried(e[2])' = {})
  <2> TAKE e \in tried'
  <2>1. CASE e \in tried
    BY <2>1, <1>2, <1>8 DEF IInv, TrailInv
  <2>2. CASE e = <<Current, NextHead>>
    BY <2>2, <1>6, <1>9
  <2> QED BY <2>1, <2>2, <1>1
<1> QED BY <1>4, <1>5, <1>7, <1>10 DEF TrailInv

\* The search does not give up: what its followed edges lead to would be closed, and the
\* start, which lies on a cycle, outside of it.
LEMMA StartIsKept ==
  ASSUME IInv, Backtrack
  PROVE  Len(path) # 1
<1>1. path # <<>> /\ Untried(Current) = {}
  BY DEF Backtrack
<1>2. members # {} /\ path \in Seq(members) /\ SearchInv
  BY <1>1 DEF IInv, WitnessInv, SearchInv, TypeOK
<1>3. SUFFICES ASSUME Len(path) = 1
               PROVE  FALSE
  OBVIOUS
<1> DEFINE heads == {e[2] : e \in tried}
<1>4. Current = StartOf(members) /\ \A i \in DOMAIN path : path[i] = StartOf(members)
  BY <1>2, <1>3 DEF IInv, TrailInv, Current
<1>5. \A n : n = StartOf(members) \/ n \in heads => Untried(n) = {}
  BY <1>1, <1>2, <1>4 DEF IInv, TrailInv, OnPath
<1>6. ASSUME NEW e \in SearchEdges, e[1] = StartOf(members) \/ e[1] \in heads
      PROVE  e[2] \in heads
  <2>1. Untried(e[1]) = {}
    BY <1>5, <1>6
  <2>2. e \in tried
    BY <2>1 DEF Untried
  <2> QED BY <2>2
<1>7. Closed(heads, SearchEdges) /\ Successors(SearchEdges, StartOf(members)) \subseteq heads
  BY <1>6 DEF Closed, Successors
<1>8. StartOf(members) \notin heads
  BY <1>2 DEF IInv, TrailInv
<1>9. <<StartOf(members), StartOf(members)>> \in Reaches(SearchEdges)
  BY <1>2, StartOnCycle DEF IInv
<1> QED BY <1>7, <1>8, <1>9, StaysInside

LEMMA BacktrackKeepsTrail ==
  ASSUME IInv, Backtrack
  PROVE  TrailInv'
<1>1. /\ path # <<>> /\ Untried(Current) = {}
      /\ path' = SubSeq(path, 1, Len(path) - 1)
      /\ UNCHANGED <<graph, definiteCyclic, members, tried>>
  BY DEF Backtrack
<1>2. members # {} /\ path \in Seq(members)
  BY <1>1 DEF IInv, WitnessInv, SearchInv, TypeOK
<1> DEFINE n == Len(path) - 1
<1>3. /\ n \in Nat \ {0} /\ n \in 0 .. Len(path) /\ 1 \in 1 .. Len(path) + 1 /\ 1 <= n + 1
      /\ n - 1 + 1 = n /\ DOMAIN path = 1 .. n + 1 /\ \A i \in 1 .. n : 1 + i - 1 = i
  BY <1>1, <1>2, StartIsKept
<1>4. path' = SubSeq(path, 1, n) /\ Current = path[n + 1]
  BY <1>1, <1>2 DEF Current
<1> HIDE DEF n
<1>5. /\ DOMAIN SubSeq(path, 1, n) = 1 .. n - 1 + 1
      /\ SubSeq(path, 1, n) \in Seq(members) /\ Len(SubSeq(path, 1, n)) = n - 1 + 1
      /\ \A k \in 1 .. n - 1 + 1 : SubSeq(path, 1, n)[k] = path[1 + k - 1]
  BY <1>2, <1>3, Part
<1>6. DOMAIN path' = 1 .. n /\ path' # <<>> /\ \A i \in 1 .. n : path'[i] = path[i]
  BY <1>3, <1>4, <1>5
<1>7. path'[1] = StartOf(members)
  BY <1>2, <1>3, <1>6 DEF IInv, TrailInv
<1>8. StartOf(members)' = StartOf(members) /\ SearchEdges' = SearchEdges
  BY <1>1 DEF StartOf, DefiniteMembers, SearchEdges
<1>9. \A m : /\ Untried(m)' = Untried(m)
             /\ OnPath(m) => OnPath(m)' \/ m = Current
  <2> TAKE m
  <2>1. Untried(m)' = Untried(m)
    BY <1>1, <1>8 DEF Untried
  <2>2. ASSUME NEW i \in DOMAIN path, path[i] = m, m # Current
        PROVE  OnPath(m)'
    <3>1. i \in DOMAIN path' /\ path'[i] = m
      BY <2>2, <1>3, <1>4, <1>6
    <3> QED BY <3>1 DEF OnPath
  <2> QED BY <2>1, <2>2 DEF OnPath
<1>10. \A e \in tried' : e[2] # StartOf(members) /\ (OnPath(e[2])' \/ Untried(e[2])' = {})
  BY <1>1, <1>2, <1>9 DEF IInv, TrailInv
<1> QED BY <1>6, <1>7, <1>8, <1>10 DEF TrailInv

LEMMA StartKeepsTrail ==
  ASSUME StartSearch
  PROVE  TrailInv'
<1>1. PICK c \in todo : members' = c /\ path' = <<StartOf(c)>>
  BY DEF StartSearch
<1>2. tried' = {} /\ StartOf(members)' = StartOf(c)
  BY <1>1 DEF StartSearch, StartOf, DefiniteMembers
<1> QED BY <1>1, <1>2 DEF TrailInv

-----------------------------------------------------------------------------
LEMMA InitInv == Init => IInv
<1> SUFFICES ASSUME Init PROVE IInv
  OBVIOUS
<1>1. ReportInv /\ TrailInv
  BY DEF Init, ReportInv, TrailInv
<1> QED BY <1>1, InitWitness DEF IInv

LEMMA NextPreserves == IInv /\ [Next]_vars => IInv'
<1> SUFFICES ASSUME IInv, [Next]_vars PROVE IInv'
  OBVIOUS
<1>1. CASE StartSearch
  <2>1. WitnessInv'
    BY <1>1, StartKeepsWitness DEF IInv
  <2>2. ReportInv'
    BY <1>1, ReportStays DEF IInv, StartSearch
  <2> QED BY <1>1, <2>1, <2>2, StartKeepsTrail DEF IInv
<1>2. CASE Follow
  <2>1. WitnessInv'
    BY <1>2, FollowKeepsWitness DEF IInv
  <2>2. ReportInv'
    BY <1>2, ReportStays DEF IInv, Follow
  <2> QED BY <1>2, <2>1, <2>2, FollowKeepsTrail DEF IInv
<1>3. CASE Backtrack
  <2>1. WitnessInv'
    BY <1>3, BacktrackKeepsWitness DEF IInv
  <2>2. ReportInv'
    BY <1>3, ReportStays DEF IInv, Backtrack
  <2> QED BY <1>3, <2>1, <2>2, BacktrackKeepsTrail DEF IInv
<1>4. CASE Close
  <2>1. WitnessInv'
    BY <1>4, CloseKeepsWitness DEF IInv
  <2>2. ReportInv'
    BY <1>4, CloseKeepsReport
  <2>3. TrailInv'
    BY <1>4 DEF Close, TrailInv
  <2> QED BY <2>1, <2>2, <2>3 DEF IInv
<1>5. CASE UNCHANGED vars
  <2>1. WitnessInv'
    BY <1>5 DEF vars, IInv, WitnessInv, SearchInv, TypeOK, WitnessIsCycle, DefiniteWitness,
                SearchEdges, DefiniteMembers
  <2>2. ReportInv'
    BY <1>5, ReportStays DEF IInv, vars
  <2>3. TrailInv'
    BY <1>5 DEF vars, IInv, TrailInv, OnPath, Untried, SearchEdges, StartOf, DefiniteMembers
  <2> QED BY <2>1, <2>2, <2>3 DEF IInv
<1> QED BY <1>1, <1>2, <1>3, <1>4, <1>5 DEF Next

\* What the findings say of certainty follows from the invariant.
LEMMA InvGivesCertainty == IInv => CertaintyIsWitnessed
<1> SUFFICES ASSUME IInv, NEW f \in findings, f.certainty = "possible", NEW n \in f.members
             PROVE  <<n, n>> \notin Reaches(graph.definite)
  BY DEF IInv, WitnessInv, DefiniteWitness, CertaintyIsWitnessed
<1>1. n \notin definiteCyclic
  BY DEF IInv, ReportInv, DefiniteMembers
<1>2. ~ \E c \in CyclicComponents(graph.definite) : n \in c
  BY <1>1 DEF IInv, ReportInv
<1>3. graph.definite \in SUBSET (Nodes \X Nodes)
  BY GraphsAssumption DEF IInv, ReportInv
<1> QED BY <1>2, <1>3, CyclicNodes

LEMMA InvGivesReport == IInv => EveryCycleReported
<1> SUFFICES ASSUME IInv, Done, NEW n \in Nodes
             PROVE  /\ <<n, n>> \in Reaches(graph.edges) <=> \E f \in findings : n \in f.members
                    /\ <<n, n>> \in Reaches(graph.definite) <=> \E f \in findings : n \in f.definiteMembers
                    /\ \A f, g \in findings : n \in f.members \cap g.members => f = g
  BY DEF EveryCycleReported
<1>1. graph.edges \in SUBSET (Nodes \X Nodes) /\ graph.definite \in SUBSET graph.edges
  BY GraphsAssumption DEF IInv, ReportInv
<1>2. {f.members : f \in findings} = CyclicComponents(graph.edges)
  BY DEF IInv, ReportInv, Done
<1>3. <<n, n>> \in Reaches(graph.edges) <=> \E f \in findings : n \in f.members
  BY <1>1, <1>2, CyclicNodes
<1>4. <<n, n>> \in Reaches(graph.definite) <=> n \in definiteCyclic
  <2>1. graph.definite \in SUBSET (Nodes \X Nodes)
    BY <1>1
  <2>2. <<n, n>> \in Reaches(graph.definite) <=> \E c \in CyclicComponents(graph.definite) : n \in c
    BY <2>1, CyclicNodes
  <2> QED BY <2>2 DEF IInv, ReportInv
<1>5. \A f \in findings : f.definiteMembers = f.members \cap definiteCyclic
  BY DEF IInv, ReportInv, DefiniteMembers
<1>6. <<n, n>> \in Reaches(graph.definite) => <<n, n>> \in Reaches(graph.edges)
  BY <1>1, ReachesMonotone
<1>7. <<n, n>> \in Reaches(graph.definite) <=> \E f \in findings : n \in f.definiteMembers
  BY <1>3, <1>4, <1>5, <1>6
<1>8. \A f, g \in findings : n \in f.members \cap g.members => f = g
  <2> SUFFICES ASSUME NEW f \in findings, NEW g \in findings, n \in f.members, n \in g.members
               PROVE  f = g
    OBVIOUS
  <2>1. f.members \in CyclicComponents(graph.edges) /\ g.members \in CyclicComponents(graph.edges)
    BY <1>2
  <2>2. f.members = g.members
    BY <2>1, ComponentsDisjoint
  <2> QED BY <2>2 DEF IInv, ReportInv
<1> QED BY <1>3, <1>7, <1>8

-----------------------------------------------------------------------------
\* The active path of the search is always a simple path of followed dependencies inside
\* the component (CycleAnalyzer.analyze, bounded_witness).
THEOREM TypeCorrect == Spec => []TypeOK
<1>1. IInv => TypeOK
  BY DEF IInv, WitnessInv, SearchInv
<1> QED BY <1>1, InitInv, NextPreserves, PTL DEF Spec

\* Every reported witness is a closed simple cycle of the view's dependencies inside its
\* component, whatever the view: what GraphHandle.bounded_witness promises.
THEOREM WitnessesAreCycles == Spec => []WitnessIsCycle
<1>1. IInv => WitnessIsCycle
  BY DEF IInv, WitnessInv
<1> QED BY <1>1, InitInv, NextPreserves, PTL DEF Spec

\* The witness of a definite finding has definite dependencies only (definite_handle), and a
\* possible finding hides no cycle of definite dependencies.
THEOREM CertaintyIsShown == Spec => []CertaintyIsWitnessed
BY InvGivesCertainty, InitInv, NextPreserves, PTL DEF Spec

\* When the analysis is done, each node that lies on a cycle is a member of exactly one finding,
\* a definite member when definite dependencies close the cycle (_cyclic_components).
THEOREM CyclesAreReported == Spec => []EveryCycleReported
BY InvGivesReport, InitInv, NextPreserves, PTL DEF Spec

\* The search always closes a cycle: it never backtracks past its start, where
\* networkx.find_cycle would raise NetworkXNoCycle.
THEOREM SearchNeverGivesUp == Spec => []SearchFindsCycle
<1>1. IInv => SearchFindsCycle
  BY DEF IInv, TrailInv, SearchFindsCycle
<1> QED BY <1>1, InitInv, NextPreserves, PTL DEF Spec
=============================================================================
