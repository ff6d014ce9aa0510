---------------------------- MODULE CycleAnalysis ----------------------------
(***************************************************************************)
(* CycleAnalyzer.analyze: the cyclic components of one view's graph are    *)
(* reported in order, each with its certainty and one witness cycle.  A    *)
(* dependency is definite when exact evidence supports it; a component     *)
(* with a cycle of definite dependencies is a definite finding, and its    *)
(* witness is searched among the definite dependencies only.               *)
(*                                                                         *)
(* The witness search is the depth-first search of networkx.find_cycle on  *)
(* the component's subgraph.  Node ids are numbers: only their order       *)
(* counts.                                                                 *)
(***************************************************************************)
EXTENDS Reachability, Integers, Sequences, FiniteSets

CONSTANTS
  Nodes,  \* the view's nodes
  Graphs  \* its possible dependencies: [edges, definite]

ASSUME NodesAssumption == Nodes \subseteq Nat /\ IsFiniteSet(Nodes)
ASSUME GraphsAssumption ==
  \A g \in Graphs : g.edges \subseteq Nodes \X Nodes /\ g.definite \subseteq g.edges

VARIABLES
  graph,     \* the view's dependencies, which no step changes
  definiteCyclic, \* the nodes of the cyclic components of its definite dependencies
  todo,      \* the cyclic components not reported yet
  members,   \* the component whose witness is searched, {} between searches
  path,      \* the search's active path, from its start
  tried,     \* the edges the search has followed
  findings   \* the findings so far

vars == <<graph, definiteCyclic, todo, members, path, tried, findings>>
-----------------------------------------------------------------------------
Least(S) == CHOOSE n \in S : \A m \in S : n <= m

Components(edges) ==
  LET reaches == Reaches(edges)
  IN {{n} \cup {m \in Nodes : {<<n, m>>, <<m, n>>} \subseteq reaches} : n \in Nodes}

\* mutant: a node that depends on itself is no cycle
LargeComponents(edges) ==
  {c \in Components(edges) : Cardinality(c) > 1}

\* _cyclic_components: components of several nodes, or of one that depends on itself
CyclicComponents(edges) ==
  {c \in Components(edges) :
     Cardinality(c) > 1 \/ \E n \in c : <<n, n>> \in edges}

DefiniteMembers(c) == c \cap definiteCyclic

Inside(edges, c) == edges \cap (c \X c)

\* mutant: all dependencies are searched
SearchAllEdges == Inside(graph.edges, members)

\* mutant: the subgraph is not restricted to the component
SearchWholeGraph == IF DefiniteMembers(members) # {} THEN graph.definite ELSE graph.edges

\* the prepared graph that is searched: the definite one once it has a cycle here
SearchEdges ==
  Inside(IF DefiniteMembers(members) # {} THEN graph.definite ELSE graph.edges, members)

\* mutant: the first member, on a definite cycle or not
FirstMember(c) == Least(c)

StartOf(c) == Least(IF DefiniteMembers(c) # {} THEN DefiniteMembers(c) ELSE c)

Untried(n) == {e[2] : e \in {d \in SearchEdges : d[1] = n /\ d \notin tried}}

OnPath(n) == \E i \in DOMAIN path : path[i] = n

Current == path[Len(path)]

\* the first successor, in edge order, whose edge has not been followed
NextHead == Least(Untried(Current))
-----------------------------------------------------------------------------
Init ==
  /\ graph \in Graphs
  /\ definiteCyclic = UNION CyclicComponents(graph.definite)
  /\ todo = CyclicComponents(graph.edges)
  /\ members = {}
  /\ path = <<>>
  /\ tried = {}
  /\ findings = {}

\* the next component in order: components are disjoint, so their least members decide
StartSearch ==
  /\ members = {}
  /\ \E c \in todo :
       /\ \A d \in todo : Least(c) <= Least(d)
       /\ members' = c
       /\ path' = <<StartOf(c)>>
  /\ tried' = {}
  /\ UNCHANGED <<graph, definiteCyclic, todo, findings>>

\* mutant: the followed edge is not remembered
FollowForgetting ==
  /\ path # <<>>
  /\ Untried(Current) # {}
  /\ ~OnPath(NextHead)
  /\ path' = Append(path, NextHead)
  /\ UNCHANGED <<graph, definiteCyclic, todo, members, tried, findings>>

Follow ==
  /\ path # <<>>
  /\ Untried(Current) # {}
  /\ ~OnPath(NextHead)
  /\ path' = Append(path, NextHead)
  /\ tried' = tried \cup {<<Current, NextHead>>}
  /\ UNCHANGED <<graph, definiteCyclic, todo, members, findings>>

\* nothing left to follow: back to the previous node, or give up (NetworkXNoCycle)
Backtrack ==
  /\ path # <<>>
  /\ Untried(Current) = {}
  /\ path' = SubSeq(path, 1, Len(path) - 1)
  /\ UNCHANGED <<graph, definiteCyclic, todo, members, tried, findings>>

Finding(witness) ==
  [members         |-> members,
   definiteMembers |-> DefiniteMembers(members),
   certainty       |-> IF DefiniteMembers(members) # {} THEN "definite" ELSE "possible",
   witness         |-> witness,
   count           |-> Cardinality(Inside(graph.edges, members))]

\* mutant: the acyclic prefix of the search stays in the witness
ClosePrefixed ==
  /\ path # <<>>
  /\ Untried(Current) # {}
  /\ OnPath(NextHead)
  /\ findings' = findings \cup {Finding(path)}
  /\ todo' = todo \ {members}
  /\ members' = {}
  /\ path' = <<>>
  /\ UNCHANGED <<graph, definiteCyclic, tried>>

\* the followed edge closes a cycle with the active path; what led to it is cut off
Close ==
  /\ path # <<>>
  /\ Untried(Current) # {}
  /\ \E i \in DOMAIN path :
       /\ path[i] = NextHead
       /\ findings' = findings \cup {Finding(SubSeq(path, i, Len(path)))}
  /\ todo' = todo \ {members}
  /\ members' = {}
  /\ path' = <<>>
  /\ UNCHANGED <<graph, definiteCyclic, tried>>

Next == StartSearch \/ Follow \/ Backtrack \/ Close

\* a sequential computation takes its next step
Spec == Init /\ [][Next]_vars /\ WF_vars(Next)
-----------------------------------------------------------------------------
Done == todo = {}

\* the edges of a closed cycle given by its nodes
CycleEdges(w) == {<<w[i], IF i = Len(w) THEN w[1] ELSE w[i + 1]>> : i \in DOMAIN w}

Distinct(s) == \A i, j \in DOMAIN s : s[i] = s[j] => i = j

\* Type invariant: the active path is a simple path inside the component that is searched,
\* and every edge on it has been followed.
TypeOK ==
  /\ members = {} \/ members \in todo
  /\ members = {} => path = <<>>
  /\ path \in Seq(members)
  /\ Distinct(path)
  /\ tried \subseteq graph.edges
  /\ \A i \in 1 .. Len(path) - 1 : <<path[i], path[i + 1]>> \in tried

\* "Return only the closed cycle's ordered edges, with no repeated source and no acyclic
\* prefix": a witness is a nonempty simple cycle of the view's dependencies whose nodes all
\* belong to the reported component.
WitnessIsCycle ==
  \A f \in findings :
    /\ f.witness # <<>>
    /\ f.witness \in Seq(f.members)
    /\ Distinct(f.witness)
    /\ CycleEdges(f.witness) \subseteq graph.edges

\* A definite finding is shown by definite dependencies: its witness has no possible edge,
\* and a possible finding hides no cycle of definite dependencies.
CertaintyIsWitnessed ==
  \A f \in findings :
    /\ f.certainty = "definite" => CycleEdges(f.witness) \subseteq graph.definite
    /\ f.certainty = "possible" => \A n \in f.members : <<n, n>> \notin Reaches(graph.definite)

\* When the analysis is done, the nodes that can reach themselves are exactly the members
\* of the findings, each of one finding only, and the same holds for definite members.
EveryCycleReported ==
  Done =>
    \A n \in Nodes :
      /\ <<n, n>> \in Reaches(graph.edges) <=> \E f \in findings : n \in f.members
      /\ <<n, n>> \in Reaches(graph.definite) <=> \E f \in findings : n \in f.definiteMembers
      /\ \A f, g \in findings : n \in f.members \cap g.members => f = g

\* The search never gives up: networkx.find_cycle always finds a cycle from the chosen
\* start, so NetworkXNoCycle, which nothing catches, is never raised.
SearchFindsCycle == members # {} => path # <<>>

\* The analysis of every graph ends: backtracking follows no edge twice.
Terminates == <>Done
=============================================================================
