---------------------------- MODULE CommonLemmas ----------------------------
(***************************************************************************)
(* What several of the proofs need: the least element of a set of numbers, *)
(* which they use in place of induction, what follows from a path leading  *)
(* from one node of a graph to another, when a sequence is made of two     *)
(* others, and the sizes of small sets.                                    *)
(***************************************************************************)
EXTENDS Reachability, Integers, Sequences, FiniteSetTheorems, WellFoundedInduction, TLAPS

\* A nonempty set of numbers has a least one: the intervals up to its members, ordered by
\* inclusion, have a minimal one.
THEOREM LeastElementExists ==
  ASSUME NEW S \in SUBSET Nat, S # {}
  PROVE  \E n \in S : \A m \in S : n <= m
<1> DEFINE T == {0 .. n : n \in S}
<1>1. \A n \in S : 0 .. n \in FiniteSubsetsOf(Nat)
  <2> TAKE n \in S
  <2>1. IsFiniteSet(0 .. n)
    BY FS_Interval
  <2>2. 0 .. n \subseteq Nat
    OBVIOUS
  <2> QED BY <2>1, <2>2 DEF FiniteSubsetsOf
<1>2. T \subseteq FiniteSubsetsOf(Nat) /\ T # {}
  BY <1>1
<1>3. IsWellFoundedOn(StrictSubsetOrdering(Nat), FiniteSubsetsOf(Nat))
  BY FS_StrictSubsetOrderingWellFounded
<1> HIDE DEF T
<1>4. PICK x \in T : \A y \in T : <<y, x>> \notin StrictSubsetOrdering(Nat)
  BY <1>2, <1>3, WFMin, Zenon
<1>5. PICK n \in S : x = 0 .. n
  BY DEF T
<1>6. ASSUME NEW m \in S PROVE n <= m
  <2>1. <<0 .. m, x>> \notin StrictSubsetOrdering(Nat)
    BY <1>4 DEF T
  <2>2. (0 .. m) \in SUBSET Nat /\ x \in SUBSET Nat
    BY <1>5
  <2>3. ~ (0 .. m \subseteq x /\ 0 .. m # x)
    BY <2>1, <2>2 DEF StrictSubsetOrdering
  <2>4. CASE m < n
    <3>1. 0 .. m \subseteq x /\ n \in x /\ n \notin 0 .. m
      BY <1>5, <2>4
    <3> QED BY <3>1, <2>3
  <2> QED BY <2>4
<1> QED BY <1>6
-----------------------------------------------------------------------------
(* Paths in a graph; edges are pairs of nodes.                             *)

\* A node leads to nothing outside a closed set that holds its successors.
LEMMA StaysInside ==
  ASSUME NEW edges, NEW a, NEW b, <<a, b>> \in Reaches(edges),
         NEW S, Closed(S, edges), Successors(edges, a) \subseteq S
  PROVE  b \in S
<1> DEFINE T == S \cap Ends(edges)
<1>1. Closed(T, edges)
  BY DEF Closed, Ends
<1>2. Successors(edges, a) \subseteq T
  BY DEF Successors, Ends
<1>3. T \in SUBSET Ends(edges)
  OBVIOUS
<1> HIDE DEF T
<1>4. b \in T
  BY <1>1, <1>2, <1>3 DEF Reaches
<1> QED BY <1>4 DEF T

\* Where a node leads is decided by the closed sets alone.
LEMMA ReachesByClosedSets ==
  ASSUME NEW edges, NEW a \in Ends(edges), NEW b \in Ends(edges),
         \A S \in SUBSET Ends(edges) :
           Closed(S, edges) /\ Successors(edges, a) \subseteq S => b \in S
  PROVE  <<a, b>> \in Reaches(edges)
BY DEF Reaches

LEMMA ReachesEnds ==
  ASSUME NEW edges, NEW a, NEW b, <<a, b>> \in Reaches(edges)
  PROVE  a \in Ends(edges) /\ b \in Ends(edges)
BY DEF Reaches

LEMMA EdgeReaches ==
  ASSUME NEW edges, NEW a, NEW b, <<a, b>> \in edges
  PROVE  <<a, b>> \in Reaches(edges)
<1>1. a \in Ends(edges) /\ b \in Ends(edges)
  <2>1. <<a, b>>[1] = a /\ <<a, b>>[2] = b
    OBVIOUS
  <2> QED BY <2>1 DEF Ends
<1>2. b \in Successors(edges, a)
  <2>1. <<a, b>>[1] = a /\ <<a, b>>[2] = b
    OBVIOUS
  <2> QED BY <2>1 DEF Successors
<1> QED BY <1>1, <1>2, ReachesByClosedSets

LEMMA ReachesTransitive ==
  ASSUME NEW edges, NEW a, NEW b, NEW c,
         <<a, b>> \in Reaches(edges), <<b, c>> \in Reaches(edges)
  PROVE  <<a, c>> \in Reaches(edges)
<1>1. a \in Ends(edges) /\ c \in Ends(edges)
  BY ReachesEnds
<1>2. ASSUME NEW S \in SUBSET Ends(edges), Closed(S, edges), Successors(edges, a) \subseteq S
      PROVE  c \in S
  <2>1. b \in S
    BY <1>2, StaysInside
  <2>2. Successors(edges, b) \subseteq S
    BY <2>1, <1>2 DEF Closed, Successors
  <2> QED BY <2>2, <1>2, StaysInside
<1> QED BY <1>1, <1>2, ReachesByClosedSets

LEMMA ReachesMonotone ==
  ASSUME NEW edges, NEW more, edges \subseteq more
  PROVE  Reaches(edges) \subseteq Reaches(more)
<1> SUFFICES ASSUME NEW p \in Reaches(edges)
             PROVE  p \in Reaches(more)
  OBVIOUS
<1>1. PICK a \in Ends(edges), b \in Ends(edges) : p = <<a, b>>
  BY DEF Reaches
<1>2. a \in Ends(more) /\ b \in Ends(more)
  BY DEF Ends
<1>3. ASSUME NEW S \in SUBSET Ends(more), Closed(S, more), Successors(more, a) \subseteq S
      PROVE  b \in S
  <2>1. Closed(S, edges) /\ Successors(edges, a) \subseteq S
    BY <1>3 DEF Closed, Successors
  <2> QED BY <2>1, <1>1, StaysInside
<1> QED BY <1>1, <1>2, <1>3, ReachesByClosedSets

\* A path starts with an edge.
LEMMA FirstEdge ==
  ASSUME NEW edges, NEW a, NEW b, <<a, b>> \in Reaches(edges)
  PROVE  \E s \in Successors(edges, a) : s = b \/ <<s, b>> \in Reaches(edges)
<1> DEFINE S == {t \in Ends(edges) :
                   \E s \in Successors(edges, a) : s = t \/ <<s, t>> \in Reaches(edges)}
<1>1. Successors(edges, a) \subseteq S
  BY DEF Successors, Ends
<1>2. Closed(S, edges)
  <2> SUFFICES ASSUME NEW e \in edges, e[1] \in S
               PROVE  e[2] \in S
    BY DEF Closed
  <2>1. PICK s \in Successors(edges, a) : s = e[1] \/ <<s, e[1]>> \in Reaches(edges)
    OBVIOUS
  <2>2. <<e[1], e[2]>> \in Reaches(edges)
    <3>1. e[1] \in Ends(edges) /\ e[2] \in Ends(edges)
      BY DEF Ends
    <3>2. e[2] \in Successors(edges, e[1])
      BY DEF Successors
    <3> QED BY <3>1, <3>2, ReachesByClosedSets
  <2>3. <<s, e[2]>> \in Reaches(edges)
    BY <2>1, <2>2, ReachesTransitive
  <2> QED BY <2>3, <2>1 DEF Ends
<1> HIDE DEF S
<1>3. b \in S
  BY <1>1, <1>2, StaysInside
<1> QED BY <1>3 DEF S

\* A cycle of some of the edges stays among the nodes that its start leads to and that lead
\* back to it.
LEMMA CycleStaysInside ==
  ASSUME NEW edges, \A e \in edges : e = <<e[1], e[2]>>, NEW some \in SUBSET edges,
         NEW a, <<a, a>> \in Reaches(some), NEW c, a \in c,
         \A b : <<a, b>> \in Reaches(edges) /\ <<b, a>> \in Reaches(edges) => b \in c
  PROVE  <<a, a>> \in Reaches(some \cap (c \X c))
<1> DEFINE inside == some \cap (c \X c)
<1>0. Reaches(some) \subseteq Reaches(edges)
  BY ReachesMonotone
<1>1. \A e \in some : e = <<e[1], e[2]>> /\ <<e[1], e[2]>> \in Reaches(some)
  BY EdgeReaches
<1>2. \A b : b = a \/ (<<a, b>> \in Reaches(some) /\ <<b, a>> \in Reaches(some)) => b \in c
  BY <1>0
<1>3. \A e \in some : e[1] \in c /\ e[2] \in c => e \in inside
  BY <1>1
<1>4. \A s \in Successors(some, a) :
        /\ <<a, s>> \in Reaches(some)
        /\ s = a \/ <<s, a>> \in Reaches(some) => s \in Successors(inside, a)
  <2> TAKE s \in Successors(some, a)
  <2>1. PICK e \in some : e[1] = a /\ e[2] = s
    BY DEF Successors
  <2>2. <<a, s>> \in Reaches(some)
    BY <2>1, <1>1
  <2>3. ASSUME s = a \/ <<s, a>> \in Reaches(some)
        PROVE  s \in Successors(inside, a)
    <3>1. s \in c
      BY <2>2, <2>3, <1>2
    <3>2. e \in inside
      BY <3>1, <2>1, <1>3
    <3> QED BY <3>2, <2>1 DEF Successors
  <2> QED BY <2>2, <2>3
<1> HIDE DEF inside
<1>5. a \in Ends(inside)
  <2>1. PICK s \in Successors(inside, a) : TRUE
    BY FirstEdge, <1>4
  <2> QED BY <2>1 DEF Successors, Ends
<1>6. ASSUME NEW S \in SUBSET Ends(inside), Closed(S, inside), Successors(inside, a) \subseteq S
      PROVE  a \in S
  <2> DEFINE T == {b \in Ends(some) :
                     /\ <<a, b>> \in Reaches(some)
                     /\ b \in S \/ (b # a /\ <<b, a>> \notin Reaches(some))}
  <2>1. Successors(some, a) \subseteq T
    <3> SUFFICES ASSUME NEW s \in Successors(some, a)
                 PROVE  s \in T
      OBVIOUS
    <3>1. s \in Ends(some)
      BY DEF Successors, Ends
    <3>2. s = a \/ <<s, a>> \in Reaches(some) => s \in S
      BY <1>4, <1>6
    <3> QED BY <3>1, <3>2, <1>4
  <2>2. Closed(T, some)
    <3> SUFFICES ASSUME NEW e \in some, e[1] \in T
                 PROVE  e[2] \in T
      BY DEF Closed
    <3>1. e[2] \in Ends(some) /\ <<a, e[1]>> \in Reaches(some)
      BY DEF Ends
    <3>2. <<e[1], e[2]>> \in Reaches(some)
      BY <1>1
    <3>3. <<a, e[2]>> \in Reaches(some)
      BY <3>1, <3>2, ReachesTransitive
    <3>4. ASSUME e[2] = a \/ <<e[2], a>> \in Reaches(some)
          PROVE  e[2] \in S
      <4>1. <<e[1], a>> \in Reaches(some)
        BY <3>4, <3>2, ReachesTransitive
      <4>2. CASE e[1] = a
        <5>1. e[2] \in Successors(some, a)
          BY <4>2 DEF Successors
        <5> QED BY <5>1, <3>4, <1>4, <1>6
      <4>3. CASE e[1] # a
        <5>1. e[1] \in S
          BY <4>1, <4>3
        <5>2. e \in inside
          BY <4>1, <3>1, <3>3, <3>4, <1>2, <1>3
        <5> QED BY <5>1, <5>2, <1>6 DEF Closed
      <4> QED BY <4>2, <4>3
    <3> QED BY <3>1, <3>3, <3>4
  <2> HIDE DEF T
  <2>3. a \in T
    BY <2>1, <2>2, StaysInside
  <2> QED BY <2>3 DEF T
<1> QED BY <1>5, <1>6, ReachesByClosedSets DEF inside
-----------------------------------------------------------------------------
\* Concatenation, position by position.
LEMMA JoinMeans ==
  ASSUME NEW s \in Seq(STRING), NEW t \in Seq(STRING), NEW u \in Seq(STRING)
  PROVE  u = s \o t <=> /\ Len(u) = Len(s) + Len(t)
                        /\ \A k \in 1 .. Len(s) : u[k] = s[k]
                        /\ \A k \in 1 .. Len(t) : u[k + Len(s)] = t[k]
<1>1. /\ s \o t \in Seq(STRING) /\ Len(s \o t) = Len(s) + Len(t)
      /\ \A k \in 1 .. Len(s) : (s \o t)[k] = s[k]
      /\ \A k \in 1 .. Len(t) : (s \o t)[k + Len(s)] = t[k]
  OBVIOUS
<1>2. ASSUME NEW v \in Seq(STRING), Len(u) = Len(s) + Len(t), Len(v) = Len(s) + Len(t),
             \A k \in 1 .. Len(s) : u[k] = s[k], \A k \in 1 .. Len(t) : u[k + Len(s)] = t[k],
             \A k \in 1 .. Len(s) : v[k] = s[k], \A k \in 1 .. Len(t) : v[k + Len(s)] = t[k]
      PROVE  u = v
  <2>1. ASSUME NEW k \in 1 .. Len(u) PROVE u[k] = v[k]
    <3>1. k \in 1 .. Len(s) \/ k - Len(s) \in 1 .. Len(t)
      BY <1>2
    <3>2. CASE k - Len(s) \in 1 .. Len(t)
      <4>1. u[(k - Len(s)) + Len(s)] = v[(k - Len(s)) + Len(s)]
        BY <1>2, <3>2
      <4>2. (k - Len(s)) + Len(s) = k
        OBVIOUS
      <4> QED BY <4>1, <4>2
    <3> QED BY <3>1, <3>2, <1>2
  <2> QED BY <2>1, <1>2
<1> QED BY <1>1, <1>2

\* What a sequence is with one more element.
LEMMA AppendMeans ==
  ASSUME NEW S, NEW s \in Seq(S), NEW e \in S
  PROVE  /\ Append(s, e) \in Seq(S) /\ Len(Append(s, e)) = Len(s) + 1
         /\ \A k \in 1 .. Len(s) : Append(s, e)[k] = s[k]
OBVIOUS

\* The image of a finite set under a function on it is finite.
LEMMA FiniteImage ==
  ASSUME NEW S, IsFiniteSet(S), NEW f, f = [x \in S |-> f[x]]
  PROVE  IsFiniteSet({f[x] : x \in S})
<1> DEFINE T == {f[x] : x \in S}
<1>1. f \in Surjection(S, T)
  BY DEF Surjection
<1> QED BY <1>1, FS_Surjection

\* A finite set with two members has more than one.
LEMMA TwoMembers ==
  ASSUME NEW S, IsFiniteSet(S), NEW a \in S, NEW b \in S, a # b
  PROVE  Cardinality(S) > 1
<1>1. Cardinality(S) \in Nat /\ Cardinality(S) # 0
  BY FS_CardinalityType, FS_EmptySet
<1>2. Cardinality(S) # 1
  BY FS_Singleton
<1> QED BY <1>1, <1>2
=============================================================================
