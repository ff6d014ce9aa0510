----------------------- MODULE ImportResolution_proof -----------------------
(***************************************************************************)
(* For every catalogue: what StaticImportResolver records of each import   *)
(* fact, and what ArchitectureDependencyPolicy keeps of it.  The argument  *)
(* rests on one invariant: the outcomes of an interpreted fact are exactly *)
(* what that one fact means in the unchanging catalogue.                   *)
(***************************************************************************)
EXTENDS ResolutionRefinement, CommonLemmas

\* os is what interpreting f adds to the accumulators
Means(f, os) ==
  \/ ~f.from /\ os = Requested(f, f.base, "exact_module")
  \/ f.from /\ f.level = 0 /\ os = FromBase(f, f.base)
  \/ f.level > 0 /\ PackageContext(f) = {} /\ os = Unresolved(f, f.base, "unknown_package_context")
  \/ /\ f.level > 0 /\ \E m \in PackageContext(f) : ~RelativeFits(f.level, PackageOf(m))
     /\ os = Unresolved(f, f.base, "relative_escape")
  \/ /\ f.level > 0
     /\ \E m \in PackageContext(f) :
          /\ RelativeFits(f.level, PackageOf(m))
          /\ os = FromBase(f, ResolveRelative(f.level, f.base, PackageOf(m)))

Phases == {"idle", "resolving", "resolved", "selected"}

IInv ==
  /\ phase \in Phases
  /\ phase = "idle" => catalog.facts = {} /\ pending = {} /\ outcomes = {}
  /\ phase # "idle" => catalog \in Catalogs
  /\ pending \subseteq catalog.facts
  /\ phase \in {"resolved", "selected"} => pending = {}
  /\ \A f \in Interpreted : Means(f, Outcomes(f))
  /\ \A o \in outcomes : \E f \in Interpreted : o.fact = f.id
  /\ phase = "selected" => selected = {o \in Dependencies : ~Redundant(o)}
  /\ phase # "selected" => selected = {}
  /\ \A o \in outcomes : o.as = "unresolved" /\ o.how = "ambiguous_target" => errors # {}
-----------------------------------------------------------------------------
(* What the operators of the session return                                *)

\* the one record of a request: o says so of fact f
OutcomeOf(o, f) == o.fact = f.id /\ o.source = f.source

\* An unresolved request is one record, and no dependency.
LEMMA UnresolvedIsOne ==
  ASSUME NEW f, NEW n, NEW reason
  PROVE  \E o : Unresolved(f, n, reason) = {o} /\ OutcomeOf(o, f) /\ o.as # "dependency"
<1> DEFINE o == [as |-> "unresolved", fact |-> f.id, source |-> f.source, requested |-> n, how |-> reason]
<1>1. Unresolved(f, n, reason) = {o}
  BY DEF Unresolved
<1>2. OutcomeOf(o, f) /\ o.as # "dependency"
  BY DEF OutcomeOf
<1> HIDE DEF o
<1> QED BY <1>1, <1>2

\* A name that no source is bound to is recorded once, and never as a dependency.
LEMMA AbsentIsOne ==
  ASSUME NEW f, NEW n
  PROVE  \E o : Absent(f, n) = {o} /\ OutcomeOf(o, f) /\ o.as # "dependency"
<1> DEFINE b == [as |-> "boundary", fact |-> f.id, source |-> f.source, boundary |-> Boundary(n)]
           e == [as |-> "external", fact |-> f.id, source |-> f.source, requested |-> n,
                 how |-> IF Head(n) \in Stdlib THEN "stdlib" ELSE "external_unknown"]
<1>1. \/ \E reason : Absent(f, n) = Unresolved(f, n, reason)
      \/ Absent(f, n) = {b}
      \/ Absent(f, n) = {e}
  BY DEF Absent
<1>2. OutcomeOf(b, f) /\ b.as # "dependency" /\ OutcomeOf(e, f) /\ e.as # "dependency"
  BY DEF OutcomeOf
<1> HIDE DEF b, e
<1> QED BY <1>1, <1>2, UnresolvedIsOne

\* A requested name is recorded once; as a dependency only if it is bound and uncontested.
LEMMA RequestedIsOne ==
  ASSUME NEW f, NEW n, NEW how
  PROVE  \E o : /\ Requested(f, n, how) = {o} /\ OutcomeOf(o, f)
                /\ o.as = "dependency" =>
                     o.how = how /\ n \in BoundNames /\ ~AmbiguousName(n) /\ o.target = BoundTo(n).id
<1> DEFINE d == [as |-> "dependency", fact |-> f.id, source |-> f.source, target |-> BoundTo(n).id, how |-> how]
<1>1. \/ Requested(f, n, how) = Unresolved(f, n, "ambiguous_target")
      \/ Requested(f, n, how) = Absent(f, n)
      \/ Requested(f, n, how) = {d} /\ n \in BoundNames /\ ~AmbiguousName(n)
  BY DEF Requested, Dependency
<1>2. OutcomeOf(d, f) /\ d.how = how /\ d.target = BoundTo(n).id
  BY DEF OutcomeOf
<1> HIDE DEF d
<1> QED BY <1>1, <1>2, UnresolvedIsOne, AbsentIsOne

\* An imported item is recorded at most once, as a dependency only in its own right.
LEMMA ChildIsAtMostOne ==
  ASSUME NEW f, NEW base
  PROVE  \/ Child(f, base) = {}
         \/ \E o : /\ Child(f, base) = {o} /\ OutcomeOf(o, f)
                   /\ o.as = "dependency" =>
                        /\ o.how = "probable_submodule"
                        /\ \E n \in BoundNames : ~AmbiguousName(n) /\ o.target = BoundTo(n).id
<1> DEFINE n == Append(base, f.imported)
<1>1. \/ Child(f, base) = {}
      \/ Child(f, base) = Requested(f, n, "probable_submodule")
      \/ Child(f, base) = Absent(f, n)
  BY DEF Child
<1> HIDE DEF n
<1> QED BY <1>1, RequestedIsOne, AbsentIsOne

\* Whatever a fact means, the fact and its source are recorded with it.
LEMMA MeaningBelongs ==
  ASSUME NEW f, NEW os, Means(f, os), NEW o \in os
  PROVE  /\ OutcomeOf(o, f)
         /\ o.as = "dependency" =>
              /\ o.how \in {"exact_module", "exact_base", "probable_submodule"}
              /\ \E n \in BoundNames : ~AmbiguousName(n) /\ o.target = BoundTo(n).id
<1>1. ASSUME NEW n, o \in Requested(f, n, "exact_module")
      PROVE  /\ OutcomeOf(o, f)
             /\ o.as = "dependency" =>
                  /\ o.how \in {"exact_module", "exact_base", "probable_submodule"}
                  /\ \E b \in BoundNames : ~AmbiguousName(b) /\ o.target = BoundTo(b).id
  BY <1>1, RequestedIsOne
<1>2. ASSUME NEW n, o \in FromBase(f, n)
      PROVE  /\ OutcomeOf(o, f)
             /\ o.as = "dependency" =>
                  /\ o.how \in {"exact_module", "exact_base", "probable_submodule"}
                  /\ \E b \in BoundNames : ~AmbiguousName(b) /\ o.target = BoundTo(b).id
  <2>1. o \in Requested(f, n, "exact_base") \/ o \in Child(f, n)
    BY <1>2 DEF FromBase
  <2> QED BY <2>1, RequestedIsOne, ChildIsAtMostOne
<1>3. ASSUME NEW reason, o \in Unresolved(f, f.base, reason)
      PROVE  OutcomeOf(o, f) /\ o.as # "dependency"
  BY <1>3, UnresolvedIsOne
<1> QED BY <1>1, <1>2, <1>3 DEF Means
\* One fact supports at most one dependency in each way it can.
LEMMA OneDependencyEachWay ==
  ASSUME NEW f, NEW os, Means(f, os), NEW o \in os, NEW p \in os,
         o.as = "dependency", p.as = "dependency"
  PROVE  \/ o = p
         \/ o.how = "exact_base" /\ p.how = "probable_submodule"
         \/ p.how = "exact_base" /\ o.how = "probable_submodule"
<1>1. ASSUME NEW n, {o, p} \subseteq FromBase(f, n) PROVE
         \/ o = p
         \/ o.how = "exact_base" /\ p.how = "probable_submodule"
         \/ p.how = "exact_base" /\ o.how = "probable_submodule"
  <2>1. /\ o \in Requested(f, n, "exact_base") \/ o \in Child(f, n)
        /\ p \in Requested(f, n, "exact_base") \/ p \in Child(f, n)
    BY <1>1 DEF FromBase
  <2>2. PICK r : Requested(f, n, "exact_base") = {r} /\ (r.as = "dependency" => r.how = "exact_base")
    BY RequestedIsOne
  <2>3. \/ Child(f, n) = {}
        \/ \E c : Child(f, n) = {c} /\ (c.as = "dependency" => c.how = "probable_submodule")
    BY ChildIsAtMostOne
  <2> QED BY <2>1, <2>2, <2>3
<1>2. ASSUME os = Requested(f, f.base, "exact_module") PROVE o = p
  BY <1>2, RequestedIsOne
<1>3. ASSUME NEW reason, os = Unresolved(f, f.base, reason) PROVE o = p
  BY <1>3, UnresolvedIsOne
<1> QED BY <1>1, <1>2, <1>3 DEF Means
-----------------------------------------------------------------------------
(* The invariant                                                           *)

LEMMA InitInv == Init => IInv
BY DEF Init, IInv, Phases, Interpreted, Outcomes, Dependencies

\* The meaning of a fact depends on the catalogue only.
LEMMA MeansUnchanged ==
  ASSUME UNCHANGED catalog, NEW f, NEW os, Means(f, os)
  PROVE  Means(f, os)'
<1>1. \A n : NamedBy(n)' = NamedBy(n) /\ Natives(n)' = Natives(n)
  BY DEF NamedBy, Natives
<1>2. Names' = Names
  BY <1>1 DEF Names
<1>3. \A n : Contested(n)' = Contested(n) /\ BoundTo(n)' = BoundTo(n)
  BY <1>1 DEF Contested, BoundTo
<1>4. BoundNames' = BoundNames /\ Owned' = Owned /\ Namespaces' = Namespaces
  BY <1>2, <1>3 DEF BoundNames, Owned, Namespaces
<1>5. Ambiguous' = Ambiguous
  BY <1>1, <1>2, <1>3, <1>4 DEF Ambiguous, NativeConflicts
<1>6. \A n : AmbiguousName(n)' = AmbiguousName(n)
  BY <1>5 DEF AmbiguousName
<1>7. \A n : Declarations(n)' = Declarations(n)
  BY DEF Declarations
<1>8. \A n : Boundary(n)' = Boundary(n)
  BY <1>7 DEF Boundary
<1>9. \A n : Absent(f, n)' = Absent(f, n)
  BY <1>4, <1>6, <1>7, <1>8 DEF Absent, Unresolved
<1>10. \A n, how : Requested(f, n, how)' = Requested(f, n, how)
  BY <1>3, <1>4, <1>6, <1>9 DEF Requested, Dependency, Unresolved
<1>11. \A n : Child(f, n)' = Child(f, n)
  BY <1>2, <1>4, <1>7, <1>9, <1>10 DEF Child
<1>12. \A n : OwnInitializer(f, n)' = OwnInitializer(f, n)
  BY <1>3, <1>4 DEF OwnInitializer
<1>13. \A n : FromBase(f, n)' = FromBase(f, n)
  BY <1>10, <1>11, <1>12 DEF FromBase
<1>14. \A n, reason : Unresolved(f, n, reason)' = Unresolved(f, n, reason)
  BY DEF Unresolved
<1>15. PackageContext(f)' = PackageContext(f)
  BY DEF PackageContext, SourceOf
<1> QED BY <1>10, <1>13, <1>14, <1>15 DEF Means

LEMMA BeginPreserves ==
  ASSUME IInv, NEW c \in Catalogs, Begin(c)
  PROVE  IInv'
<1>1. /\ catalog' = c /\ phase' = "resolving" /\ pending' = c.facts
      /\ outcomes' = {} /\ selected' = {}
  BY DEF Begin, IInv
<1>2. Interpreted' = {}
  BY <1>1 DEF Interpreted
<1> QED BY <1>1, <1>2 DEF IInv, Phases

\* Interpreting one pending fact records what it means and disturbs no other fact.
LEMMA RecordPreserves ==
  ASSUME IInv, phase = "resolving", NEW f \in pending, NEW os, Means(f, os), Record(f, os)
  PROVE  IInv'
<1>1. /\ pending' = pending \ {f} /\ outcomes' = outcomes \cup os
      /\ errors' = errors \cup ImportErrors(os)
      /\ UNCHANGED <<catalog, phase, selected>>
  BY DEF Record
<1>2. /\ catalog \in Catalogs /\ f \in catalog.facts /\ pending \subseteq catalog.facts
      /\ selected = {}
  BY DEF IInv
<1>3. Interpreted' = Interpreted \cup {f} /\ f \notin Interpreted
  BY <1>1, <1>2 DEF Interpreted
<1>4. \A g, h \in catalog.facts : g.id = h.id => g = h
  BY <1>2, CatalogsAssumption
<1>5. \A o \in os : o.fact = f.id
  BY MeaningBelongs DEF OutcomeOf
<1>6. ASSUME NEW g \in Interpreted' PROVE Means(g, Outcomes(g))'
  <2>1. CASE g = f
    <3>1. \A o \in outcomes : o.fact # f.id
      BY <1>2, <1>3, <1>4 DEF IInv, Interpreted
    <3>2. Outcomes(f)' = os
      BY <1>1, <1>5, <3>1 DEF Outcomes
    <3>3. Means(f, os)'
      BY <1>1, MeansUnchanged
    <3> QED BY <2>1, <3>2, <3>3 DEF Means
  <2>2. CASE g # f
    <3>1. g \in Interpreted /\ g.id # f.id
      BY <1>2, <1>3, <1>4, <2>2 DEF Interpreted
    <3>2. Outcomes(g)' = Outcomes(g)
      BY <1>1, <1>5, <3>1 DEF Outcomes
    <3>3. ASSUME NEW rs, rs = Outcomes(g) PROVE Means(g, rs)'
      BY <3>1, <3>3, <1>1, MeansUnchanged DEF IInv
    <3> QED BY <3>2, <3>3
  <2> QED BY <2>1, <2>2
<1>7. \A o \in outcomes' : \E g \in Interpreted' : o.fact = g.id
  BY <1>1, <1>3, <1>5 DEF IInv
<1>8. \A o \in outcomes' : o.as = "unresolved" /\ o.how = "ambiguous_target" => errors' # {}
  BY <1>1 DEF IInv, ImportErrors
<1> QED BY <1>1, <1>2, <1>6, <1>7, <1>8 DEF IInv

LEMMA ResolveFactPreserves ==
  ASSUME IInv, ResolveFact
  PROVE  IInv'
<1>1. PICK f \in pending :
        \/ ResolveImport(f) \/ ResolveAbsoluteFrom(f) \/ ResolveWithoutContext(f)
        \/ ResolveEscape(f) \/ ResolveRelativeFrom(f)
  BY DEF ResolveFact
<1>2. \E os : Means(f, os) /\ Record(f, os)
  BY <1>1 DEF ResolveImport, ResolveAbsoluteFrom, ResolveWithoutContext, ResolveEscape,
              ResolveRelativeFrom, Means
<1> QED BY <1>2, RecordPreserves DEF ResolveFact

LEMMA FinishPreserves ==
  ASSUME IInv, Finish
  PROVE  IInv'
<1>1. /\ pending = {} /\ phase = "resolving" /\ phase' = "resolved"
      /\ UNCHANGED <<catalog, pending, outcomes, errors, selected>>
  BY DEF Finish
<1>2. Interpreted' = Interpreted
  BY <1>1 DEF Interpreted
<1>3. ASSUME NEW g \in Interpreted' PROVE Means(g, Outcomes(g))'
  <2>1. Outcomes(g)' = Outcomes(g)
    BY <1>1 DEF Outcomes
  <2>2. ASSUME NEW rs, rs = Outcomes(g) PROVE Means(g, rs)'
    BY <2>2, <1>1, <1>2, MeansUnchanged DEF IInv
  <2> QED BY <2>1, <2>2
<1> QED BY <1>1, <1>2, <1>3 DEF IInv, Phases

LEMMA SelectPreserves ==
  ASSUME IInv, Select
  PROVE  IInv'
<1>1. /\ phase = "resolved" /\ phase' = "selected"
      /\ selected' = {o \in Dependencies : ~Redundant(o)}
      /\ UNCHANGED <<catalog, pending, outcomes, errors>>
  BY DEF Select
<1>2. Interpreted' = Interpreted
  BY <1>1 DEF Interpreted
<1>3. ASSUME NEW g \in Interpreted' PROVE Means(g, Outcomes(g))'
  <2>1. Outcomes(g)' = Outcomes(g)
    BY <1>1 DEF Outcomes
  <2>2. ASSUME NEW rs, rs = Outcomes(g) PROVE Means(g, rs)'
    BY <2>2, <1>1, <1>2, MeansUnchanged DEF IInv
  <2> QED BY <2>1, <2>2
<1>4. selected' = {o \in Dependencies' : ~Redundant(o)'}
  BY <1>1 DEF Dependencies, Redundant
<1> QED BY <1>1, <1>2, <1>3, <1>4 DEF IInv, Phases

LEMMA StutterPreserves ==
  ASSUME IInv, UNCHANGED vars
  PROVE  IInv'
<1>1. UNCHANGED <<catalog, phase, pending, outcomes, errors, selected>>
  BY DEF vars
<1>2. Interpreted' = Interpreted
  BY <1>1 DEF Interpreted
<1>3. ASSUME NEW g \in Interpreted' PROVE Means(g, Outcomes(g))'
  <2>1. Outcomes(g)' = Outcomes(g)
    BY <1>1 DEF Outcomes
  <2>2. ASSUME NEW rs, rs = Outcomes(g) PROVE Means(g, rs)'
    BY <2>2, <1>1, <1>2, MeansUnchanged DEF IInv
  <2> QED BY <2>1, <2>2
<1>4. Dependencies' = Dependencies /\ \A o : Redundant(o)' = Redundant(o)
  BY <1>1 DEF Dependencies, Redundant
<1> QED BY <1>1, <1>2, <1>3, <1>4 DEF IInv, Phases

LEMMA NextPreserves == IInv /\ [Next]_vars => IInv'
<1> SUFFICES ASSUME IInv, [Next]_vars PROVE IInv'
  OBVIOUS
<1>1. ASSUME NEW c \in Catalogs, Begin(c) PROVE IInv'
  BY <1>1, BeginPreserves
<1>2. CASE ResolveFact
  BY <1>2, ResolveFactPreserves
<1>3. CASE Finish
  BY <1>3, FinishPreserves
<1>4. CASE Select
  BY <1>4, SelectPreserves
<1>5. CASE UNCHANGED vars
  BY <1>5, StutterPreserves
<1> QED BY <1>1, <1>2, <1>3, <1>4, <1>5 DEF Next
-----------------------------------------------------------------------------
(* What follows from it                                                    *)

\* the fact an outcome was recorded for, and what that says of the outcome
LEMMA OutcomeOrigin ==
  ASSUME IInv, NEW o \in outcomes
  PROVE  \E f \in Interpreted :
           /\ o \in Outcomes(f) /\ Means(f, Outcomes(f)) /\ OutcomeOf(o, f)
           /\ o.as = "dependency" =>
                /\ o.how \in {"exact_module", "exact_base", "probable_submodule"}
                /\ \E n \in BoundNames : ~AmbiguousName(n) /\ o.target = BoundTo(n).id
<1>1. PICK f \in Interpreted : o.fact = f.id
  BY DEF IInv
<1>2. o \in Outcomes(f) /\ Means(f, Outcomes(f))
  BY <1>1 DEF IInv, Outcomes
<1> QED BY <1>2, MeaningBelongs

\* The source a bound name belongs to.
LEMMA BoundToSource ==
  ASSUME NEW n \in BoundNames
  PROVE  /\ BoundTo(n) \in NamedBy(n)
         /\ BoundTo(n) \in catalog.modules
         /\ BoundTo(n).name = n /\ n # NoName
         /\ BoundTo(n).status = "bound"
<1>1. NamedBy(n) # {} /\ ~Contested(n)
  BY DEF BoundNames, Names
<1>2. BoundTo(n) \in NamedBy(n)
  BY <1>1 DEF BoundTo
<1> QED BY <1>1, <1>2 DEF NamedBy, Contested

LEMMA InvType == IInv => TypeOK
<1> SUFFICES ASSUME IInv PROVE TypeOK
  OBVIOUS
<1>1. ASSUME NEW o \in outcomes
      PROVE  /\ \E f \in Interpreted : o.fact = f.id /\ o.source = f.source
             /\ o.as = "dependency" => \E m \in catalog.modules : m.id = o.target
  BY OutcomeOrigin, BoundToSource DEF OutcomeOf
<1>2. selected \subseteq outcomes
  BY DEF IInv, Phases, Dependencies
<1> QED BY <1>1, <1>2 DEF IInv, TypeOK, Phases

\* Phases advance with the facts and every outcome has a fact, a source and, for a
\* dependency, a target in the catalogue, whatever the catalogue.
THEOREM TypeCorrect == Spec => []TypeOK
BY InitInv, NextPreserves, InvType, PTL DEF Spec

\* A name that names nothing and stands for no target adds nothing as a child, and only such a name.
LEMMA ChildlessIsPlain ==
  ASSUME NEW f, NEW base, Child(f, base) = {}
  PROVE  PlainAttribute(f, base)
<1> DEFINE n == Append(base, f.imported)
<1>1. \A how : Requested(f, n, how) # {}
  BY RequestedIsOne
<1>2. Absent(f, n) # {}
  BY AbsentIsOne
<1>3. CASE f.imported \in {None, "*"}
  BY <1>3 DEF PlainAttribute
<1>4. CASE f.imported \notin {None, "*"}
  <2>1. n \notin Names /\ Declarations(n) = {}
    BY <1>1, <1>2, <1>4 DEF Child
  <2>2. NamedBy(n) = {}
    BY <2>1 DEF Names, NamedBy
  <2> QED BY <2>1, <2>2 DEF PlainAttribute
<1> QED BY <1>3, <1>4

\* The source a bound name belongs to is the only one that carries the name.
LEMMA BoundIsAlone ==
  ASSUME catalog \in Catalogs, NEW n \in BoundNames
  PROVE  NamedBy(n) = {BoundTo(n)}
<1>1. IsFiniteSet(NamedBy(n))
  <2>1. IsFiniteSet(catalog.modules) /\ NamedBy(n) \subseteq catalog.modules
    BY CatalogsAssumption DEF NamedBy
  <2> QED BY <2>1, FS_Subset
<1>2. Cardinality(NamedBy(n)) = 1
  BY DEF BoundNames, Contested
<1>3. BoundTo(n) \in NamedBy(n)
  BY BoundToSource
<1> QED BY <1>1, <1>2, <1>3, FS_Singleton

LEMMA InvNoFactLost == IInv => NoFactLost
<1> SUFFICES ASSUME IInv, NEW f \in Interpreted, Outcomes(f) = {}
             PROVE  /\ FromOwnPackage(f)
                    /\ \A m \in catalog.modules : m.id = f.source => PlainAttribute(f, m.name)
  BY DEF NoFactLost
<1>1. Means(f, {})
  BY DEF IInv
<1>2. \A n, how : Requested(f, n, how) # {}
  BY RequestedIsOne
<1>3. \A n, reason : Unresolved(f, n, reason) # {}
  BY UnresolvedIsOne
<1>4. PICK base :
        /\ FromBase(f, base) = {}
        /\ \/ f.from /\ f.level = 0 /\ base = f.base
           \/ /\ f.level > 0
              /\ \E m \in PackageContext(f) :
                   /\ RelativeFits(f.level, PackageOf(m))
                   /\ base = ResolveRelative(f.level, f.base, PackageOf(m))
  BY <1>1, <1>2, <1>3 DEF Means
<1>5. f \in catalog.facts /\ catalog \in Catalogs
  BY DEF IInv, Interpreted
<1>6. f.from
  BY <1>4, <1>5, CatalogsAssumption
<1>7. OwnInitializer(f, base) /\ Child(f, base) = {}
  BY <1>2, <1>4 DEF FromBase
<1> DEFINE own == BoundTo(base)
<1>8. own \in catalog.modules /\ own.status = "bound" /\ own.name = base /\ own.isPackage /\ own.id = f.source
  BY <1>7, BoundToSource DEF OwnInitializer
<1>9. NamedBy(own.name) = {own}
  BY <1>5, <1>7, <1>8, BoundIsAlone DEF OwnInitializer
<1> HIDE DEF own
<1>10. \A m \in catalog.modules : m.id = f.source => m = own
  BY <1>5, <1>8, CatalogsAssumption
<1>11. \A m \in PackageContext(f) : PackageOf(m) = own.name
  BY <1>8, <1>10 DEF PackageContext, SourceOf, PackageOf
<1>12. \/ f.level = 0 /\ f.base = own.name
       \/ f.level > 0 /\ RelativeFits(f.level, own.name) /\ ResolveRelative(f.level, f.base, own.name) = own.name
  BY <1>4, <1>8, <1>11
<1>13. FromOwnPackage(f)
  BY <1>6, <1>8, <1>9, <1>12 DEF FromOwnPackage
<1>14. PlainAttribute(f, own.name)
  BY <1>7, <1>8, ChildlessIsPlain
<1> QED BY <1>10, <1>13, <1>14

\* No import vanishes in _ResolutionSession.resolve, whatever the catalogue: the only fact
\* without an outcome is an initializer's import, from its own package, of the wildcard or of
\* a plain attribute, which names no source and stands for no declared target.
THEOREM NoImportVanishes == Spec => []NoFactLost
BY InitInv, NextPreserves, InvNoFactLost, PTL DEF Spec

\* A name that two eligible sources carry is contested.
LEMMA TwoSourcesContest ==
  ASSUME catalog \in Catalogs, NEW m \in catalog.modules, NEW n \in catalog.modules,
         m # n, m.name = n.name, m.name # NoName,
         {m.status, n.status} \subseteq {"bound", "ambiguous"}
  PROVE  m.name \in Ambiguous
<1>1. m \in NamedBy(m.name) /\ n \in NamedBy(m.name)
  BY DEF NamedBy
<1>2. IsFiniteSet(NamedBy(m.name))
  <2>1. IsFiniteSet(catalog.modules) /\ NamedBy(m.name) \subseteq catalog.modules
    BY CatalogsAssumption DEF NamedBy
  <2> QED BY <2>1, FS_Subset
<1>3. Cardinality(NamedBy(m.name)) # 1
  BY <1>1, <1>2, FS_Singleton
<1>4. m.name \in Names
  BY <1>1 DEF Names
<1> QED BY <1>3, <1>4 DEF Ambiguous, Contested

LEMMA InvContestedNeverResolved == IInv => ContestedNeverResolved
<1> SUFFICES ASSUME IInv,
                    NEW m \in catalog.modules, NEW n \in catalog.modules,
                    m # n, m.name = n.name, m.name # NoName,
                    {m.status, n.status} \subseteq {"bound", "ambiguous"}
             PROVE  /\ \A o \in Dependencies : \A t \in catalog.modules :
                         t.id = o.target => m.name \notin Lineage(t.name)
                    /\ \A o \in outcomes :
                         o.as = "unresolved" /\ o.how = "ambiguous_target" => errors # {}
  BY DEF ContestedNeverResolved
<1>1. ASSUME NEW o \in Dependencies, NEW t \in catalog.modules, t.id = o.target
      PROVE  m.name \notin Lineage(t.name)
  <2>1. o \in outcomes /\ o.as = "dependency"
    BY DEF Dependencies
  <2>2. PICK b \in BoundNames : ~AmbiguousName(b) /\ o.target = BoundTo(b).id
    BY <2>1, OutcomeOrigin
  <2>3. catalog \in Catalogs
    BY <2>1 DEF IInv
  <2>4. t.name = b
    BY <1>1, <2>2, <2>3, BoundToSource, CatalogsAssumption
  <2>5. m.name \in Ambiguous
    BY <2>3, TwoSourcesContest
  <2> QED BY <2>2, <2>4, <2>5 DEF AmbiguousName
<1> QED BY <1>1 DEF IInv

\* An import whose name, or a package above it, two sources claim never becomes a dependency,
\* and is always reported (BindingIndex.ambiguous, _ResolutionSession.dependency).
THEOREM ContestedNamesAreRefused == Spec => []ContestedNeverResolved
BY InitInv, NextPreserves, InvContestedNeverResolved, PTL DEF Spec

\* A boundary is recorded for a declared name only, as target_for describes it.
LEMMA BoundaryOfName ==
  ASSUME NEW f, NEW os, Means(f, os), NEW o \in os, o.as = "boundary"
  PROVE  \E n : o.boundary = Boundary(n)
<1>1. \A n, reason : \A u \in Unresolved(f, n, reason) : u.as = "unresolved"
  BY DEF Unresolved
<1>2. \A n, how : \A d \in Dependency(f, n, how) : d.as = "dependency"
  BY DEF Dependency
<1>3. \A n : o \in Absent(f, n) => o.boundary = Boundary(n)
  BY <1>1 DEF Absent
<1>4. \A n, how : o \in Requested(f, n, how) => o.boundary = Boundary(n)
  BY <1>1, <1>2, <1>3 DEF Requested
<1>5. \A base : o \in Child(f, base) => o.boundary = Boundary(Append(base, f.imported))
  BY <1>3, <1>4 DEF Child
<1>6. \A base : o \in FromBase(f, base) => \E n : o.boundary = Boundary(n)
  BY <1>4, <1>5 DEF FromBase
<1> QED BY <1>1, <1>4, <1>6 DEF Means

\* The order of the kinds of declarations.
LEMMA StrongestKind ==
  ASSUME NEW kinds
  PROVE  /\ "native" \in kinds => Strongest(kinds) = "native"
         /\ "native" \notin kinds /\ "generated" \in kinds => Strongest(kinds) = "generated"
         /\ "native" \notin kinds /\ "generated" \notin kinds /\ "stub" \in kinds
              => Strongest(kinds) = "stub"
         /\ kinds \cap {"native", "generated", "stub"} = {} => Strongest(kinds) = "excluded"
BY DEF Strongest

LEMMA InvAcceptedBoundary == IInv => AcceptedBoundaryCoversStrongest
<1> DEFINE rank == [native |-> 4, generated |-> 3, stub |-> 2, excluded |-> 1]
<1> SUFFICES ASSUME IInv, NEW o \in outcomes, o.as = "boundary", o.boundary.acknowledged,
                    {t \in catalog.targets : t.name = o.boundary.name} # {}
             PROVE  \E t \in {u \in catalog.targets : u.name = o.boundary.name} :
                      /\ t.acknowledged
                      /\ \A u \in {v \in catalog.targets : v.name = o.boundary.name} :
                           rank[u.kind] <= rank[t.kind]
  BY DEF AcceptedBoundaryCoversStrongest
<1>1. PICK f \in Interpreted : o \in Outcomes(f) /\ Means(f, Outcomes(f))
  BY OutcomeOrigin
<1>2. PICK n : o.boundary = Boundary(n)
  BY <1>1, BoundaryOfName
<1> DEFINE named == {t \in catalog.targets : t.name = n}
           kinds == {t.kind : t \in named}
<1>3. Boundary(n).name = n
  BY DEF Boundary
<1>4. named # {}
  BY <1>2, <1>3
<1>5. Declarations(n) = named
  BY <1>4 DEF Declarations
<1>6. PICK t \in named : t.acknowledged /\ t.kind = Strongest(kinds)
  <2> DEFINE kind == Strongest({t.kind : t \in Declarations(n)})
             accepted == \E t \in Declarations(n) : t.kind = kind /\ t.acknowledged
  <2>1. Boundary(n) = [name |-> n, kind |-> kind, acknowledged |-> accepted]
    BY DEF Boundary
  <2>2. kind = Strongest(kinds)
    BY <1>5
  <2>3. accepted = \E t \in named : t.kind = Strongest(kinds) /\ t.acknowledged
    BY <1>5
  <2> HIDE DEF kind, accepted, named, kinds
  <2>4. Boundary(n).acknowledged = accepted
    BY <2>1
  <2>5. accepted
    BY <1>2, <2>4
  <2> QED BY <2>3, <2>5
<1>7. \A u \in named : u.kind \in {"native", "generated", "stub", "excluded"}
  <2>1. catalog \in Catalogs
    BY DEF IInv
  <2> QED BY <2>1, CatalogsAssumption
<1>8. ASSUME NEW u \in named PROVE rank[u.kind] <= rank[t.kind]
  <2>1. u.kind \in kinds /\ u.kind \in {"native", "generated", "stub", "excluded"}
    BY <1>7
  <2> HIDE DEF kinds
  <2>2. t.kind = Strongest(kinds)
    BY <1>6
  <2>3. CASE "native" \in kinds
    BY <2>1, <2>2, <2>3, StrongestKind
  <2>4. CASE "native" \notin kinds /\ "generated" \in kinds
    BY <2>1, <2>2, <2>4, StrongestKind
  <2>5. CASE "native" \notin kinds /\ "generated" \notin kinds /\ "stub" \in kinds
    BY <2>1, <2>2, <2>5, StrongestKind
  <2>6. CASE kinds \cap {"native", "generated", "stub"} = {}
    BY <2>1, <2>2, <2>6, StrongestKind
  <2> QED BY <2>3, <2>4, <2>5, <2>6
<1> QED BY <1>2, <1>3, <1>6, <1>8

\* An acknowledgement accepts a boundary only if it speaks of the strongest declaration of
\* that name (_ResolutionSession.target_for), however many declarations there are.
THEOREM AcknowledgementIsNotBorrowed == Spec => []AcceptedBoundaryCoversStrongest
BY InitInv, NextPreserves, InvAcceptedBoundary, PTL DEF Spec
-----------------------------------------------------------------------------
(* What the policy keeps and what it drops, fact by fact.                  *)

\* The policy removes redundant bases only: a fact that supported some dependency still
\* supports one after the selection.
SupportSurvives ==
  phase = "selected" =>
    \A o \in Dependencies : \E p \in selected : p.fact = o.fact /\ p.source = o.source

\* After the selection one imported item supports at most one architecture dependency: the
\* package base and the child are never both counted.
OneEdgePerFact ==
  \A o, p \in selected : o.fact = p.fact => o = p

LEMMA InvSupportSurvives == IInv => SupportSurvives
BY DEF IInv, SupportSurvives, Redundant, Dependencies

\* ArchitectureDependencyPolicy.select takes the last dependency from no fact.
THEOREM SelectionKeepsSupport == Spec => []SupportSurvives
BY InitInv, NextPreserves, InvSupportSurvives, PTL DEF Spec

LEMMA InvOneEdgePerFact == IInv => OneEdgePerFact
<1> SUFFICES ASSUME IInv, NEW o \in selected, NEW p \in selected, o.fact = p.fact
             PROVE  o = p
  BY DEF OneEdgePerFact
<1>1. /\ o \in Dependencies /\ ~Redundant(o)
      /\ p \in Dependencies /\ ~Redundant(p)
  BY DEF IInv
<1>2. o \in outcomes /\ p \in outcomes /\ o.as = "dependency" /\ p.as = "dependency"
  BY <1>1 DEF Dependencies
<1>3. PICK f \in Interpreted : o \in Outcomes(f) /\ Means(f, Outcomes(f)) /\ OutcomeOf(o, f)
  BY <1>2, OutcomeOrigin
<1>4. p \in Outcomes(f)
  BY <1>2, <1>3 DEF Outcomes, OutcomeOf
<1>5. OutcomeOf(p, f)
  BY <1>3, <1>4, MeaningBelongs
<1>6. o.source = p.source
  BY <1>3, <1>5 DEF OutcomeOf
<1> QED BY <1>1, <1>2, <1>3, <1>4, <1>6, OneDependencyEachWay DEF Redundant

\* After the selection an imported item supports at most one dependency: a package base and
\* its child are never both counted.
THEOREM OneDependencyPerImport == Spec => []OneEdgePerFact
BY InitInv, NextPreserves, InvOneEdgePerFact, PTL DEF Spec
-----------------------------------------------------------------------------
(* The abstract specification.  First, a name leads to the same source     *)
(* there and here; then, so does a statement; then, dropping bases at the  *)
(* end is preferring children statement by statement.                      *)

\* Names are the same on both sides.
LEMMA NamesAgree ==
  /\ AtOnce!NoName = NoName
  /\ \A n : AtOnce!Lineage(n) = Lineage(n)
  /\ \A level, package : AtOnce!RelativeFits(level, package) <=> RelativeFits(level, package)
  /\ \A level, base, package :
       AtOnce!ResolveRelative(level, base, package) = ResolveRelative(level, base, package)
BY DEF AtOnce!NoName, NoName, AtOnce!Lineage, Lineage, AtOnce!RelativeFits, RelativeFits,
       AtOnce!ResolveRelative, ResolveRelative

\* A source has a name to itself there if the index binds the name to it.
LEMMA HasIsBound ==
  ASSUME catalog \in Catalogs, NEW n, NEW m
  PROVE  AtOnce!Has(m, n) <=> n \in BoundNames /\ m = BoundTo(n)
<1>1. AtOnce!Claimants(n) = NamedBy(n)
  BY NamesAgree DEF AtOnce!Claimants, NamedBy
<1>2. IsFiniteSet(NamedBy(n))
  <2>1. IsFiniteSet(catalog.modules) /\ NamedBy(n) \subseteq catalog.modules
    BY CatalogsAssumption DEF NamedBy
  <2> QED BY <2>1, FS_Subset
<1>3. ASSUME NamedBy(n) = {m}, m.status = "bound" PROVE n \in BoundNames /\ m = BoundTo(n)
  <2>1. BoundTo(n) = m
    BY <1>3 DEF BoundTo
  <2>2. ~Contested(n)
    BY <1>3, FS_Singleton DEF Contested
  <2>3. m \in catalog.modules /\ m.name = n
    BY <1>3 DEF NamedBy
  <2> QED BY <1>3, <2>1, <2>2, <2>3 DEF BoundNames, Names
<1>4. ASSUME n \in BoundNames, m = BoundTo(n) PROVE NamedBy(n) = {m} /\ m.status = "bound"
  <2>1. m \in NamedBy(n) /\ m.status = "bound"
    BY <1>4, BoundToSource
  <2>2. Cardinality(NamedBy(n)) = 1
    BY <1>4 DEF BoundNames, Contested
  <2> QED BY <1>2, <2>1, <2>2, FS_Singleton
<1> QED BY <1>1, <1>3, <1>4 DEF AtOnce!Has

\* More than one location is two different ones.
LEMMA CompetingConflicts ==
  ASSUME catalog \in Catalogs, NEW n
  PROVE  AtOnce!Competing(n) <=> n \in NativeConflicts
<1> DEFINE places == {t.directory : t \in {u \in Natives(n) : u.shape # "none"}}
<1>1. Cardinality(places) > 1 <=> \E a, b \in places : a # b
  <2>1. IsFiniteSet(places)
    <3> DEFINE located == {u \in Natives(n) : u.shape # "none"}
               place   == [t \in located |-> t.directory]
    <3>1. IsFiniteSet(catalog.targets) /\ located \subseteq catalog.targets
      BY CatalogsAssumption DEF Natives
    <3>2. IsFiniteSet(located)
      BY <3>1, FS_Subset
    <3>3. place = [t \in located |-> place[t]] /\ places = {place[t] : t \in located}
      OBVIOUS
    <3> HIDE DEF place, located, places
    <3> QED BY <3>2, <3>3, FiniteImage
  <2>2. ASSUME NEW a \in places, NEW b \in places, a # b PROVE Cardinality(places) > 1
    BY <2>1, <2>2, TwoMembers
  <2>3. ASSUME Cardinality(places) > 1 PROVE \E a, b \in places : a # b
    <3>1. places # {}
      BY <2>3, FS_EmptySet
    <3>2. PICK a : a \in places
      BY <3>1
    <3>3. places # {a}
      BY <2>3, FS_Singleton
    <3> QED BY <3>2, <3>3
  <2> QED BY <2>2, <2>3
<1>2. (\E m \in catalog.modules : AtOnce!Has(m, n)) <=> n \in BoundNames
  BY HasIsBound, BoundToSource
<1>3. (\E a, b \in places : a # b) <=>
      \E t, u \in Natives(n) : t.shape # "none" /\ u.shape # "none" /\ t.directory # u.directory
  OBVIOUS
<1>4. Natives(n) = {t \in catalog.targets : t.name = n /\ t.kind = "native"}
  BY DEF Natives
<1>5. AtOnce!Competing(n) <=>
        Cardinality(places) > 1 \/ (n \in BoundNames /\ \E t \in Natives(n) : t.shape = "artifact")
  BY <1>1, <1>2, <1>3, <1>4 DEF AtOnce!Competing
<1>6. Cardinality(places) > 1 \/ (n \in BoundNames /\ \E t \in Natives(n) : t.shape = "artifact")
        => n \in {t.name : t \in catalog.targets}
  BY <1>1, <1>3, <1>4
<1> QED BY <1>5, <1>6 DEF NativeConflicts

\* A name leads to the source it is bound to, unless it is ambiguous.
LEMMA LeadsToBound ==
  ASSUME catalog \in Catalogs, NEW n, NEW m
  PROVE  AtOnce!Leads(n, m) <=> n \in BoundNames /\ ~AmbiguousName(n) /\ m = BoundTo(n)
<1>1. ASSUME NEW a PROVE AtOnce!Doubtful(a) <=> a \in Ambiguous
  <2>1. AtOnce!Claimants(a) = NamedBy(a)
    BY NamesAgree DEF AtOnce!Claimants, NamedBy
  <2>2. (\E x \in catalog.modules : AtOnce!Has(x, a)) <=> a \in BoundNames
    BY HasIsBound, BoundToSource
  <2>3. a \in Names <=> NamedBy(a) # {}
    BY DEF Names, NamedBy
  <2>4. a \in Names /\ Contested(a) <=> NamedBy(a) # {} /\ a \notin BoundNames
    BY <2>3 DEF BoundNames
  <2> QED BY <2>1, <2>2, <2>4, CompetingConflicts DEF AtOnce!Doubtful, Ambiguous
<1>2. (\A a \in Lineage(n) : ~AtOnce!Doubtful(a)) <=> ~AmbiguousName(n)
  BY <1>1 DEF AmbiguousName
<1> QED BY <1>2, HasIsBound, NamesAgree DEF AtOnce!Leads

\* the record of a dependency
DependencyOn(f, m, how) ==
  [as |-> "dependency", fact |-> f.id, source |-> f.source, target |-> m.id, how |-> how]

\* The dependencies a requested name is recorded as are those on the source it leads to.
LEMMA RequestedLeads ==
  ASSUME catalog \in Catalogs, NEW f, NEW n, NEW how, NEW o
  PROVE  o \in Requested(f, n, how) /\ o.as = "dependency" <=>
           \E m \in catalog.modules : AtOnce!Leads(n, m) /\ o = DependencyOn(f, m, how)
<1>1. CASE n \in BoundNames /\ ~AmbiguousName(n)
  <2>1. Requested(f, n, how) = {DependencyOn(f, BoundTo(n), how)}
    BY <1>1 DEF Requested, Dependency, DependencyOn
  <2>2. DependencyOn(f, BoundTo(n), how).as = "dependency"
    BY DEF DependencyOn
  <2>3. BoundTo(n) \in catalog.modules
    BY <1>1, BoundToSource
  <2> QED BY <1>1, <2>1, <2>2, <2>3, LeadsToBound
<1>2. CASE ~(n \in BoundNames /\ ~AmbiguousName(n))
  <2>1. o \in Requested(f, n, how) => o.as # "dependency"
    BY <1>2, RequestedIsOne
  <2> QED BY <1>2, <2>1, LeadsToBound
<1> QED BY <1>1, <1>2

LEMMA ChildLeads ==
  ASSUME catalog \in Catalogs, NEW f, NEW base, NEW o
  PROVE  o \in Child(f, base) /\ o.as = "dependency" <=>
           /\ f.imported \notin {"none", "*"}
           /\ \E m \in catalog.modules : /\ AtOnce!Leads(Append(base, f.imported), m)
                                         /\ o = DependencyOn(f, m, "probable_submodule")
<1> DEFINE n == Append(base, f.imported)
<1>1. CASE f.imported \in {None, "*"}
  BY <1>1 DEF Child, None
<1>2. CASE f.imported \notin {None, "*"} /\ n \in Names
  BY <1>2, RequestedLeads DEF Child, None
<1>3. CASE f.imported \notin {None, "*"} /\ n \notin Names
  <2>1. o \in Child(f, base) => o.as # "dependency"
    BY <1>3, AbsentIsOne DEF Child
  <2>2. n \notin BoundNames
    BY <1>3 DEF BoundNames
  <2> HIDE DEF n
  <2>3. \A m : ~AtOnce!Leads(n, m)
    BY <2>2, LeadsToBound
  <2> QED BY <2>1, <2>3 DEF n
<1> QED BY <1>1, <1>2, <1>3

LEMMA FromBaseLeads ==
  ASSUME catalog \in Catalogs, NEW f, NEW base, NEW o
  PROVE  o \in FromBase(f, base) /\ o.as = "dependency" <=>
           \/ \E m \in catalog.modules : /\ AtOnce!Leads(base, m) /\ ~(m.isPackage /\ m.id = f.source)
                                         /\ o = DependencyOn(f, m, "exact_base")
           \/ /\ f.imported \notin {"none", "*"}
              /\ \E m \in catalog.modules : /\ AtOnce!Leads(Append(base, f.imported), m)
                                            /\ o = DependencyOn(f, m, "probable_submodule")
<1>1. o \in FromBase(f, base) <=>
        o \in Child(f, base) \/ (~OwnInitializer(f, base) /\ o \in Requested(f, base, "exact_base"))
  BY DEF FromBase
<1>2. ASSUME NEW m, AtOnce!Leads(base, m)
      PROVE  OwnInitializer(f, base) <=> m.isPackage /\ m.id = f.source
  BY <1>2, LeadsToBound DEF OwnInitializer
<1>3. o \in Child(f, base) /\ o.as = "dependency" <=>
        /\ f.imported \notin {"none", "*"}
        /\ \E m \in catalog.modules : /\ AtOnce!Leads(Append(base, f.imported), m)
                                      /\ o = DependencyOn(f, m, "probable_submodule")
  BY ChildLeads
<1>4. o \in Requested(f, base, "exact_base") /\ o.as = "dependency" <=>
        \E m \in catalog.modules : AtOnce!Leads(base, m) /\ o = DependencyOn(f, m, "exact_base")
  BY RequestedLeads
<1> QED BY <1>1, <1>2, <1>3, <1>4

\* how a statement comes by the source of its base
BaseKind(f) == IF f.from THEN "exact_base" ELSE "exact_module"

\* What one statement is recorded to depend on is what it may support there.
LEMMA MeaningLeads ==
  ASSUME catalog \in Catalogs, NEW f \in catalog.facts, NEW os, Means(f, os), NEW o
  PROVE  o \in os /\ o.as = "dependency" <=>
           \/ \E m \in catalog.modules : AtOnce!Base(f, m) /\ o = DependencyOn(f, m, BaseKind(f))
           \/ \E m \in catalog.modules : AtOnce!Submodule(f, m) /\ o = DependencyOn(f, m, "probable_submodule")
<1>1. f.level \in Nat /\ (f.level > 0 => f.from)
  BY CatalogsAssumption
<1>2. CASE ~f.from
  <2>1. os = Requested(f, f.base, "exact_module") /\ f.level = 0
    BY <1>1, <1>2 DEF Means
  <2>2. AtOnce!Bases(f) = {f.base}
    BY <2>1 DEF AtOnce!Bases
  <2>3. \A m : AtOnce!Base(f, m) <=> AtOnce!Leads(f.base, m)
    BY <1>2, <2>2 DEF AtOnce!Base
  <2>4. \A m : ~AtOnce!Submodule(f, m)
    BY <1>2 DEF AtOnce!Submodule
  <2> QED BY <1>2, <2>1, <2>3, <2>4, RequestedLeads DEF BaseKind
<1>3. ASSUME f.from, NEW base, AtOnce!Bases(f) = {base}, os = FromBase(f, base)
      PROVE  o \in os /\ o.as = "dependency" <=>
               \/ \E m \in catalog.modules : AtOnce!Base(f, m) /\ o = DependencyOn(f, m, BaseKind(f))
               \/ \E m \in catalog.modules : AtOnce!Submodule(f, m) /\ o = DependencyOn(f, m, "probable_submodule")
  <2>1. \A m : AtOnce!Base(f, m) <=> AtOnce!Leads(base, m) /\ ~(m.isPackage /\ m.id = f.source)
    BY <1>3 DEF AtOnce!Base
  <2>2. \A m : AtOnce!Submodule(f, m) <=>
                 f.imported \notin {"none", "*"} /\ AtOnce!Leads(Append(base, f.imported), m)
    BY <1>3 DEF AtOnce!Submodule
  <2>3. BaseKind(f) = "exact_base"
    BY <1>3 DEF BaseKind
  <2>4. o \in FromBase(f, base) /\ o.as = "dependency" <=>
          \/ \E m \in catalog.modules : /\ AtOnce!Leads(base, m) /\ ~(m.isPackage /\ m.id = f.source)
                                        /\ o = DependencyOn(f, m, "exact_base")
          \/ /\ f.imported \notin {"none", "*"}
             /\ \E m \in catalog.modules : /\ AtOnce!Leads(Append(base, f.imported), m)
                                           /\ o = DependencyOn(f, m, "probable_submodule")
    BY FromBaseLeads
  <2> QED BY <1>3, <2>1, <2>2, <2>3, <2>4
<1>4. CASE f.from /\ f.level = 0
  <2>1. os = FromBase(f, f.base)
    BY <1>4 DEF Means
  <2>2. AtOnce!Bases(f) = {f.base}
    BY <1>4 DEF AtOnce!Bases
  <2> QED BY <1>3, <1>4, <2>1, <2>2
<1>5. CASE f.from /\ f.level > 0
  <2>1. \A m : PackageOf(m) = AtOnce!Home(m)
    BY DEF PackageOf, AtOnce!Home
  <2> DEFINE fitting == {m \in PackageContext(f) : RelativeFits(f.level, PackageOf(m))}
  <2>2. AtOnce!Bases(f) = {ResolveRelative(f.level, f.base, PackageOf(m)) : m \in fitting}
    <3>1. f.level # 0
      BY <1>1, <1>5
    <3>2. fitting = {x \in catalog.modules : /\ x.id = f.source /\ x.status # "path_only" /\ x.name # NoName
                                             /\ RelativeFits(f.level, AtOnce!Home(x))}
      BY <2>1 DEF PackageContext, SourceOf
    <3>3. fitting = {x \in catalog.modules : /\ x.id = f.source /\ x.status # "path_only" /\ x.name # AtOnce!NoName
                                             /\ AtOnce!RelativeFits(f.level, AtOnce!Home(x))}
      BY <3>2, NamesAgree
    <3>4. AtOnce!Bases(f) = {AtOnce!ResolveRelative(f.level, f.base, AtOnce!Home(m)) : m \in fitting}
      BY <3>1, <3>3 DEF AtOnce!Bases
    <3> HIDE DEF fitting
    <3> QED BY <2>1, <3>4, NamesAgree
  <2>3. \A m, x \in PackageContext(f) : m = x
    BY CatalogsAssumption DEF PackageContext, SourceOf
  <2>4. CASE fitting = {}
    <3>1. AtOnce!Bases(f) = {}
      BY <2>2, <2>4
    <3>2. \A m : ~AtOnce!Base(f, m) /\ ~AtOnce!Submodule(f, m)
      BY <3>1 DEF AtOnce!Base, AtOnce!Submodule
    <3>3. \E reason : os = Unresolved(f, f.base, reason)
      BY <1>1, <1>5, <2>4 DEF Means
    <3> QED BY <3>2, <3>3, UnresolvedIsOne
  <2>5. CASE fitting # {}
    <3>1. PICK m : m \in fitting
      BY <2>5
    <3>2. fitting = {m}
      BY <2>3, <3>1
    <3> DEFINE base == ResolveRelative(f.level, f.base, PackageOf(m))
    <3>3. AtOnce!Bases(f) = {base}
      BY <2>2, <3>2
    <3>4. os = FromBase(f, base)
      BY <1>1, <1>5, <2>3, <3>1 DEF Means
    <3> HIDE DEF base
    <3> QED BY <1>3, <1>5, <3>3, <3>4
  <2> QED BY <2>4, <2>5
<1> QED BY <1>1, <1>2, <1>4, <1>5

\* what the abstract specification shows of an outcome
Shown(o) == [fact |-> o.fact, source |-> o.source, target |-> o.target]

\* Dropping the bases that a child makes redundant leaves what the statements support.
LEMMA SelectionIsSupport ==
  ASSUME IInv, pending = {}, catalog \in Catalogs
  PROVE  {Shown(o) : o \in {p \in Dependencies : ~Redundant(p)}} =
         {[fact |-> p[1].id, source |-> p[1].source, target |-> p[2].id] :
            p \in {q \in catalog.facts \X catalog.modules : AtOnce!Supports(q[1], q[2])}}
<1> DEFINE kept == {p \in Dependencies : ~Redundant(p)}
           Edge(f, m) == [fact |-> f.id, source |-> f.source, target |-> m.id]
           supported == {p \in catalog.facts \X catalog.modules : AtOnce!Supports(p[1], p[2])}
<1>1. Interpreted = catalog.facts /\ \A f, g \in catalog.facts : f.id = g.id => f = g
  BY CatalogsAssumption DEF Interpreted
<1>2. \A f, m, how : /\ Shown(DependencyOn(f, m, how)) = Edge(f, m)
                     /\ DependencyOn(f, m, how).how = how /\ DependencyOn(f, m, how).as = "dependency"
                     /\ DependencyOn(f, m, how).fact = f.id /\ DependencyOn(f, m, how).source = f.source
  BY DEF Shown, DependencyOn
<1>3. ASSUME NEW f \in catalog.facts, NEW o
      PROVE  o \in Dependencies /\ o.fact = f.id <=>
               \/ \E m \in catalog.modules : AtOnce!Base(f, m) /\ o = DependencyOn(f, m, BaseKind(f))
               \/ \E m \in catalog.modules : AtOnce!Submodule(f, m) /\ o = DependencyOn(f, m, "probable_submodule")
  <2>1. Means(f, Outcomes(f))
    BY <1>1 DEF IInv
  <2>2. o \in Dependencies /\ o.fact = f.id <=> o \in Outcomes(f) /\ o.as = "dependency"
    BY DEF Dependencies, Outcomes
  <2> QED BY <2>1, <2>2, MeaningLeads
<1>4. ASSUME NEW f \in catalog.facts, NEW m \in catalog.modules
      PROVE  /\ AtOnce!Submodule(f, m) => DependencyOn(f, m, "probable_submodule") \in kept
             /\ AtOnce!Base(f, m) /\ ~(\E x \in catalog.modules : AtOnce!Submodule(f, x))
                  => DependencyOn(f, m, BaseKind(f)) \in kept
  <2>1. ASSUME AtOnce!Submodule(f, m) PROVE DependencyOn(f, m, "probable_submodule") \in kept
    BY <1>2, <1>3, <2>1 DEF Redundant
  <2>2. ASSUME AtOnce!Base(f, m), ~\E x \in catalog.modules : AtOnce!Submodule(f, x)
        PROVE  DependencyOn(f, m, BaseKind(f)) \in kept
    <3>1. DependencyOn(f, m, BaseKind(f)) \in Dependencies
      BY <1>2, <1>3, <2>2
    <3>2. \A p \in Dependencies : p.fact = f.id => p.how # "probable_submodule"
      BY <1>2, <1>3, <2>2 DEF BaseKind
    <3> QED BY <1>2, <3>1, <3>2 DEF Redundant
  <2> QED BY <2>1, <2>2
<1>5. ASSUME NEW p \in supported PROVE \E o \in kept : Shown(o) = Edge(p[1], p[2])
  <2>1. p[1] \in catalog.facts /\ p[2] \in catalog.modules /\ AtOnce!Supports(p[1], p[2])
    OBVIOUS
  <2>2. \/ DependencyOn(p[1], p[2], "probable_submodule") \in kept
        \/ DependencyOn(p[1], p[2], BaseKind(p[1])) \in kept
    BY <1>4, <2>1 DEF AtOnce!Supports
  <2> HIDE DEF kept, supported
  <2> QED BY <1>2, <2>2
<1>6. ASSUME NEW o \in kept PROVE \E p \in supported : Shown(o) = Edge(p[1], p[2])
  <2>1. o \in outcomes /\ o \in Dependencies /\ ~Redundant(o)
    BY DEF Dependencies
  <2>2. PICK f \in catalog.facts : o.fact = f.id
    BY <1>1, <2>1 DEF IInv
  <2>3. CASE \E m \in catalog.modules : AtOnce!Submodule(f, m) /\ o = DependencyOn(f, m, "probable_submodule")
    <3>1. PICK m \in catalog.modules : AtOnce!Submodule(f, m) /\ o = DependencyOn(f, m, "probable_submodule")
      BY <2>3
    <3>2. <<f, m>> \in supported
      BY <3>1 DEF AtOnce!Supports
    <3> HIDE DEF supported, kept
    <3> QED BY <1>2, <3>1, <3>2
  <2>4. CASE \E m \in catalog.modules : AtOnce!Base(f, m) /\ o = DependencyOn(f, m, BaseKind(f))
    <3>1. PICK m \in catalog.modules : AtOnce!Base(f, m) /\ o = DependencyOn(f, m, BaseKind(f))
      BY <2>4
    <3>2. ASSUME NEW x \in catalog.modules, AtOnce!Submodule(f, x) PROVE FALSE
      <4>1. f.from
        BY <3>2 DEF AtOnce!Submodule
      <4>2. o.how = "exact_base"
        BY <1>2, <3>1, <4>1 DEF BaseKind
      <4>3. DependencyOn(f, x, "probable_submodule") \in Dependencies
        BY <1>3, <3>2
      <4> QED BY <1>2, <2>1, <3>1, <4>2, <4>3 DEF Redundant
    <3>3. <<f, m>> \in supported
      BY <3>1, <3>2 DEF AtOnce!Supports
    <3> HIDE DEF supported, kept
    <3> QED BY <1>2, <3>1, <3>3
  <2> QED BY <1>3, <2>1, <2>2, <2>3, <2>4
<1> HIDE DEF kept, supported
<1>7. {Shown(o) : o \in kept} = {Edge(p[1], p[2]) : p \in supported}
  BY <1>5, <1>6
<1> QED BY <1>7 DEF kept, supported

\* what the abstract specification's variables are here
Stage             == IF phase = "resolved" THEN "resolving" ELSE phase
DependenciesShown == {[fact |-> o.fact, source |-> o.source, target |-> o.target] : o \in selected}

LEMMA InitImplements == Init => AtOnce!Init
BY DEF Init, AtOnce!Init, AtOnce!NoCatalog

LEMMA StepImplements ==
  ASSUME IInv, [Next]_vars
  PROVE  [AtOnce!Next]_<<catalog, Stage, DependenciesShown>>
<1>1. ASSUME NEW c \in Catalogs, Begin(c) PROVE AtOnce!Begin
  BY <1>1 DEF Begin, AtOnce!Begin, IInv
<1>2. CASE ResolveFact
  <2>1. UNCHANGED <<catalog, phase, selected>>
    BY <1>2 DEF ResolveFact, ResolveImport, ResolveAbsoluteFrom, ResolveWithoutContext, ResolveEscape,
                ResolveRelativeFrom, Record
  <2> QED BY <2>1 DEF Stage, DependenciesShown
<1>3. CASE Finish
  <2>1. phase = "resolving" /\ phase' = "resolved" /\ UNCHANGED <<catalog, selected>>
    BY <1>3 DEF Finish
  <2> QED BY <2>1 DEF Stage, DependenciesShown
<1>4. CASE Select
  <2>1. /\ phase = "resolved" /\ phase' = "selected" /\ catalog' = catalog
        /\ selected' = {o \in Dependencies : ~Redundant(o)}
    BY <1>4 DEF Select
  <2>2. pending = {} /\ catalog \in Catalogs
    BY <2>1 DEF IInv
  <2>3. {Shown(o) : o \in selected'} =
        {[fact |-> p[1].id, source |-> p[1].source, target |-> p[2].id] :
           p \in {q \in catalog.facts \X catalog.modules : AtOnce!Supports(q[1], q[2])}}
    BY <2>1, <2>2, SelectionIsSupport
  <2>4. AtOnce!Judge
    BY <2>1, <2>3 DEF AtOnce!Judge, Shown
  <2> QED BY <2>4 DEF AtOnce!Next
<1>5. CASE UNCHANGED vars
  BY <1>5 DEF vars, Stage, DependenciesShown
<1> QED BY <1>1, <1>2, <1>3, <1>4, <1>5 DEF Next, AtOnce!Next

\* Whatever the order of the facts, going through them one by one and dropping bases at the
\* end (_ResolutionSession.resolve, ArchitectureDependencyPolicy.select) comes to judging
\* every statement by itself.
THEOREM ResolutionImplementsAtOnce == Spec => ImplementsAtOnce
<1>1. IInv /\ [Next]_vars => [AtOnce!Next]_<<catalog, Stage, DependenciesShown>>
  BY StepImplements
<1> QED BY <1>1, InitInv, NextPreserves, InitImplements, PTL
        DEF Spec, ImplementsAtOnce, AtOnce!Spec, Stage, DependenciesShown
=============================================================================
