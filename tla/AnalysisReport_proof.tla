------------------------ MODULE AnalysisReport_proof ------------------------
(***************************************************************************)
(* For every project: which exit codes can be trusted, what accepts a      *)
(* boundary, and what a complete analysis promises of sources and targets. *)
(* The invariant carries the meaning of boundaries and errors from the     *)
(* resolution through the diagnostics to the exit code.                    *)
(***************************************************************************)
EXTENDS AnalysisReport, CommonLemmas, SequenceTheorems

\* a boundary is what the declarations of its name say
BoundaryHonest(o) ==
  o.as = "boundary" =>
    /\ o.boundary = Resolution!Boundary(o.boundary.name)
    /\ Resolution!Declarations(o.boundary.name) # {}

\* an external name lies below nothing the project owns
ExternalHonest(o) ==
  o.as = "external" =>
    /\ o.requested \in Seq(STRING) /\ o.requested # NoName
    /\ Resolution!Lineage(o.requested) \cap Resolution!Owned = {}

\* and an import that is ambiguous or has no package is an error
Honest(o) ==
  /\ BoundaryHonest(o) /\ ExternalHonest(o)
  /\ o.as = "unresolved" /\ o.how \in {"ambiguous_target", "unknown_package_context"} => errors # {}

\* the outcomes that a fact without leading dots must have
Interpreted(f) ==
  /\ ~f.from => Resolution!Requested(f, f.base, "exact_module") \subseteq outcomes
  /\ f.from /\ f.level = 0 => Resolution!FromBase(f, f.base) \subseteq outcomes

\* what is resolved is the project, with its options accepted
Accepted ==
  /\ ValidOptions /\ ~KindsDisagree
  /\ catalog = [modules |-> project.modules, namespaces |-> project.namespaces,
                owned |-> project.owned, targets |-> Reconciled, facts |-> project.facts]

Gathered ==
  /\ Error(project.catalogErrors) \cup Error({e.code : e \in errors}) \subseteq diagnostics
  /\ (UNION {LayoutError(b) : b \in Boundaries}) \subseteq diagnostics
  /\ Layout!Diagnose(ExternalNames) \subseteq diagnostics
  /\ UnusedAcknowledgements \subseteq diagnostics

IInv ==
  /\ project \in Projects
  /\ phase \in {"idle", "resolving", "resolved", "selected"}
  /\ phase = "idle" => outcomes = {} /\ status = "none"
  /\ phase # "idle" => Accepted /\ pending \subseteq project.facts
  /\ phase \in {"resolved", "selected"} => pending = {}
  /\ \A o \in outcomes : Honest(o)
  /\ phase # "idle" => \A f \in project.facts \ pending : Interpreted(f)
  /\ status \in {"none", "gathered", "complete", "incomplete"}
  /\ status # "none" => phase = "selected" /\ Gathered
  /\ status = "complete" => IsComplete(diagnostics) /\ ~project.raises
  /\ exit \in {{0}, {1}} => status = "complete" /\ exit = {ExitCode("complete")}
-----------------------------------------------------------------------------
LEMMA InitInv == Init => IInv
BY DEF Init, IInv, Resolution!Init

\* Whatever a name or a fact comes to, a boundary in it is what its declarations say, and an
\* external name is nobody's.
LEMMA UnresolvedIsHonest ==
  ASSUME NEW f, NEW n, NEW how, NEW o \in Resolution!Unresolved(f, n, how)
  PROVE  BoundaryHonest(o) /\ ExternalHonest(o)
<1>1. o.as = "unresolved"
  BY DEF Resolution!Unresolved
<1> QED BY <1>1 DEF BoundaryHonest, ExternalHonest

LEMMA AbsentIsHonest ==
  ASSUME NEW f, NEW n \in Seq(STRING), n # NoName, NEW o \in Resolution!Absent(f, n)
  PROVE  BoundaryHonest(o) /\ ExternalHonest(o)
<1> DEFINE b == [as |-> "boundary", fact |-> f.id, source |-> f.source, boundary |-> Resolution!Boundary(n)]
           e == [as |-> "external", fact |-> f.id, source |-> f.source, requested |-> n,
                 how |-> IF Head(n) \in Stdlib THEN "stdlib" ELSE "external_unknown"]
<1>1. Resolution!Boundary(n).name = n
  BY DEF Resolution!Boundary
<1>2. CASE o = b /\ Resolution!Declarations(n) # {}
  <2>1. o.as = "boundary" /\ o.boundary = Resolution!Boundary(n)
    BY <1>2
  <2> QED BY <1>1, <1>2, <2>1 DEF BoundaryHonest, ExternalHonest
<1>3. CASE o = e /\ Resolution!Lineage(n) \cap Resolution!Owned = {}
  <2>1. o.as = "external" /\ o.requested = n
    BY <1>3
  <2> QED BY <1>3, <2>1 DEF BoundaryHonest, ExternalHonest
<1>4. CASE \E how : o \in Resolution!Unresolved(f, n, how)
  BY <1>4, UnresolvedIsHonest
<1>5. \/ o = b /\ Resolution!Declarations(n) # {}
      \/ o = e /\ Resolution!Lineage(n) \cap Resolution!Owned = {}
      \/ \E how : o \in Resolution!Unresolved(f, n, how)
  BY DEF Resolution!Absent
<1> QED BY <1>2, <1>3, <1>4, <1>5

LEMMA RequestedIsHonest ==
  ASSUME NEW f, NEW n \in Seq(STRING), n # NoName, NEW how, NEW o \in Resolution!Requested(f, n, how)
  PROVE  BoundaryHonest(o) /\ ExternalHonest(o)
<1>1. CASE o \in Resolution!Dependency(f, n, how)
  <2>1. o.as = "dependency"
    BY <1>1 DEF Resolution!Dependency
  <2> QED BY <2>1 DEF BoundaryHonest, ExternalHonest
<1>2. \/ o \in Resolution!Dependency(f, n, how)
      \/ o \in Resolution!Unresolved(f, n, "ambiguous_target")
      \/ o \in Resolution!Absent(f, n)
  BY DEF Resolution!Requested
<1> QED BY <1>1, <1>2, UnresolvedIsHonest, AbsentIsHonest

LEMMA FromBaseIsHonest ==
  ASSUME NEW f, f.imported \in STRING, NEW n \in Seq(STRING), n # NoName, NEW o \in Resolution!FromBase(f, n)
  PROVE  BoundaryHonest(o) /\ ExternalHonest(o)
<1>1. \/ o \in Resolution!Requested(f, n, "exact_base")
      \/ o \in Resolution!Requested(f, Append(n, f.imported), "probable_submodule")
      \/ o \in Resolution!Absent(f, Append(n, f.imported))
  BY DEF Resolution!FromBase, Resolution!Child
<1>2. Append(n, f.imported) \in Seq(STRING) /\ Append(n, f.imported) # NoName
  BY DEF NoName
<1> QED BY <1>1, <1>2, RequestedIsHonest, AbsentIsHonest

\* What names and facts mean depends on the catalogue only.
LEMMA MeaningStays ==
  ASSUME UNCHANGED catalog
  PROVE  /\ \A n : /\ Resolution!Declarations(n)' = Resolution!Declarations(n)
                   /\ Resolution!Boundary(n)' = Resolution!Boundary(n)
         /\ Resolution!Owned' = Resolution!Owned
         /\ \A f, n, how : Resolution!Requested(f, n, how)' = Resolution!Requested(f, n, how)
         /\ \A f, n : Resolution!FromBase(f, n)' = Resolution!FromBase(f, n)
<1>1. \A n : /\ Resolution!NamedBy(n)' = Resolution!NamedBy(n)
             /\ Resolution!Natives(n)' = Resolution!Natives(n)
  BY DEF Resolution!NamedBy, Resolution!Natives
<1>2. Resolution!Names' = Resolution!Names
  BY <1>1 DEF Resolution!Names
<1>3. \A n : /\ Resolution!Contested(n)' = Resolution!Contested(n)
             /\ Resolution!BoundTo(n)' = Resolution!BoundTo(n)
  BY <1>1 DEF Resolution!Contested, Resolution!BoundTo
<1>4. /\ Resolution!BoundNames' = Resolution!BoundNames /\ Resolution!Owned' = Resolution!Owned
      /\ Resolution!Namespaces' = Resolution!Namespaces
  BY <1>2, <1>3 DEF Resolution!BoundNames, Resolution!Owned, Resolution!Namespaces
<1>5. Resolution!Ambiguous' = Resolution!Ambiguous
  BY <1>1, <1>2, <1>3, <1>4 DEF Resolution!Ambiguous, Resolution!NativeConflicts
<1>6. \A n : Resolution!AmbiguousName(n)' = Resolution!AmbiguousName(n)
  BY <1>5 DEF Resolution!AmbiguousName
<1>7. \A n : Resolution!Declarations(n)' = Resolution!Declarations(n)
  BY DEF Resolution!Declarations
<1>8. \A n : Resolution!Boundary(n)' = Resolution!Boundary(n)
  BY <1>7 DEF Resolution!Boundary
<1>9. \A f, n : Resolution!Absent(f, n)' = Resolution!Absent(f, n)
  BY <1>4, <1>6, <1>7, <1>8 DEF Resolution!Absent, Resolution!Unresolved
<1>10. \A f, n, how : Resolution!Requested(f, n, how)' = Resolution!Requested(f, n, how)
  BY <1>3, <1>4, <1>6, <1>9 DEF Resolution!Requested, Resolution!Dependency, Resolution!Unresolved
<1>11. \A f, n : Resolution!Child(f, n)' = Resolution!Child(f, n)
  BY <1>2, <1>4, <1>7, <1>9, <1>10 DEF Resolution!Child
<1>12. \A f, n : Resolution!OwnInitializer(f, n)' = Resolution!OwnInitializer(f, n)
  BY <1>3, <1>4 DEF Resolution!OwnInitializer
<1>13. \A f, n : Resolution!FromBase(f, n)' = Resolution!FromBase(f, n)
  BY <1>10, <1>11, <1>12 DEF Resolution!FromBase
<1> QED BY <1>4, <1>7, <1>8, <1>10, <1>13

\* The reconciliation depends on the project only, which does not change.
LEMMA AcceptanceStays ==
  ASSUME UNCHANGED <<project, catalog>>
  PROVE  Accepted' = Accepted
<1>1. \A t : Configured(t)' = Configured(t)
  BY DEF Configured, TargetsOf
<1>2. \A t : Overridden(t)' = Overridden(t)
  BY <1>1 DEF Overridden
<1>3. Reconciled' = Reconciled
  BY <1>2 DEF Reconciled, TargetsOf
<1>4. KindsDisagree' = KindsDisagree
  BY <1>1 DEF KindsDisagree
<1>5. ValidOptions' = ValidOptions
  BY DEF ValidOptions, ValidTargets
<1> QED BY <1>3, <1>4, <1>5 DEF Accepted

\* So does the layout of its roots, given the external imports.
LEMMA DiagnosisStays ==
  ASSUME UNCHANGED <<project, outcomes>>
  PROVE  Layout!Diagnose(ExternalNames)' = Layout!Diagnose(ExternalNames)
<1>1. ExternalNames' = ExternalNames
  BY DEF ExternalNames
<1>2. \A r : /\ Layout!PackageDirs(r)' = Layout!PackageDirs(r)
             /\ Layout!Members(r)' = Layout!Members(r)
  BY DEF Layout!PackageDirs, Layout!Members
<1>3. \A r, n : Layout!PackageRoot(r, n)' = Layout!PackageRoot(r, n)
  BY <1>2 DEF Layout!PackageRoot
<1>4. \A r : Layout!RootCandidates(r)' = Layout!RootCandidates(r)
  BY <1>2, <1>3 DEF Layout!RootCandidates
<1>5. \A r : /\ Layout!Aliases(r)' = Layout!Aliases(r)
             /\ Layout!Candidates(r)' = Layout!Candidates(r)
             /\ Layout!KnownNames(r)' = Layout!KnownNames(r)
  BY <1>2, <1>4 DEF Layout!Aliases, Layout!Candidates, Layout!KnownNames
<1>6. \A r : /\ Layout!UnsupportedMappings(r, ExternalNames)' = Layout!UnsupportedMappings(r, ExternalNames)
             /\ Layout!Mismatches(r, ExternalNames)' = Layout!Mismatches(r, ExternalNames)
             /\ Layout!PossibleRoots(r, ExternalNames)' = Layout!PossibleRoots(r, ExternalNames)
  BY <1>1, <1>2, <1>5 DEF Layout!UnsupportedMappings, Layout!Mismatches, Layout!PossibleRoots
<1> QED BY <1>6 DEF Layout!Diagnose, Layout!Diagnosed

\* Nothing gathered is lost while the resolution rests.
LEMMA GatheredStays ==
  ASSUME UNCHANGED <<project, resolutionVars, diagnostics>>
  PROVE  Gathered' = Gathered
<1>1. project' = project /\ catalog' = catalog /\ outcomes' = outcomes /\ errors' = errors /\ diagnostics' = diagnostics
  BY DEF resolutionVars
<1>2. Boundaries' = Boundaries
  BY <1>1 DEF Boundaries
<1>3. \A b : Reporting(b)' = Reporting(b) /\ BoundAbove(b.name)' = BoundAbove(b.name)
  BY <1>1, MeaningStays DEF Reporting, BoundAbove
<1>4. \A b : LayoutError(b)' = LayoutError(b)
  BY <1>1, <1>3 DEF LayoutError
<1>5. UnusedAcknowledgements' = UnusedAcknowledgements
  BY <1>1, <1>2 DEF UnusedAcknowledgements, Used, TargetsOf
<1>6. Layout!Diagnose(ExternalNames)' = Layout!Diagnose(ExternalNames)
  BY <1>1, DiagnosisStays
<1> QED BY <1>1, <1>2, <1>4, <1>5, <1>6 DEF Gathered, Error

\* The report and the exit code leave the resolution alone.
LEMMA RestPreserves ==
  ASSUME IInv, UNCHANGED <<project, resolutionVars>>,
         phase = "idle" => status' = "none",
         status' \in {"none", "gathered", "complete", "incomplete"},
         status' # "none" => phase = "selected" /\ Gathered',
         status' = "complete" => IsComplete(diagnostics)' /\ ~project.raises,
         exit' \in {{0}, {1}} => status' = "complete" /\ exit' = {ExitCode("complete")'}
  PROVE  IInv'
<1>1. /\ project' = project /\ catalog' = catalog /\ phase' = phase /\ pending' = pending
      /\ outcomes' = outcomes /\ errors' = errors
  BY DEF resolutionVars
<1>2. \A o \in outcomes' : Honest(o)'
  BY <1>1, MeaningStays DEF IInv, Honest, BoundaryHonest, ExternalHonest
<1>3. phase' # "idle" => Accepted' /\ pending' \subseteq project'.facts
  BY <1>1, AcceptanceStays DEF IInv
<1>4. phase' # "idle" => \A f \in project'.facts \ pending' : Interpreted(f)'
  BY <1>1, MeaningStays DEF IInv, Interpreted
<1> QED BY <1>1, <1>2, <1>3, <1>4 DEF IInv

LEMMA ExitCodeStays ==
  ASSUME UNCHANGED <<project, outcomes>>
  PROVE  \A state : ExitCode(state)' = ExitCode(state)
BY DEF ExitCode, GateFails, UnresolvedFindings

LEMMA CompletenessStays ==
  ASSUME UNCHANGED <<outcomes, diagnostics>>
  PROVE  IsComplete(diagnostics)' = IsComplete(diagnostics)
BY DEF IsComplete, Boundaries

LEMMA BeginPreserves == IInv /\ Begin => IInv'
<1> SUFFICES ASSUME IInv, Begin PROVE IInv'
  OBVIOUS
<1>1. /\ phase = "idle" /\ phase' = "resolving" /\ outcomes' = outcomes /\ pending' = project.facts
      /\ catalog' = [modules |-> project.modules, namespaces |-> project.namespaces,
                     owned |-> project.owned, targets |-> Reconciled, facts |-> project.facts]
      /\ ValidOptions /\ ~KindsDisagree
      /\ project' = project /\ diagnostics' = diagnostics /\ status' = status /\ exit' = exit
  BY DEF Begin, Resolution!Begin
<1>2. \A t : Configured(t)' = Configured(t)
  BY <1>1 DEF Configured, TargetsOf
<1>3. Reconciled' = Reconciled /\ KindsDisagree' = KindsDisagree
  BY <1>1, <1>2 DEF Reconciled, Overridden, KindsDisagree, TargetsOf
<1>4. ValidOptions' = ValidOptions
  BY <1>1 DEF ValidOptions, ValidTargets
<1>5. Accepted'
  BY <1>1, <1>3, <1>4 DEF Accepted
<1>6. status' = "none" /\ outcomes' = {} /\ exit' \notin {{0}, {1}}
  BY <1>1 DEF IInv
<1> QED BY <1>1, <1>5, <1>6 DEF IInv

\* Recording what one fact means preserves the invariant.
LEMMA RecordPreserves ==
  ASSUME IInv, phase = "resolving", UNCHANGED <<project, diagnostics, status, exit>>,
         NEW f \in pending, NEW os, Resolution!Record(f, os),
         \A o \in os : BoundaryHonest(o) /\ ExternalHonest(o),
         ~f.from => Resolution!Requested(f, f.base, "exact_module") \subseteq os,
         f.from /\ f.level = 0 => Resolution!FromBase(f, f.base) \subseteq os
  PROVE  IInv'
<1>1. /\ pending' = pending \ {f} /\ outcomes' = outcomes \cup os
      /\ errors' = errors \cup Resolution!ImportErrors(os)
      /\ catalog' = catalog /\ phase' = phase
  BY DEF Resolution!Record
<1>2. ASSUME NEW o \in outcomes' PROVE Honest(o)'
  <2>1. BoundaryHonest(o)' /\ ExternalHonest(o)'
    BY <1>1, <1>2, MeaningStays DEF IInv, Honest, BoundaryHonest, ExternalHonest
  <2>2. CASE o \in outcomes
    BY <1>1, <2>1, <2>2 DEF IInv, Honest
  <2>3. CASE o \in os
    <3>1. ASSUME o.as = "unresolved", o.how \in {"ambiguous_target", "unknown_package_context"}
          PROVE  [code |-> o.how, facts |-> {o.fact}, requested |-> o.requested] \in Resolution!ImportErrors(os)
      BY <2>3, <3>1 DEF Resolution!ImportErrors
    <3> QED BY <1>1, <2>1, <3>1 DEF Honest
  <2> QED BY <1>1, <1>2, <2>2, <2>3
<1>3. ASSUME NEW g \in project'.facts \ pending' PROVE Interpreted(g)'
  <2>1. CASE g = f
    BY <1>1, <2>1, MeaningStays DEF Interpreted
  <2>2. CASE g # f
    <3>1. Interpreted(g)
      BY <1>1, <1>3, <2>2 DEF IInv
    <3> QED BY <1>1, <3>1, MeaningStays DEF Interpreted
  <2> QED BY <2>1, <2>2
<1>4. Accepted' /\ pending' \subseteq project'.facts
  BY <1>1, AcceptanceStays DEF IInv
<1>5. status' = "none" /\ exit' \notin {{0}, {1}}
  BY DEF IInv
<1> QED BY <1>1, <1>2, <1>3, <1>4, <1>5 DEF IInv

\* A relative import that does not escape asks for a name.
LEMMA RelativeIsNamed ==
  ASSUME NEW package \in Seq(STRING), NEW level \in 1 .. Len(package), NEW base \in Seq(STRING)
  PROVE  LET n == SubSeq(package, 1, Len(package) - (level - 1)) \o base
         IN n \in Seq(STRING) /\ n # NoName
<1> DEFINE kept == SubSeq(package, 1, Len(package) - (level - 1))
<1>1. Len(package) - (level - 1) \in 1 .. Len(package)
  OBVIOUS
<1>2. kept \in Seq(STRING) /\ Len(kept) = Len(package) - (level - 1)
  BY <1>1
<1> HIDE DEF kept
<1>3. kept \o base \in Seq(STRING) /\ Len(kept \o base) # 0
  BY <1>1, <1>2
<1>4. kept \o base # NoName
  BY <1>3 DEF NoName
<1> QED BY <1>3, <1>4 DEF kept

LEMMA ResolvePreserves == IInv /\ Resolve => IInv'
<1> SUFFICES ASSUME IInv, Resolve PROVE IInv'
  OBVIOUS
<1>1. UNCHANGED <<project, diagnostics, status, exit>>
  BY DEF Resolve
<1>2. CASE Resolution!ResolveFact
  <2>1. PICK f \in pending :
          \/ Resolution!ResolveImport(f) \/ Resolution!ResolveAbsoluteFrom(f)
          \/ Resolution!ResolveWithoutContext(f) \/ Resolution!ResolveEscape(f)
          \/ Resolution!ResolveRelativeFrom(f)
    BY <1>2 DEF Resolution!ResolveFact
  <2>2. phase = "resolving"
    BY <1>2 DEF Resolution!ResolveFact
  <2>3. f \in project.facts
    BY <2>2 DEF IInv
  <2>4. /\ f.level \in Nat /\ (f.level > 0 => f.from)
        /\ f.base \in Seq(STRING) /\ f.imported \in STRING
        /\ ~f.from \/ f.level = 0 => f.base # NoName
    BY <2>3, ProjectsAssumption DEF IInv
  <2>5. CASE Resolution!ResolveImport(f)
    <3>1. ~f.from /\ Resolution!Record(f, Resolution!Requested(f, f.base, "exact_module"))
      BY <2>5 DEF Resolution!ResolveImport
    <3> QED BY <1>1, <2>2, <2>4, <3>1, RecordPreserves, RequestedIsHonest
  <2>6. CASE Resolution!ResolveAbsoluteFrom(f)
    <3>1. f.from /\ f.level = 0 /\ Resolution!Record(f, Resolution!FromBase(f, f.base))
      BY <2>6 DEF Resolution!ResolveAbsoluteFrom
    <3> QED BY <1>1, <2>2, <2>4, <3>1, RecordPreserves, FromBaseIsHonest
  <2>7. ASSUME NEW how, f.level > 0, Resolution!Record(f, Resolution!Unresolved(f, f.base, how)) PROVE IInv'
    BY <1>1, <2>2, <2>4, <2>7, RecordPreserves, UnresolvedIsHonest
  <2>8. CASE Resolution!ResolveWithoutContext(f) \/ Resolution!ResolveEscape(f)
    BY <2>7, <2>8 DEF Resolution!ResolveWithoutContext, Resolution!ResolveEscape
  <2>9. CASE Resolution!ResolveRelativeFrom(f)
    <3>1. f.level > 0
      BY <2>9 DEF Resolution!ResolveRelativeFrom
    <3>2. PICK m \in Resolution!PackageContext(f) :
            /\ Resolution!RelativeFits(f.level, Resolution!PackageOf(m))
            /\ Resolution!Record(f, Resolution!FromBase(f, Resolution!ResolveRelative(f.level, f.base, Resolution!PackageOf(m))))
      BY <2>9 DEF Resolution!ResolveRelativeFrom
    <3> DEFINE n == Resolution!ResolveRelative(f.level, f.base, Resolution!PackageOf(m))
    <3>3. Resolution!PackageOf(m) \in Seq(STRING)
      <4>1. m \in project.modules
        BY <2>2 DEF Resolution!PackageContext, Resolution!SourceOf, IInv, Accepted
      <4> QED BY <4>1, ProjectsAssumption DEF IInv, Resolution!PackageOf
    <3>4. n \in Seq(STRING) /\ n # NoName
      BY <2>4, <3>1, <3>2, <3>3, RelativeIsNamed DEF Resolution!RelativeFits, Resolution!ResolveRelative
    <3> HIDE DEF n
    <3>5. Resolution!Record(f, Resolution!FromBase(f, n))
      BY <3>2 DEF n
    <3> QED BY <1>1, <2>2, <2>4, <3>1, <3>4, <3>5, RecordPreserves, FromBaseIsHonest
  <2> QED BY <2>1, <2>5, <2>6, <2>8, <2>9
<1>3. CASE Resolution!Finish \/ Resolution!Select
  <2>1. /\ phase \in {"resolving", "resolved"} /\ phase' \in {"resolved", "selected"}
        /\ (phase = "resolving" => pending = {})
        /\ UNCHANGED <<catalog, pending, outcomes, errors>>
    BY <1>3 DEF Resolution!Finish, Resolution!Select
  <2>2. \A o \in outcomes' : Honest(o)'
    BY <2>1, MeaningStays DEF IInv, Honest, BoundaryHonest, ExternalHonest
  <2>3. Accepted' /\ pending' \subseteq project'.facts /\ pending' = {}
    BY <1>1, <2>1, AcceptanceStays DEF IInv
  <2>4. \A f \in project'.facts \ pending' : Interpreted(f)'
    BY <1>1, <2>1, MeaningStays DEF IInv, Interpreted
  <2>5. status' = "none" /\ exit' \notin {{0}, {1}}
    BY <1>1, <2>1 DEF IInv
  <2> QED BY <1>1, <2>1, <2>2, <2>3, <2>4, <2>5 DEF IInv
<1> QED BY <1>2, <1>3 DEF Resolve

LEMMA ReportingPreserves == IInv /\ (RejectOptions \/ Disagree \/ Gather \/ Raise \/ Report \/ Exit) => IInv'
<1> SUFFICES ASSUME IInv, RejectOptions \/ Disagree \/ Gather \/ Raise \/ Report \/ Exit PROVE IInv'
  OBVIOUS
<1>1. CASE RejectOptions \/ Disagree \/ Raise
  <2>1. UNCHANGED <<project, resolutionVars, diagnostics, status>> /\ exit' = {2}
    BY <1>1 DEF RejectOptions, Disagree, Raise
  <2>2. Gathered' = Gathered /\ IsComplete(diagnostics)' = IsComplete(diagnostics)
    BY <2>1, GatheredStays, CompletenessStays DEF resolutionVars
  <2> QED BY <2>1, <2>2, RestPreserves DEF IInv
<1>2. CASE Gather
  <2>1. /\ phase = "selected" /\ status' = "gathered" /\ exit' = exit /\ status = "none"
        /\ UNCHANGED <<project, resolutionVars>>
        /\ diagnostics' = Error(project.catalogErrors) \cup Error({e.code : e \in errors})
                            \cup (UNION {LayoutError(b) : b \in Boundaries})
                            \cup Layout!Diagnose(ExternalNames) \cup UnusedAcknowledgements
    BY <1>2 DEF Gather
  <2>2. project' = project /\ catalog' = catalog /\ outcomes' = outcomes /\ errors' = errors
    BY <2>1 DEF resolutionVars
  <2>3. Boundaries' = Boundaries
    BY <2>2 DEF Boundaries
  <2>4. \A b : Reporting(b)' = Reporting(b) /\ BoundAbove(b.name)' = BoundAbove(b.name)
    BY <2>2, MeaningStays DEF Reporting, BoundAbove
  <2>5. \A b : LayoutError(b)' = LayoutError(b)
    BY <2>2, <2>4 DEF LayoutError
  <2>6. UnusedAcknowledgements' = UnusedAcknowledgements
    BY <2>2, <2>3 DEF UnusedAcknowledgements, Used, TargetsOf
  <2>7. Gathered'
    BY <2>1, <2>2, <2>3, <2>5, <2>6, DiagnosisStays DEF Gathered, Error
  <2> QED BY <2>1, <2>7, RestPreserves DEF IInv
<1>3. CASE Report
  <2>1. /\ status = "gathered" /\ ~project.raises
        /\ status' = IF IsComplete(diagnostics) THEN "complete" ELSE "incomplete"
        /\ UNCHANGED <<project, resolutionVars, diagnostics, exit>>
    BY <1>3 DEF Report
  <2>2. Gathered' = Gathered /\ IsComplete(diagnostics)' = IsComplete(diagnostics)
    BY <2>1, GatheredStays, CompletenessStays DEF resolutionVars
  <2> QED BY <2>1, <2>2, RestPreserves DEF IInv
<1>4. CASE Exit
  <2>1. /\ status \in {"complete", "incomplete"} /\ exit' = {ExitCode(status)}
        /\ UNCHANGED <<project, resolutionVars, diagnostics, status>>
    BY <1>4 DEF Exit
  <2>2. /\ Gathered' = Gathered /\ IsComplete(diagnostics)' = IsComplete(diagnostics)
        /\ ExitCode("complete")' = ExitCode("complete")
    BY <2>1, GatheredStays, CompletenessStays, ExitCodeStays DEF resolutionVars
  <2>3. status = "incomplete" => exit' = {2}
    BY <2>1 DEF ExitCode
  <2> QED BY <2>1, <2>2, <2>3, RestPreserves DEF IInv
<1> QED BY <1>1, <1>2, <1>3, <1>4

\* Every reachable state satisfies the strengthened invariant.
THEOREM InductiveInvariant == Spec => []IInv
<1>1. IInv /\ [Next]_vars => IInv'
  <2> SUFFICES ASSUME IInv, [Next]_vars PROVE IInv'
    OBVIOUS
  <2>1. CASE UNCHANGED vars
    <3>1. UNCHANGED <<project, resolutionVars, diagnostics, status, exit>>
      BY <2>1 DEF vars
    <3>2. /\ Gathered' = Gathered /\ IsComplete(diagnostics)' = IsComplete(diagnostics)
          /\ ExitCode("complete")' = ExitCode("complete")
      BY <3>1, GatheredStays, CompletenessStays, ExitCodeStays DEF resolutionVars
    <3> QED BY <3>1, <3>2, RestPreserves DEF IInv
  <2> QED BY <2>1, BeginPreserves, ResolvePreserves, ReportingPreserves DEF Next
<1> QED BY <1>1, InitInv, PTL DEF Spec
-----------------------------------------------------------------------------
\* A complete analysis has met no error.
LEMMA CompleteHasNoErrors ==
  ASSUME IInv, status = "complete"
  PROVE  project.catalogErrors = {} /\ errors = {} /\ \A b \in Boundaries : LayoutError(b) = {} /\ b.acknowledged
<1>1. Gathered /\ IsComplete(diagnostics)
  BY DEF IInv
<1>2. \A d \in diagnostics : d.severity # "error"
  BY <1>1 DEF IsComplete
<1>3. ASSUME NEW codes, Error(codes) \subseteq diagnostics PROVE codes = {}
  <2>1. ASSUME NEW c \in codes PROVE FALSE
    <3>1. [severity |-> "error", code |-> c, name |-> NoName] \in diagnostics
      BY <1>3 DEF Error
    <3> QED BY <1>2, <3>1
  <2> QED BY <2>1
<1>4. project.catalogErrors = {} /\ {e.code : e \in errors} = {}
  BY <1>1, <1>3 DEF Gathered
<1>5. ASSUME NEW b \in Boundaries PROVE LayoutError(b) = {}
  <2>1. LayoutError(b) \subseteq diagnostics
    BY <1>1 DEF Gathered
  <2>2. \A d \in LayoutError(b) : d.severity = "error"
    BY DEF LayoutError
  <2> QED BY <1>2, <2>1, <2>2
<1>6. \A b \in Boundaries : b.acknowledged
  BY <1>1 DEF IsComplete
<1> QED BY <1>4, <1>5, <1>6

\* "Exit codes 0 and 1 can be trusted", for every project.
THEOREM TrustworthyExitCodes == Spec => []ExitCodesCanBeTrusted
<1>1. IInv => ExitCodesCanBeTrusted
  <2> SUFFICES ASSUME IInv, exit \in {{0}, {1}}
               PROVE  /\ ValidOptions /\ project.catalogErrors = {} /\ errors = {} /\ ~project.raises
                      /\ \A f \in project.facts : \A o \in OutcomesOf(f) :
                           /\ o.as = "boundary" => o.boundary.acknowledged
                           /\ o.as = "unresolved" =>
                                /\ o.how \notin {"ambiguous_target", "unknown_package_context"}
                                /\ exit = {0} /\ f.retained => o.how = "namespace_base_unmodelled"
                      /\ exit = {0} => ~project.cyclic
    BY DEF ExitCodesCanBeTrusted
  <2>1. status = "complete" /\ exit = {ExitCode("complete")} /\ phase = "selected"
    BY DEF IInv
  <2>2. project.catalogErrors = {} /\ errors = {} /\ \A b \in Boundaries : b.acknowledged
    BY <2>1, CompleteHasNoErrors
  <2>3. ValidOptions /\ ~project.raises
    BY <2>1 DEF IInv, Accepted
  <2>4. exit = {0} => ~GateFails
    BY <2>1 DEF ExitCode
  <2>5. ASSUME NEW f \in project.facts, NEW o \in OutcomesOf(f)
        PROVE  /\ o.as = "boundary" => o.boundary.acknowledged
               /\ o.as = "unresolved" =>
                    /\ o.how \notin {"ambiguous_target", "unknown_package_context"}
                    /\ exit = {0} /\ f.retained => o.how = "namespace_base_unmodelled"
    <3>1. o \in outcomes /\ o.fact = f.id /\ Honest(o)
      BY DEF OutcomesOf, IInv
    <3>2. o.as = "boundary" => o.boundary \in Boundaries
      BY <3>1 DEF Boundaries
    <3>3. o.as = "unresolved" => o.how \notin {"ambiguous_target", "unknown_package_context"}
      BY <2>2, <3>1 DEF Honest
    <3>4. ASSUME o.as = "unresolved", exit = {0}, f.retained, o.how # "namespace_base_unmodelled" PROVE FALSE
      <4>1. o \in UnresolvedFindings
        BY <3>1, <3>4 DEF UnresolvedFindings
      <4> QED BY <2>4, <3>4, <4>1 DEF GateFails
    <3> QED BY <2>2, <3>2, <3>3, <3>4
  <2>6. exit = {0} => ~project.cyclic
    BY <2>4 DEF GateFails
  <2> QED BY <2>2, <2>3, <2>5, <2>6
<1> QED BY <1>1, InductiveInvariant, PTL
-----------------------------------------------------------------------------
(* What a reconciled declaration comes from                                *)

\* Overriding a discovered target changes its acknowledgement only.
LEMMA OverriddenTarget ==
  ASSUME project \in Projects, NEW d \in project.discovered
  PROVE  LET t == Overridden(d)
         IN /\ t.name = d.name /\ t.kind = d.kind /\ t.rank = d.rank /\ t.at = d.at /\ t.shape = d.shape
            /\ (\E c \in Configured(d) : c.kind = d.kind) =>
                 (t.acknowledged <=> \E c \in Configured(d) : c.acknowledged)
            /\ (~ \E c \in Configured(d) : c.kind = d.kind) => t = d
<1>1. DOMAIN d = {"name", "kind", "at", "rank", "directory", "shape", "acknowledged"}
  BY ProjectsAssumption
<1>2. CASE ~ \E c \in Configured(d) : c.kind = d.kind
  BY <1>2 DEF Overridden
<1>3. CASE \E c \in Configured(d) : c.kind = d.kind
  <2> DEFINE accepted == \E c \in Configured(d) : c.acknowledged
  <2>1. Overridden(d) = [d EXCEPT !.acknowledged = accepted]
    BY <1>3 DEF Overridden
  <2> HIDE DEF accepted
  <2>2. LET t == [d EXCEPT !.acknowledged = accepted]
        IN /\ t.name = d.name /\ t.kind = d.kind /\ t.rank = d.rank /\ t.at = d.at /\ t.shape = d.shape
           /\ t.acknowledged = accepted
    BY <1>1
  <2> QED BY <1>3, <2>1, <2>2 DEF accepted
<1> QED BY <1>2, <1>3

\* Configured targets have different names.
LEMMA OneConfigured ==
  ASSUME ValidTargets, NEW c \in TargetsOf(project), NEW e \in TargetsOf(project), c.name = e.name
  PROVE  c = e /\ c.kind \in {"stub", "native", "generated"}
BY DEF ValidTargets, TargetsOf

\* Where a declaration of a boundary's name comes from.
LEMMA DeclarationOrigin ==
  ASSUME project \in Projects, NEW t \in Reconciled
  PROVE  \/ t \in TargetsOf(project) /\ ~ \E d \in project.discovered : d.name = t.name /\ d.kind = t.kind
         \/ \E d \in project.discovered : t = Overridden(d) /\ t.name = d.name /\ t.kind = d.kind
BY OverriddenTarget DEF Reconciled

\* A name lies in its own lineage.
LEMMA LineageOfItself ==
  ASSUME NEW n \in Seq(STRING), n # NoName
  PROVE  n \in Lineage(n)
<1>1. Len(n) \in Nat \ {0}
  BY EmptySeq DEF NoName
<1>2. SubSeq(n, 1, Len(n)) = n
  BY SubSeqFull
<1>3. Len(n) \in 1 .. Len(n)
  BY <1>1
<1>4. SubSeq(n, 1, Len(n)) \in Lineage(n)
  BY <1>3, Zenon DEF Lineage
<1> QED BY <1>2, <1>4

\* "A boundary is accepted on purpose only", for every project.
THEOREM AcceptanceIsDeliberate == Spec => []AcceptedOnPurpose
<1>1. IInv => AcceptedOnPurpose
  <2> SUFFICES ASSUME IInv, NEW b \in Boundaries, b.acknowledged
               PROVE  IF b.kind = "excluded"
                      THEN \E t \in project.discovered :
                             t.kind = "excluded" /\ t.acknowledged /\ t.name \in Lineage(b.name)
                      ELSE \E c \in TargetsOf(project) : c.name = b.name /\ c.kind = b.kind /\ c.acknowledged
    BY DEF AcceptedOnPurpose
  <2>1. PICK o \in outcomes : o.as = "boundary" /\ o.boundary = b
    BY DEF Boundaries
  <2>2. b = Resolution!Boundary(b.name) /\ Resolution!Declarations(b.name) # {}
    BY <2>1 DEF IInv, Honest, BoundaryHonest, ExternalHonest
  <2>3. project \in Projects /\ Accepted /\ catalog.targets = Reconciled
    BY <2>1 DEF IInv, Accepted
  <2>4. PICK t \in Resolution!Declarations(b.name) : t.kind = b.kind /\ t.acknowledged
    <3>1. Resolution!Boundary(b.name).acknowledged =
            \E t \in Resolution!Declarations(b.name) : t.kind = Resolution!Boundary(b.name).kind /\ t.acknowledged
      BY DEF Resolution!Boundary
    <3> QED BY <2>2, <3>1
  <2>5. t \in Reconciled
    BY <2>3 DEF Resolution!Declarations
  <2>6. t.name = b.name \/ (t.kind = "excluded" /\ t.name \in Lineage(b.name))
    BY DEF Resolution!Declarations, Resolution!Lineage, Lineage
  <2>7. CASE t \in TargetsOf(project)
    <3>1. t.kind # "excluded"
      BY <2>3, <2>7, OneConfigured DEF Accepted, ValidOptions
    <3> QED BY <2>4, <2>6, <2>7, <3>1
  <2>8. ASSUME NEW d \in project.discovered, t = Overridden(d), t.name = d.name, t.kind = d.kind
        PROVE  IF b.kind = "excluded"
               THEN \E u \in project.discovered :
                      u.kind = "excluded" /\ u.acknowledged /\ u.name \in Lineage(b.name)
               ELSE \E c \in TargetsOf(project) : c.name = b.name /\ c.kind = b.kind /\ c.acknowledged
    <3>1. CASE \E c \in Configured(d) : c.kind = d.kind
      <4>1. PICK c \in Configured(d) : c.acknowledged
        BY <2>3, <2>4, <2>8, <3>1, OverriddenTarget
      <4>2. c \in TargetsOf(project) /\ c.name = d.name /\ c.kind = d.kind /\ c.kind # "excluded"
        BY <2>3, <3>1, <4>1, OneConfigured DEF Configured, Accepted, ValidOptions
      <4> QED BY <2>4, <2>6, <2>8, <4>1, <4>2
    <3>2. CASE ~ \E c \in Configured(d) : c.kind = d.kind
      <4>1. t = d /\ d.kind = "excluded"
        BY <2>3, <2>4, <2>8, <3>2, OverriddenTarget, ProjectsAssumption
      <4>2. d.name \in Seq(STRING) /\ d.name # NoName
        BY <2>3, ProjectsAssumption
      <4>3. d.name \in Lineage(d.name)
        BY <4>2, LineageOfItself
      <4> QED BY <2>4, <2>6, <2>8, <4>1, <4>3
    <3> QED BY <3>1, <3>2
  <2> QED BY <2>3, <2>5, <2>7, <2>8, DeclarationOrigin
<1> QED BY <1>1, InductiveInvariant, PTL

\* "Unused acknowledgements produce warnings", for every project.
THEOREM NoAcknowledgementForgotten == Spec => []AcknowledgementsAccountedFor
<1>1. IInv => AcknowledgementsAccountedFor
  <2> SUFFICES ASSUME IInv, status # "none", NEW c \in TargetsOf(project), c.acknowledged, Used(c)
               PROVE  [name |-> c.name, kind |-> c.kind, acknowledged |-> TRUE] \in Boundaries
    <3>1. ASSUME status # "none", NEW c \in TargetsOf(project), c.acknowledged, ~Used(c), IInv
          PROVE  \E d \in diagnostics : d.code = "unused_acknowledgement" /\ d.name = c.name
      <4> DEFINE warning == [severity |-> "warning", name |-> c.name, code |-> "unused_acknowledgement"]
      <4>1. warning \in UnusedAcknowledgements
        BY <3>1 DEF UnusedAcknowledgements
      <4>2. UnusedAcknowledgements \subseteq diagnostics
        <5>1. Gathered
          BY <3>1 DEF IInv
        <5> QED BY <5>1 DEF Gathered
      <4>3. warning.code = "unused_acknowledgement" /\ warning.name = c.name
        OBVIOUS
      <4> HIDE DEF warning
      <4> QED BY <4>1, <4>2, <4>3
    <3> QED BY <3>1 DEF AcknowledgementsAccountedFor
  <2>1. PICK b \in Boundaries : b.name = c.name
    BY DEF Used
  <2>2. PICK o \in outcomes : o.as = "boundary" /\ o.boundary = b
    BY DEF Boundaries
  <2>3. b = Resolution!Boundary(c.name)
    BY <2>1, <2>2 DEF IInv, Honest, BoundaryHonest, ExternalHonest
  <2>4. project \in Projects /\ Accepted /\ catalog.targets = Reconciled
    BY <2>2 DEF IInv, Accepted
  <2>5. c.kind \in {"stub", "native", "generated"}
    BY <2>4, OneConfigured DEF Accepted, ValidOptions
  <2>6. PICK s \in Reconciled : s.name = c.name /\ s.kind = c.kind /\ s.acknowledged
    <3>1. CASE \E d \in project.discovered : d.name = c.name /\ d.kind = c.kind
      <4>1. PICK d \in project.discovered : d.name = c.name /\ d.kind = c.kind
        BY <3>1
      <4>2. c \in Configured(d)
        BY <4>1 DEF Configured
      <4>3. Overridden(d).name = c.name /\ Overridden(d).kind = c.kind /\ Overridden(d).acknowledged
        BY <2>4, <4>1, <4>2, OverriddenTarget
      <4> QED BY <4>3 DEF Reconciled
    <3>2. CASE ~ \E d \in project.discovered : d.name = c.name /\ d.kind = c.kind
      BY <3>2 DEF Reconciled
    <3> QED BY <3>1, <3>2
  <2>7. ASSUME NEW t \in Reconciled, t.name = c.name
        PROVE  t.kind = c.kind \/ (t.kind = "stub" /\ c.kind \in {"native", "generated"})
    <3>1. CASE t \in TargetsOf(project)
      BY <2>4, <2>7, <3>1, OneConfigured DEF Accepted, ValidOptions
    <3>2. ASSUME NEW d \in project.discovered, t.name = d.name, t.kind = d.kind
          PROVE  t.kind = c.kind \/ (t.kind = "stub" /\ c.kind \in {"native", "generated"})
      <4>1. c \in Configured(d)
        BY <2>7, <3>2 DEF Configured
      <4> QED BY <2>4, <3>2, <4>1 DEF Accepted, KindsDisagree
    <3> QED BY <2>4, <2>7, <3>1, <3>2, DeclarationOrigin
  <2>8. Resolution!Declarations(c.name) = {t \in Reconciled : t.name = c.name}
    BY <2>4, <2>6 DEF Resolution!Declarations
  <2> DEFINE kinds == {t.kind : t \in Resolution!Declarations(c.name)}
  <2>9. c.kind \in kinds /\ \A k \in kinds : k = c.kind \/ (k = "stub" /\ c.kind \in {"native", "generated"})
    BY <2>6, <2>7, <2>8
  <2> HIDE DEF kinds
  <2>10. Resolution!Strongest(kinds) = c.kind
    BY <2>5, <2>9 DEF Resolution!Strongest
  <2>11. /\ b.acknowledged = \E t \in Resolution!Declarations(c.name) : t.kind = c.kind /\ t.acknowledged
         /\ b = [name |-> c.name, kind |-> c.kind, acknowledged |-> b.acknowledged]
    BY <2>3, <2>10 DEF Resolution!Boundary, kinds
  <2>12. b.acknowledged = TRUE
    BY <2>6, <2>8, <2>11
  <2> QED BY <2>11, <2>12
<1> QED BY <1>1, InductiveInvariant, PTL

\* A boundary is reported with a discovered target, if one of its name and kind was found.
LEMMA ReportedWhereFound ==
  ASSUME project \in Projects, catalog.targets = Reconciled, NEW b,
         NEW e \in project.discovered, e.name = b.name, e.kind = b.kind
  PROVE  \E t \in Reporting(b) : \E d \in project.discovered :
           /\ d.name = b.name /\ d.kind = b.kind /\ d.rank = t.rank /\ d.at = t.at
<1> DEFINE declared == {t \in Resolution!Declarations(b.name) : t.kind = b.kind /\ t.rank > 0}
<1>1. Overridden(e) \in Reconciled /\ Overridden(e).name = b.name
  BY OverriddenTarget DEF Reconciled
<1>2. Resolution!Declarations(b.name) = {t \in Reconciled : t.name = b.name}
  BY <1>1 DEF Resolution!Declarations
<1>3. Overridden(e) \in declared
  BY <1>1, <1>2, OverriddenTarget, ProjectsAssumption
<1>4. \A t \in declared : \E d \in project.discovered :
        /\ d.name = b.name /\ d.kind = b.kind /\ d.rank = t.rank /\ d.at = t.at /\ t.rank \in Nat
  <2> SUFFICES ASSUME NEW t \in declared
               PROVE  \E d \in project.discovered :
                        /\ d.name = b.name /\ d.kind = b.kind /\ d.rank = t.rank /\ d.at = t.at /\ t.rank \in Nat
    OBVIOUS
  <2>1. t \in Reconciled /\ t.name = b.name /\ t.kind = b.kind
    BY <1>2
  <2>2. PICK d \in project.discovered : t = Overridden(d) /\ t.name = d.name /\ t.kind = d.kind
    BY <2>1, DeclarationOrigin
  <2>3. d.rank = t.rank /\ d.at = t.at /\ d.rank \in Nat
    BY <2>2, OverriddenTarget, ProjectsAssumption
  <2> QED BY <2>1, <2>2, <2>3
<1> HIDE DEF declared
<1>5. {t.rank : t \in declared} \in SUBSET Nat /\ {t.rank : t \in declared} # {}
  BY <1>3, <1>4
<1>6. PICK t \in declared : \A u \in declared : t.rank <= u.rank
  <2> DEFINE ranks == {t.rank : t \in declared}
  <2> HIDE DEF ranks
  <2>1. PICK n \in ranks : \A m \in ranks : n <= m
    BY <1>5, LeastElementExists DEF ranks
  <2>2. \A u \in declared : n <= u.rank
    BY <2>1 DEF ranks
  <2>3. \E t \in declared : t.rank = n
    BY <2>1 DEF ranks
  <2> QED BY <2>2, <2>3
<1>7. t \in Reporting(b)
  BY <1>6 DEF Reporting, declared
<1> QED BY <1>4, <1>6, <1>7

\* A boundary without a layout error has neither a plain source nor a foreign package above it.
LEMMA NoLayoutError ==
  ASSUME project \in Projects, NEW b, LayoutError(b) = {}, NEW m \in BoundAbove(b.name)
  PROVE  /\ m.isPackage
         /\ \A t \in Reporting(b) :
              (\E d \in project.discovered : d.kind = b.kind /\ d.rank = t.rank) => Inside(m, t)
<1> DEFINE plain   == {k \in BoundAbove(b.name) : ~k.isPackage}
           outside == {k \in BoundAbove(b.name) :
                         \E t \in Reporting(b) : /\ \E d \in project.discovered : d.kind = b.kind /\ d.rank = t.rank
                                                 /\ ~Inside(k, t)}
           first   == {k \in plain \cup outside : \A o \in plain \cup outside : Len(k.name) <= Len(o.name)}
<1>1. first = {}
  BY DEF LayoutError
<1>2. \A k \in plain \cup outside : Len(k.name) \in Nat
  BY ProjectsAssumption DEF BoundAbove
<1> HIDE DEF plain, outside
<1>3. plain \cup outside = {}
  <2> SUFFICES ASSUME plain \cup outside # {} PROVE FALSE
    OBVIOUS
  <2>1. /\ {Len(k.name) : k \in plain \cup outside} \in SUBSET Nat
        /\ {Len(k.name) : k \in plain \cup outside} # {}
    BY <1>2
  <2>2. \E k \in plain \cup outside : \A o \in plain \cup outside : Len(k.name) <= Len(o.name)
    <3> DEFINE depths == {Len(k.name) : k \in plain \cup outside}
    <3> HIDE DEF depths
    <3>1. PICK n \in depths : \A len \in depths : n <= len
      BY <2>1, LeastElementExists DEF depths
    <3>2. \A o \in plain \cup outside : n <= Len(o.name)
      BY <3>1 DEF depths
    <3>3. \E k \in plain \cup outside : Len(k.name) = n
      BY <3>1 DEF depths
    <3> QED BY <3>2, <3>3
  <2> QED BY <1>1, <2>2
<1> QED BY <1>3 DEF plain, outside

\* "A complete analysis accepts no target that Python could not import", for every project.
THEOREM AcceptedTargetsAreImportable == Spec => []AcceptedTargetsFit
<1>1. IInv => AcceptedTargetsFit
  <2> SUFFICES ASSUME IInv, status = "complete", NEW b \in Boundaries, NEW m \in project.modules,
                      m.status = "bound", m.name \in Ancestors(b.name)
               PROVE  /\ m.isPackage
                      /\ {t \in project.discovered : t.name = b.name /\ t.kind = b.kind} # {}
                           => \E t \in project.discovered : t.name = b.name /\ t.kind = b.kind /\ Inside(m, t)
    BY DEF AcceptedTargetsFit
  <2>1. LayoutError(b) = {}
    BY CompleteHasNoErrors
  <2>2. m \in BoundAbove(b.name)
    BY DEF BoundAbove
  <2>3. project \in Projects /\ catalog.targets = Reconciled
    BY DEF IInv, Accepted
  <2>4. /\ m.isPackage
        /\ \A t \in Reporting(b) :
             (\E d \in project.discovered : d.kind = b.kind /\ d.rank = t.rank) => Inside(m, t)
    BY <2>1, <2>2, <2>3, NoLayoutError
  <2>5. ASSUME NEW e \in project.discovered, e.name = b.name, e.kind = b.kind
        PROVE  \E t \in project.discovered : t.name = b.name /\ t.kind = b.kind /\ Inside(m, t)
    <3>1. PICK t \in Reporting(b), d \in project.discovered :
            d.name = b.name /\ d.kind = b.kind /\ d.rank = t.rank /\ d.at = t.at
      BY <2>3, <2>5, ReportedWhereFound
    <3>2. Inside(m, t)
      BY <2>4, <3>1
    <3>3. Inside(m, d)
      BY <3>1, <3>2 DEF Inside
    <3> QED BY <3>1, <3>3
  <2> QED BY <2>4, <2>5
<1> QED BY <1>1, InductiveInvariant, PTL

\* A name that one source is bound to and that is not contested belongs to that source.
LEMMA NamedByOne ==
  ASSUME project \in Projects, Accepted, NEW m \in project.modules, m.status = "bound"
  PROVE  /\ m.name \in Resolution!Names /\ m.name \in Resolution!Lineage(m.name)
         /\ ~Resolution!Contested(m.name) => m.name \in Resolution!BoundNames /\ Resolution!BoundTo(m.name) = m
<1>1. m.name \in Seq(STRING) /\ m.name # NoName /\ IsFiniteSet(project.modules) /\ catalog.modules = project.modules
  BY ProjectsAssumption DEF Accepted
<1>2. m \in Resolution!NamedBy(m.name)
  BY <1>1 DEF Resolution!NamedBy, NoName, Resolution!NoName
<1>3. m.name \in Resolution!Names
  BY <1>1, <1>2 DEF Resolution!Names
<1>4. m.name \in Resolution!Lineage(m.name)
  BY <1>1, LineageOfItself DEF Lineage, Resolution!Lineage
<1>5. ASSUME ~Resolution!Contested(m.name)
      PROVE  m.name \in Resolution!BoundNames /\ Resolution!BoundTo(m.name) = m
  <2>1. m.name \in Resolution!BoundNames
    BY <1>3, <1>5 DEF Resolution!BoundNames
  <2>2. Cardinality(Resolution!NamedBy(m.name)) = 1
    BY <1>5 DEF Resolution!Contested, Cardinality, Resolution!Cardinality
  <2>3. IsFiniteSet(Resolution!NamedBy(m.name))
    <3>1. Resolution!NamedBy(m.name) \subseteq project.modules
      BY <1>1 DEF Resolution!NamedBy
    <3> QED BY <1>1, <3>1, FS_Subset
  <2>4. PICK x : Resolution!NamedBy(m.name) = {x}
    BY <2>2, <2>3, FS_Singleton
  <2>5. Resolution!BoundTo(m.name) = m
    BY <1>2, <2>4 DEF Resolution!BoundTo
  <2> QED BY <2>1, <2>5
<1> QED BY <1>3, <1>4, <1>5

\* Without an error, requesting the name of a source finds the source.
LEMMA RequestFindsSource ==
  ASSUME IInv, errors = {}, Accepted, NEW f, NEW how, NEW m \in project.modules, m.status = "bound",
         Resolution!Requested(f, m.name, how) \subseteq outcomes
  PROVE  \E o \in Found(f, "dependency") : o.target = m.id
<1>1. ~Resolution!AmbiguousName(m.name)
  <2> SUFFICES ASSUME Resolution!AmbiguousName(m.name) PROVE FALSE
    OBVIOUS
  <2> DEFINE o == [as |-> "unresolved", fact |-> f.id, source |-> f.source, requested |-> m.name,
                   how |-> "ambiguous_target"]
  <2>1. o \in outcomes
    BY DEF Resolution!Requested, Resolution!Unresolved
  <2>2. o.as = "unresolved" /\ o.how = "ambiguous_target"
    OBVIOUS
  <2> HIDE DEF o
  <2>3. Honest(o)
    BY <2>1 DEF IInv
  <2> QED BY <2>2, <2>3 DEF Honest
<1>2. project \in Projects
  BY DEF IInv
<1>3. m.name \notin Resolution!Ambiguous
  BY <1>1, <1>2, NamedByOne DEF Resolution!AmbiguousName
<1>4. ~Resolution!Contested(m.name)
  BY <1>2, <1>3, NamedByOne DEF Resolution!Ambiguous
<1>5. m.name \in Resolution!BoundNames /\ Resolution!BoundTo(m.name) = m
  BY <1>2, <1>4, NamedByOne
<1> DEFINE d == [as |-> "dependency", fact |-> f.id, source |-> f.source, target |-> m.id, how |-> how]
<1>6. d \in outcomes
  BY <1>1, <1>5 DEF Resolution!Requested, Resolution!Dependency
<1>7. d.as = "dependency" /\ d.fact = f.id /\ d.target = m.id
  OBVIOUS
<1> HIDE DEF d
<1> QED BY <1>6, <1>7 DEF Found, OutcomesOf

\* "Acknowledgement does not suppress real source dependencies", for every project: only the
\* base of a from-import in that base's own initializer is no dependency, so that the
\* self-import of an ordinary module is kept (FromBase in ImportResolution).
THEOREM NoSourceIsSuppressed == Spec => []SourcesAreNotSuppressed
<1>1. IInv => SourcesAreNotSuppressed
  <2> SUFFICES ASSUME IInv, status = "complete", NEW f \in project.facts, NEW m \in project.modules,
                      m.status = "bound", f.level = 0,
                      m.name = f.base \/ (f.from /\ m.name = Append(f.base, f.imported))
               PROVE  \/ \E o \in Found(f, "dependency") : o.target = m.id
                      \/ f.from /\ m.name = f.base /\ m.isPackage /\ f.source = m.id
    BY DEF SourcesAreNotSuppressed
  <2>1. errors = {} /\ Accepted /\ Interpreted(f) /\ project \in Projects
    BY CompleteHasNoErrors DEF IInv
  <2>2. CASE m.name = f.base
    <3>1. CASE ~f.from
      <4>1. Resolution!Requested(f, m.name, "exact_module") \subseteq outcomes
        BY <2>1, <2>2, <3>1 DEF Interpreted
      <4> QED BY <2>1, <4>1, RequestFindsSource
    <3>2. CASE f.from /\ Resolution!OwnInitializer(f, f.base)
      <4>1. /\ ~Resolution!Contested(m.name)
            /\ Resolution!BoundTo(m.name).id = f.source /\ Resolution!BoundTo(m.name).isPackage
        BY <2>2, <3>2 DEF Resolution!OwnInitializer, Resolution!BoundNames
      <4> QED BY <2>1, <2>2, <3>2, <4>1, NamedByOne
    <3>3. CASE f.from /\ ~Resolution!OwnInitializer(f, f.base)
      <4>1. Resolution!Requested(f, m.name, "exact_base") \subseteq outcomes
        BY <2>1, <2>2, <3>3 DEF Interpreted, Resolution!FromBase
      <4> QED BY <2>1, <4>1, RequestFindsSource
    <3> QED BY <3>1, <3>2, <3>3
  <2>3. CASE f.from /\ m.name = Append(f.base, f.imported)
    <3>1. f.imported \notin {"none", "*"}
      BY <2>1, <2>3, ProjectsAssumption
    <3>2. m.name \in Resolution!Names
      BY <2>1, NamedByOne
    <3>3. Resolution!Child(f, f.base) = Resolution!Requested(f, m.name, "probable_submodule")
      BY <2>3, <3>1, <3>2 DEF Resolution!Child, Resolution!None
    <3>4. Resolution!Requested(f, m.name, "probable_submodule") \subseteq outcomes
      BY <2>1, <2>3, <3>3 DEF Interpreted, Resolution!FromBase
    <3> QED BY <2>1, <3>4, RequestFindsSource
  <2> QED BY <2>2, <2>3
<1> QED BY <1>1, InductiveInvariant, PTL
-----------------------------------------------------------------------------
(* The layout of the roots                                                 *)

\* IsPrefix, as concatenation, and what a path below a directory has of it.
LEMMA PrefixOfJoin ==
  ASSUME NEW d \in Seq(STRING), NEW s \in Seq(STRING), NEW t \in Seq(STRING), d = s \o t
  PROVE  /\ IsPrefix(s, d)
         /\ s # <<>> => s \in Lineage(d)
         /\ IsPrefix(d, s) => t = <<>>
<1>1. Len(d) = Len(s) + Len(t) /\ SubSeq(d, 1, Len(s)) = s /\ SubSeq(s, 1, Len(s)) = s
  BY JoinMeans
<1>2. IsPrefix(s, d)
  BY <1>1 DEF IsPrefix
<1>3. s # <<>> => s \in Lineage(d)
  <2>1. s # <<>> => Len(s) \in 1 .. Len(d)
    BY <1>1
  <2> QED BY <1>1, <2>1, Zenon DEF Lineage
<1>4. IsPrefix(d, s) => t = <<>>
  BY <1>1 DEF IsPrefix
<1> QED BY <1>2, <1>3, <1>4

\* What follows the same beginning is the same.
LEMMA JoinCancels ==
  ASSUME NEW s \in Seq(STRING), NEW t \in Seq(STRING), NEW u \in Seq(STRING), s \o t = s \o u
  PROVE  t = u
<1>1. /\ Len(s) + Len(t) = Len(s) + Len(u)
      /\ \A k \in 1 .. Len(t) : t[k] = u[k]
  <2> DEFINE v == s \o t
  <2>1. v \in Seq(STRING) /\ v = s \o t /\ v = s \o u
    OBVIOUS
  <2> HIDE DEF v
  <2>2. /\ Len(v) = Len(s) + Len(t) /\ \A k \in 1 .. Len(t) : v[k + Len(s)] = t[k]
        /\ Len(v) = Len(s) + Len(u) /\ \A k \in 1 .. Len(u) : v[k + Len(s)] = u[k]
    BY <2>1, JoinMeans
  <2>3. Len(t) \in Nat /\ Len(u) \in Nat /\ Len(s) \in Nat
    OBVIOUS
  <2>4. Len(t) = Len(u)
    BY <2>2, <2>3
  <2> QED BY <2>2, <2>4
<1> QED BY <1>1

LEMMA JoinAssociates ==
  ASSUME NEW s \in Seq(STRING), NEW t \in Seq(STRING), NEW u \in Seq(STRING)
  PROVE  (s \o t) \o u = s \o (t \o u)
<1>1. /\ (s \o t) \o u \in Seq(STRING)
      /\ Len((s \o t) \o u) = Len(s) + Len(t \o u)
      /\ \A k \in 1 .. Len(s) : ((s \o t) \o u)[k] = s[k]
  OBVIOUS
<1>2. ASSUME NEW k \in 1 .. Len(t \o u)
      PROVE  ((s \o t) \o u)[k + Len(s)] = (t \o u)[k]
  OBVIOUS
<1> QED BY <1>1, <1>2, JoinMeans

\* A sequence is its beginning and the rest.
LEMMA CutAndJoin ==
  ASSUME NEW s \in Seq(STRING), NEW k \in 0 .. Len(s)
  PROVE  /\ SubSeq(s, 1, k) \in Seq(STRING) /\ SubSeq(s, k + 1, Len(s)) \in Seq(STRING)
         /\ Len(SubSeq(s, 1, k)) = k
         /\ s = SubSeq(s, 1, k) \o SubSeq(s, k + 1, Len(s))
<1>1. /\ SubSeq(s, 1, k) \in Seq(STRING) /\ SubSeq(s, k + 1, Len(s)) \in Seq(STRING)
      /\ Len(SubSeq(s, 1, k)) = k /\ Len(SubSeq(s, k + 1, Len(s))) = Len(s) - k
      /\ \A i \in 1 .. k : s[i] = SubSeq(s, 1, k)[i]
      /\ \A i \in 1 .. Len(s) - k : s[i + k] = SubSeq(s, k + 1, Len(s))[i]
  OBVIOUS
<1> DEFINE a == SubSeq(s, 1, k)
           b == SubSeq(s, k + 1, Len(s))
<1>2. /\ a \in Seq(STRING) /\ b \in Seq(STRING) /\ Len(a) = k /\ Len(b) = Len(s) - k
      /\ \A i \in 1 .. k : s[i] = a[i]
      /\ \A i \in 1 .. Len(s) - k : s[i + k] = b[i]
  BY <1>1
<1> HIDE DEF a, b
<1>3. Len(s) = Len(a) + Len(b)
  BY <1>2
<1>4. s = a \o b
  BY <1>2, <1>3, JoinMeans
<1> QED BY <1>2, <1>4 DEF a, b

\* The part of a source's path above what is not empty is a directory the source lies in.
LEMMA DirectoryAbovePath ==
  ASSUME project \in Projects, NEW m \in project.modules,
         NEW d \in Seq(STRING), NEW x \in Seq(STRING), x # <<>>, PathOf(m) = d \o x
  PROVE  \E t \in Seq(STRING) : m.directory = d \o t
<1>1. m.directory \in Seq(STRING)
  BY ProjectsAssumption
<1>2. CASE m.isPackage
  BY <1>2 DEF PathOf
<1>3. CASE ~m.isPackage
  <2> DEFINE last == m.name[Len(m.name)]
  <2>1. Append(m.directory, last) = d \o x
    BY <1>3 DEF PathOf
  <2> HIDE DEF last
  <2> DEFINE t == SubSeq(x, 1, Len(x) - 1)
  <2>2. t \in Seq(STRING) /\ Len(t) = Len(x) - 1 /\ \A k \in 1 .. Len(t) : t[k] = x[k]
    <3>1. Len(x) \in Nat \ {0}
      OBVIOUS
    <3>2. Len(x) - 1 \in 0 .. Len(x)
      BY <3>1
    <3>3. t \in Seq(STRING) /\ Len(t) = Len(x) - 1
      BY <3>2, CutAndJoin
    <3> QED BY <3>1, <3>3
  <2>3. /\ Len(m.directory) + 1 = Len(d) + Len(x)
        /\ \A k \in 1 .. Len(m.directory) : m.directory[k] = (d \o x)[k]
    <3>1. /\ Len(Append(m.directory, last)) = Len(m.directory) + 1
          /\ \A k \in 1 .. Len(m.directory) : m.directory[k] = Append(m.directory, last)[k]
      BY <1>1
    <3> QED BY <2>1, <3>1
  <2> HIDE DEF t
  <2>4. Len(x) \in Nat \ {0}
    OBVIOUS
  <2>5. \A k \in 1 .. Len(d) : m.directory[k] = d[k]
    BY <2>3, <2>4
  <2>6. \A k \in 1 .. Len(t) : m.directory[k + Len(d)] = t[k]
    <3> TAKE k \in 1 .. Len(t)
    <3>1. k \in 1 .. Len(x) /\ k + Len(d) \in 1 .. Len(m.directory)
      BY <1>1, <2>2, <2>3, <2>4
    <3>2. (d \o x)[k + Len(d)] = x[k]
      BY <3>1
    <3> QED BY <2>2, <2>3, <3>1, <3>2
  <2>7. Len(m.directory) = Len(d) + Len(t)
    BY <1>1, <2>2, <2>3, <2>4
  <2>8. m.directory = d \o t
    BY <1>1, <2>2, <2>5, <2>6, <2>7, JoinMeans
  <2> QED BY <2>2, <2>8
<1> QED BY <1>2, <1>3
\* A part of a path is a path.
LEMMA PartOfPath ==
  ASSUME NEW s \in Seq(STRING), NEW e, NEW t \in Seq(STRING), (s \o <<e>>) \o t \in Seq(STRING)
  PROVE  <<e>> \in Seq(STRING) /\ <<e>> # <<>>
<1> DEFINE Part == STRING \cup {e}
           u == (s \o <<e>>) \o t
<1>1. s \in Seq(Part) /\ t \in Seq(Part) /\ <<e>> \in Seq(Part) /\ Len(<<e>>) = 1 /\ <<e>>[1] = e
  OBVIOUS
<1> HIDE DEF Part
<1>2. /\ s \o <<e>> \in Seq(Part) /\ Len(s \o <<e>>) = Len(s) + 1 /\ (s \o <<e>>)[Len(s) + 1] = e
  BY <1>1
<1>3. Len(u) >= Len(s) + 1 /\ u[Len(s) + 1] = e
  BY <1>1, <1>2
<1>4. e \in STRING
  <2>1. u \in Seq(STRING) /\ Len(s) + 1 \in 1 .. Len(u)
    BY <1>3
  <2> HIDE DEF u
  <2> QED BY <1>3, <2>1
<1>5. ASSUME NEW S, NEW p \in S PROVE <<p>> \in Seq(S) /\ <<p>> # <<>>
  OBVIOUS
<1> QED BY <1>4, <1>5, Zenon

\* What can be read of the packaging metadata is made of names and paths.
LEMMA SettingsArePaths ==
  ASSUME project \in Projects, NEW r \in project.roots
  PROVE  /\ r \in Seq(STRING)
         /\ \A n \in DOMAIN Layout!PackageDirs(r) :
              /\ n \in Seq(STRING) /\ Layout!PackageDirs(r)[n] \in Seq(STRING)
              /\ Layout!RelativeDirectory(Layout!PackageDirs(r)[n])
         /\ \A c \in Layout!RootCandidates(r) : c \in Seq(STRING) /\ c # <<>>
<1> DEFINE ini == project.settings[r].setup.dirs
           toml == project.settings[r].pyproject.dirs
           dirs(n) == IF n \in DOMAIN ini THEN ini[n] ELSE toml[n]
<1>1. /\ r \in Seq(STRING)
      /\ \A n \in DOMAIN ini : n \in Seq(STRING) /\ ini[n] \in Seq(STRING)
      /\ \A n \in DOMAIN toml : n \in Seq(STRING) /\ toml[n] \in Seq(STRING)
      /\ project.settings[r].pyproject.where \subseteq Seq(STRING)
      /\ project.settings[r].setup.where \subseteq Seq(STRING)
  BY ProjectsAssumption
<1>2. Layout!PackageDirs(r) =
        [n \in {k \in DOMAIN ini \cup DOMAIN toml : Layout!RelativeDirectory(dirs(k))} |-> dirs(n)]
  BY DEF Layout!PackageDirs
<1>3. \A n \in DOMAIN Layout!PackageDirs(r) :
        /\ n \in Seq(STRING) /\ Layout!PackageDirs(r)[n] \in Seq(STRING)
        /\ Layout!RelativeDirectory(Layout!PackageDirs(r)[n])
  <2> HIDE DEF ini, toml
  <2> QED BY <1>1, <1>2
<1>4. ASSUME NEW n \in DOMAIN Layout!PackageDirs(r), Layout!EndsIn(Layout!PackageDirs(r)[n], n)
      PROVE  Layout!PackageRoot(r, n) \in Seq(STRING)
  <2> DEFINE d == Layout!PackageDirs(r)[n]
  <2>1. d \in Seq(STRING) /\ n \in Seq(STRING) /\ Len(n) <= Len(d)
    BY <1>3, <1>4 DEF Layout!EndsIn
  <2> HIDE DEF d
  <2>2. Len(d) - Len(n) \in 0 .. Len(d)
    BY <2>1
  <2>3. SubSeq(d, 1, Len(d) - Len(n)) \in Seq(STRING)
    BY <2>1, <2>2, CutAndJoin
  <2> QED BY <2>3 DEF d, Layout!PackageRoot
<1>5. ASSUME NEW c \in Layout!RootCandidates(r) PROVE c \in Seq(STRING) /\ c # <<>>
  <2>1. /\ c # <<>>
        /\ \/ \E n \in DOMAIN Layout!PackageDirs(r) :
                Layout!EndsIn(Layout!PackageDirs(r)[n], n) /\ c = Layout!PackageRoot(r, n)
           \/ c \in project.settings[r].pyproject.where \cup project.settings[r].setup.where
    BY DEF Layout!RootCandidates
  <2> QED BY <1>1, <1>4, <2>1
<1> QED BY <1>1, <1>3, <1>5

\* A complete analysis has diagnosed no wrong root.
LEMMA CompleteHasFittingRoots ==
  ASSUME IInv, status = "complete", NEW r \in project.roots
  PROVE  /\ Layout!UnsupportedMappings(r, ExternalNames) = {}
         /\ Layout!Mismatches(r, ExternalNames) = {}
<1>1. Layout!Diagnose(ExternalNames) \subseteq diagnostics /\ \A d \in diagnostics : d.severity # "error"
  BY DEF IInv, Gathered, IsComplete
<1>2. ASSUME NEW code, NEW names, Layout!Diagnosed("error", code, r, names) \subseteq diagnostics
      PROVE  names = {}
  <2>1. ASSUME NEW n \in names PROVE FALSE
    <3>1. [severity |-> "error", code |-> code, root |-> r, name |-> n] \in diagnostics
      BY <1>2 DEF Layout!Diagnosed
    <3> QED BY <1>1, <3>1
  <2> QED BY <2>1
<1>3. /\ Layout!Diagnosed("error", "unsupported_package_mapping", r,
                         Layout!UnsupportedMappings(r, ExternalNames)) \subseteq diagnostics
      /\ Layout!Diagnosed("error", "source_root_mismatch", r,
                         Layout!Mismatches(r, ExternalNames)) \subseteq diagnostics
  <2>1. Layout!Diagnosed("error", "unsupported_package_mapping", r, Layout!UnsupportedMappings(r, ExternalNames))
          \cup Layout!Diagnosed("error", "source_root_mismatch", r, Layout!Mismatches(r, ExternalNames))
          \subseteq Layout!Diagnose(ExternalNames)
    BY DEF Layout!Diagnose
  <2> QED BY <1>1, <2>1
<1> QED BY <1>2, <1>3

\* A source that is found from a candidate for a root gives that candidate away.
LEMMA CandidateIsDiagnosed ==
  ASSUME project \in Projects, NEW r \in project.roots, NEW c \in Layout!Candidates(r),
         NEW m \in project.modules, m.name # NoName, LiesIn(project, m, r),
         NEW x \in ExternalNames, x \in Seq(STRING), x # NoName, PathOf(m) = r \o c \o x
  PROVE  c \in Layout!Mismatches(r, ExternalNames)
<1>1. /\ r \in Seq(STRING) /\ c \in Seq(STRING) /\ c # <<>>
      /\ m.name \in Seq(STRING) /\ m.directory \in Seq(STRING) /\ r \o c \in Seq(STRING)
      /\ PathOf(m) = r \o m.name /\ Lineage(m.directory) \subseteq project.directories
  <2>1. r \in Seq(STRING) /\ c \in Seq(STRING) /\ c # <<>>
    <3>1. CASE c \in Layout!RootCandidates(r)
      BY <3>1, SettingsArePaths
    <3>2. ASSUME NEW e, c = <<e>> PROVE c \in Seq(STRING) /\ c # <<>>
      <4>1. r \in Seq(STRING)
        BY SettingsArePaths
      <4>2. m.name \in Seq(STRING) /\ PathOf(m) = r \o m.name
        BY ProjectsAssumption
      <4>3. r \o m.name \in Seq(STRING)
        BY <4>1, <4>2
      <4> QED BY <3>2, <4>1, <4>2, <4>3, PartOfPath
    <3> QED BY <3>1, <3>2, SettingsArePaths DEF Layout!Candidates
  <2>2. r \o c \in Seq(STRING)
    BY <2>1
  <2>3. m.name \in Seq(STRING) /\ m.directory \in Seq(STRING)
    BY ProjectsAssumption
  <2>4. PathOf(m) = r \o m.name /\ Lineage(m.directory) \subseteq project.directories
    <3>1. m \in {k \in project.modules : k.name # NoName}
      OBVIOUS
    <3> QED BY <3>1, ProjectsAssumption, Zenon
  <2> QED BY <2>1, <2>2, <2>3, <2>4
<1>2. c \o x \in Layout!KnownNames(r)
  <2>1. (r \o c) \o x = r \o (c \o x)
    BY <1>1, JoinAssociates, Zenon
  <2>2. c \o x \in Seq(STRING)
    BY <1>1
  <2>3. r \o (c \o x) = r \o m.name
    BY <1>1, <2>1, Zenon
  <2>4. c \o x = m.name
    BY <1>1, <2>2, <2>3, JoinCancels, Zenon
  <2>5. m \in Layout!Members(r)
    BY DEF Layout!Members, LiesIn, IsPrefix, Layout!IsPrefix
  <2>6. m.name \in Layout!Lineage(m.name)
    BY <1>1, LineageOfItself DEF Lineage, Layout!Lineage
  <2> QED BY <2>4, <2>5, <2>6 DEF Layout!KnownNames
<1>3. PICK t \in Seq(STRING) : m.directory = (r \o c) \o t
  BY <1>1, DirectoryAbovePath DEF NoName
<1>4. r \o c # <<>> /\ IsPrefix(r \o c, m.directory) /\ r \o c \in project.directories
  <2>1. r \o c # <<>>
    BY <1>1
  <2>2. IsPrefix(r \o c, m.directory) /\ r \o c \in Lineage(m.directory)
    BY <1>1, <1>3, <2>1, PrefixOfJoin
  <2> QED BY <1>1, <2>1, <2>2
<1>5. r \o c \notin project.roots
  <2>1. ASSUME r \o c \in project.roots PROVE FALSE
    <3>1. IsPrefix(r \o c, r)
      BY <1>4, <2>1 DEF LiesIn
    <3> QED BY <1>1, <3>1, PrefixOfJoin
  <2> QED BY <2>1
<1> QED BY <1>2, <1>4, <1>5 DEF Layout!Mismatches

\* "No wrong root goes unnoticed", for every project.
THEOREM WrongRootsAreNoticed == Spec => []MissedRootsAreReported
<1>1. IInv => MissedRootsAreReported
  <2> SUFFICES ASSUME IInv, status = "complete", NEW r \in project.roots, NEW x \in ExternalNames,
                      NEW m \in project.modules, m.name # NoName, LiesIn(project, m, r), Finds(r, x, m)
               PROVE  FALSE
    BY DEF MissedRootsAreReported
  <2>1. /\ project \in Projects /\ r \in Seq(STRING)
        /\ m.name \in Seq(STRING) /\ m.directory \in Seq(STRING) /\ PathOf(m) = r \o m.name
    BY ProjectsAssumption DEF IInv
  <2>2. x \in Seq(STRING) /\ x # NoName /\ Resolution!Lineage(x) \cap Resolution!Owned = {}
    BY DEF ExternalNames, IInv, Honest, ExternalHonest
  <2>3. x # m.name
    <3>1. PICK o \in project.modules : o.name \in Lineage(m.name) /\ o.status \in {"bound", "ambiguous"}
      BY <2>1, ProjectsAssumption
    <3>2. catalog.modules = project.modules
      BY DEF IInv, Accepted
    <3>3. o.name # NoName
      BY <2>1, <3>1 DEF Lineage, NoName
    <3>4. o.name \in Resolution!Owned
      BY <3>1, <3>2, <3>3 DEF Resolution!Owned, Resolution!Names, Resolution!NamedBy, NoName, Resolution!NoName
    <3> QED BY <2>2, <3>1, <3>4 DEF Lineage, Resolution!Lineage
  <2>4. CASE \E c \in Layout!Candidates(r) : PathOf(m) = r \o c \o x
    BY <2>1, <2>2, <2>4, CandidateIsDiagnosed, CompleteHasFittingRoots
  <2>5. ASSUME NEW n \in DOMAIN Layout!PackageDirs(r), n = NoName \/ n \in Lineage(x),
               IsPrefix(r \o Layout!PackageDirs(r)[n], m.directory),
               PathOf(m) = r \o Layout!PackageDirs(r)[n] \o SubSeq(x, Len(n) + 1, Len(x))
        PROVE  FALSE
    <3> DEFINE d == Layout!PackageDirs(r)[n]
               rest == SubSeq(x, Len(n) + 1, Len(x))
               c == Layout!PackageRoot(r, n)
    <3>1. n \in Seq(STRING) /\ d \in Seq(STRING) /\ Layout!RelativeDirectory(d)
      BY <2>1, SettingsArePaths
    <3>2. Layout!EndsIn(d, n)
      <4>1. ASSUME ~Layout!EndsIn(d, n) PROVE FALSE
        <5>1. n # NoName
          BY <3>1, <4>1 DEF Layout!EndsIn, NoName
        <5>2. m \in Layout!Members(r) /\ Layout!IsPrefix(r \o d, m.directory)
          BY <2>5 DEF Layout!Members, LiesIn, IsPrefix, Layout!IsPrefix
        <5>3. n \in Layout!Lineage(x)
          BY <2>5, <5>1 DEF Lineage, Layout!Lineage
        <5>4. n \in Layout!UnsupportedMappings(r, ExternalNames)
          BY <4>1, <5>2, <5>3 DEF Layout!UnsupportedMappings, Layout!Aliases
        <5> QED BY <5>4, CompleteHasFittingRoots
      <4> QED BY <4>1
    <3>3. x = n \o rest /\ rest \in Seq(STRING)
      <4>1. PICK k \in 0 .. Len(x) : n = SubSeq(x, 1, k)
        <5>1. CASE n = NoName
          <6>1. 0 \in 0 .. Len(x) /\ SubSeq(x, 1, 0) = <<>>
            BY <2>2
          <6> QED BY <5>1, <6>1 DEF NoName
        <5>2. CASE n \in Lineage(x)
          BY <2>2, <5>2 DEF Lineage
        <5> QED BY <2>5, <5>1, <5>2
      <4>2. Len(n) = k
        BY <2>2, <4>1, CutAndJoin
      <4> QED BY <2>2, <4>1, <4>2, CutAndJoin
    <3>4. c \in Seq(STRING) /\ d = c \o n /\ Layout!RelativeDirectory(c)
      <4> HIDE DEF d
      <4>1. Len(d) - Len(n) \in 0 .. Len(d)
        BY <3>1, <3>2 DEF Layout!EndsIn
      <4>2. c = SubSeq(d, 1, Len(d) - Len(n))
        BY DEF d, Layout!PackageRoot
      <4> HIDE DEF c
      <4>3. c \in Seq(STRING) /\ d = c \o n
        BY <3>1, <3>2, <4>1, <4>2, CutAndJoin DEF Layout!EndsIn
      <4>4. \A i \in DOMAIN c : i \in DOMAIN d /\ c[i] = d[i]
        BY <3>1, <4>3
      <4> QED BY <3>1, <4>3, <4>4 DEF Layout!RelativeDirectory
    <3>5. PathOf(m) = (r \o c) \o x
      <4> HIDE DEF c, d, rest
      <4>1. PathOf(m) = (r \o d) \o rest
        BY <2>5 DEF d, rest
      <4>2. (r \o (c \o n)) \o rest = ((r \o c) \o n) \o rest
        BY <2>1, <3>1, <3>4, JoinAssociates
      <4>3. r \o c \in Seq(STRING)
        BY <2>1, <3>4
      <4>4. ((r \o c) \o n) \o rest = (r \o c) \o (n \o rest)
        BY <3>1, <3>3, <4>3, JoinAssociates, Zenon
      <4> QED BY <3>3, <3>4, <4>1, <4>2, <4>4
    <3>6. CASE c # <<>>
      <4>1. c \in Layout!Candidates(r)
        BY <3>2, <3>4, <3>6 DEF Layout!Candidates, Layout!RootCandidates
      <4> QED BY <2>1, <2>2, <3>5, <4>1, CandidateIsDiagnosed, CompleteHasFittingRoots
    <3>7. CASE c = <<>>
      <4>1. r \o c = r
        BY <2>1, <3>7
      <4>2. r \o m.name = r \o x
        BY <2>1, <3>5, <4>1
      <4> QED BY <2>1, <2>2, <2>3, <4>2, JoinCancels
    <3> QED BY <3>6, <3>7
  <2> QED BY <2>4, <2>5 DEF Finds
<1> QED BY <1>1, InductiveInvariant, PTL
=============================================================================
