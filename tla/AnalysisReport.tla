--------------------------- MODULE AnalysisReport ---------------------------
(***************************************************************************)
(* AnalyseProject.analyse and the exit code the command line makes of it:  *)
(* the options are validated, the configured targets are reconciled with   *)
(* the discovered ones, the imports are resolved (ImportResolution), the   *)
(* diagnostics of all parts are gathered (LayoutDiagnostics among them),   *)
(* the views are evaluated, and coverage and gate decide between 0, 1, 2.  *)
(***************************************************************************)
EXTENDS DottedNames, FiniteSets, SequencesExt

CONSTANTS
  Projects,  \* what there is to analyse
  Stdlib     \* sys.stdlib_module_names

(***************************************************************************)
(* A project is a record of                                                *)
(*   modules, namespaces, facts   the catalogue; a module also has the     *)
(*              directory of its file, a fact whether the gate retains it  *)
(*   catalogErrors  the ERROR diagnostics of building it                   *)
(*   roots, directories, settings  as in LayoutDiagnostics                 *)
(*   discovered, targets, owned   the targets found, the sequence of those *)
(*              configured, prefixes; a target also has its path as a      *)
(*              sequence, at, and the place of that path in their order,   *)
(*              rank, which is 0 without one                               *)
(*   malformed  whether any other option is missing, of a wrong type or    *)
(*              out of range, or a file of the request cannot be read      *)
(*   cyclic     whether the gate's view has a cycle                        *)
(*   raises     whether an extension raises                                *)
(* No module is named * or none: the star and the absence of a name        *)
(* imported.  Paths with one place are one path.  A source has the name of *)
(* its path below its root, and its name or one above it is always taken:  *)
(* a source that loses its own to a package or plain module leaves that.   *)
(***************************************************************************)
\* the path of a source without its suffix; an initializer is found by its directory
PathOf(m) == IF m.isPackage THEN m.directory ELSE Append(m.directory, m.name[Len(m.name)])

\* r is the innermost selected root above a source
LiesIn(p, m, r) ==
  IsPrefix(r, m.directory) /\ \A s \in p.roots : IsPrefix(s, m.directory) => IsPrefix(s, r)

TargetsOf(p) == {p.targets[i] : i \in DOMAIN p.targets}

ASSUME ProjectsAssumption ==
  \A p \in Projects :
    /\ IsFiniteSet(p.modules)
    /\ \A m, n \in p.modules : m.id = n.id => m = n
    /\ \A m \in p.modules : /\ m.name \in Seq(STRING) /\ m.directory \in Seq(STRING)
                            /\ m.parent \in Seq(STRING) /\ (m.status = "bound" => m.name # NoName)
    /\ \A m \in {k \in p.modules : k.name # NoName} :
         /\ \A r \in p.roots : LiesIn(p, m, r) => PathOf(m) = r \o m.name
         /\ Lineage(m.directory) \subseteq p.directories
         /\ \E o \in p.modules : o.name \in Lineage(m.name) /\ o.status \in {"bound", "ambiguous"}
    /\ \A r \in p.roots :
         /\ r \in Seq(STRING)
         /\ \A file \in {p.settings[r].pyproject, p.settings[r].setup} :
              /\ file.where \subseteq Seq(STRING)
              /\ \A n \in DOMAIN file.dirs : n \in Seq(STRING) /\ file.dirs[n] \in Seq(STRING)
    /\ \A f \in p.facts : /\ f.level \in Nat /\ (f.level > 0 => f.from)
                          /\ f.base \in Seq(STRING) /\ f.imported \in STRING
                          /\ f.level = 0 => f.base # NoName
                          /\ f.imported \in {"none", "*"} =>
                               \A m \in p.modules : m.name # Append(f.base, f.imported)
    /\ \A t \in p.discovered : /\ t.kind \in {"stub", "native", "excluded"} /\ t.rank > 0
                               /\ t.name \in Seq(STRING) \ {NoName}
                               /\ t.acknowledged => t.kind = "excluded"
    /\ \A t \in p.discovered \cup TargetsOf(p) :
         /\ t.rank \in Nat /\ t.acknowledged \in BOOLEAN
         /\ DOMAIN t = {"name", "kind", "at", "rank", "directory", "shape", "acknowledged"}
    /\ \A t, u \in p.discovered \cup TargetsOf(p) : t.rank = u.rank => t.at = u.at

VARIABLES
  project,
  catalog, phase, pending, outcomes, errors, selected,  \* as in ImportResolution
  diagnostics,  \* the report's diagnostics: [severity, code, name]
  status,       \* "none", "gathered", "complete", "incomplete"
  exit          \* the exit code: {} while the program runs

resolutionVars == <<catalog, phase, pending, outcomes, errors, selected>>
vars           == <<project, resolutionVars, diagnostics, status, exit>>

Resolution == INSTANCE ImportResolution WITH Catalogs <- {}
Layout     == INSTANCE LayoutDiagnostics
-----------------------------------------------------------------------------
(* OptionValidator                                                         *)

ValidTargets ==
  \A i \in DOMAIN project.targets :
    /\ project.targets[i].kind \in {"stub", "native", "generated"}
    /\ project.targets[i].name # NoName
    /\ \A j \in DOMAIN project.targets : project.targets[i].name = project.targets[j].name => i = j

ValidOptions == ~project.malformed /\ ValidTargets
-----------------------------------------------------------------------------
(* TargetReconciler                                                        *)

Configured(t) == {c \in TargetsOf(project) : c.name = t.name}

\* mutant: the kind of a configured target does not matter
NothingDisagrees == FALSE

\* a configured target may stand beside a stub, but not contradict what was found
KindsDisagree ==
  \E t \in project.discovered : \E c \in Configured(t) :
    /\ c.kind # t.kind
    /\ ~ (t.kind = "stub" /\ c.kind \in {"native", "generated"})

Overridden(t) ==
  IF \E c \in Configured(t) : c.kind = t.kind
  THEN [t EXCEPT !.acknowledged = \E c \in Configured(t) : c.acknowledged]
  ELSE t

\* reconcile: configuration acknowledges what was discovered and declares the rest
Reconciled ==
  {Overridden(t) : t \in project.discovered}
    \cup {c \in TargetsOf(project) : ~ \E t \in project.discovered : t.name = c.name /\ t.kind = c.kind}

Boundaries == {o.boundary : o \in {p \in outcomes : p.as = "boundary"}}

\* the path a boundary is reported with: the first path among its strongest declarations
Reporting(b) ==
  LET declared == {t \in Resolution!Declarations(b.name) : t.kind = b.kind /\ t.rank > 0}
  IN {t \in declared : \A u \in declared : t.rank <= u.rank}

\* a target lies in the directory of a source
Inside(m, t) == IsPrefix(m.directory, t.at)

BoundAbove(n) == {m \in project.modules : m.status = "bound" /\ m.name \in Ancestors(n)}

\* diagnose_layout: what keeps a target from being the child its name says it is
LayoutError(b) ==
  LET plain   == {m \in BoundAbove(b.name) : ~m.isPackage}
      outside == {m \in BoundAbove(b.name) :
                    \E t \in Reporting(b) : /\ \E d \in project.discovered : d.kind = b.kind /\ d.rank = t.rank
                                            /\ ~Inside(m, t)}
      first   == {m \in plain \cup outside : \A o \in plain \cup outside : Len(m.name) <= Len(o.name)}
  IN {[severity |-> "error", name |-> b.name,
       code |-> IF m \in plain THEN "non_package_target_prefix" ELSE "incompatible_target_layout"] : m \in first}

Used(c) == \E b \in Boundaries : b.name = c.name

UnusedAcknowledgements ==
  {[severity |-> "warning", name |-> c.name, code |-> "unused_acknowledgement"] :
     c \in {d \in TargetsOf(project) : d.acknowledged /\ ~Used(d)}}
-----------------------------------------------------------------------------
(* CoveragePolicy, UnresolvedImportCheck and CliExitCodePolicy             *)

\* mutant: only what the gate retains is covered
CoveredForGate(ds) ==
  /\ \A d \in ds : d.severity # "error"
  /\ \A o \in outcomes : o.as = "boundary" /\ (\E f \in project.facts : f.id = o.fact /\ f.retained)
                           => o.boundary.acknowledged

IsComplete(ds) ==
  /\ \A d \in ds : d.severity # "error"
  /\ \A b \in Boundaries : b.acknowledged

UnresolvedFindings ==
  {o \in outcomes : /\ o.as = "unresolved" /\ o.how # "namespace_base_unmodelled"
                    /\ \E f \in project.facts : f.id = o.fact /\ f.retained}

GateFails == project.cyclic \/ UnresolvedFindings # {}

ExitCode(state) == IF state = "incomplete" THEN 2 ELSE IF GateFails THEN 1 ELSE 0
-----------------------------------------------------------------------------
Init ==
  /\ project \in Projects
  /\ Resolution!Init
  /\ diagnostics = {}
  /\ status = "none"
  /\ exit = {}

\* loading or validating the options raises, and the command line prints the error
RejectOptions ==
  /\ phase = "idle" /\ exit = {} /\ ~ValidOptions
  /\ exit' = {2}
  /\ UNCHANGED <<project, resolutionVars, diagnostics, status>>

\* reconcile raises
Disagree ==
  /\ phase = "idle" /\ exit = {} /\ ValidOptions /\ KindsDisagree
  /\ exit' = {2}
  /\ UNCHANGED <<project, resolutionVars, diagnostics, status>>

Begin ==
  /\ exit = {} /\ ValidOptions /\ ~KindsDisagree
  /\ Resolution!Begin([modules |-> project.modules, namespaces |-> project.namespaces,
                       owned |-> project.owned, targets |-> Reconciled, facts |-> project.facts])
  /\ UNCHANGED <<project, diagnostics, status, exit>>

Resolve ==
  /\ Resolution!ResolveFact \/ Resolution!Finish \/ Resolution!Select
  /\ UNCHANGED <<project, diagnostics, status, exit>>

Error(codes) == {[severity |-> "error", code |-> c, name |-> NoName] : c \in codes}

ExternalNames == {o.requested : o \in {p \in outcomes : p.as = "external"}}

\* mutant: the layout of boundaries is not looked at
GatherWithoutLayout ==
  /\ phase = "selected" /\ status = "none"
  /\ diagnostics' = Error(project.catalogErrors) \cup Error({e.code : e \in errors})
                      \cup Layout!Diagnose(ExternalNames) \cup UnusedAcknowledgements
  /\ status' = "gathered"
  /\ UNCHANGED <<project, resolutionVars, exit>>

\* the diagnostics of all parts
Gather ==
  /\ phase = "selected" /\ status = "none"
  /\ diagnostics' = Error(project.catalogErrors) \cup Error({e.code : e \in errors})
                      \cup (UNION {LayoutError(b) : b \in Boundaries})
                      \cup Layout!Diagnose(ExternalNames) \cup UnusedAcknowledgements
  /\ status' = "gathered"
  /\ UNCHANGED <<project, resolutionVars, exit>>

\* evaluating the views raises an ExtensionError
Raise ==
  /\ status = "gathered" /\ exit = {} /\ project.raises
  /\ exit' = {2}
  /\ UNCHANGED <<project, resolutionVars, diagnostics, status>>

\* the views are evaluated, and the report says what coverage makes of the diagnostics
Report ==
  /\ status = "gathered" /\ ~project.raises
  /\ status' = IF IsComplete(diagnostics) THEN "complete" ELSE "incomplete"
  /\ UNCHANGED <<project, resolutionVars, diagnostics, exit>>

\* the command line writes the report
Exit ==
  /\ status \in {"complete", "incomplete"} /\ exit = {}
  /\ exit' = {ExitCode(status)}
  /\ UNCHANGED <<project, resolutionVars, diagnostics, status>>

Next == RejectOptions \/ Disagree \/ Begin \/ Resolve \/ Gather \/ Raise \/ Report \/ Exit

Spec == Init /\ [][Next]_vars
-----------------------------------------------------------------------------
OutcomesOf(f) == {o \in outcomes : o.fact = f.id}

Found(f, as) == {o \in OutcomesOf(f) : o.as = as}

\* Exit codes 0 and 1 can be trusted, and coverage does not depend on the gate: no part has
\* reported an error, and every import of every source, in the gate's view or not, has one
\* reading and meets no boundary that was not accepted.  Exit code 0 means besides that what
\* the gate retains is resolved, but for namespaces, and has no cycle.
ExitCodesCanBeTrusted ==
  exit \in {{0}, {1}} =>
    /\ ValidOptions /\ project.catalogErrors = {} /\ errors = {} /\ ~project.raises
    /\ \A f \in project.facts : \A o \in OutcomesOf(f) :
         /\ o.as = "boundary" => o.boundary.acknowledged
         /\ o.as = "unresolved" =>
              /\ o.how \notin {"ambiguous_target", "unknown_package_context"}
              /\ exit = {0} /\ f.retained => o.how = "namespace_base_unmodelled"
    /\ exit = {0} => ~project.cyclic

\* A boundary is accepted on purpose only: an excluded one by an exclusion of exactly that
\* name or of a directory above it, any other by a configured target of its name and kind
\* that says so.
AcceptedOnPurpose ==
  \A b \in Boundaries : b.acknowledged =>
    IF b.kind = "excluded"
    THEN \E t \in project.discovered : t.kind = "excluded" /\ t.acknowledged /\ t.name \in Lineage(b.name)
    ELSE \E c \in TargetsOf(project) : c.name = b.name /\ c.kind = b.kind /\ c.acknowledged

\* "Unused acknowledgements produce warnings": each acknowledgement in the configuration
\* accepts a boundary of that name and kind, or the report says that it does not.
AcknowledgementsAccountedFor ==
  status # "none" =>
    \A c \in TargetsOf(project) : c.acknowledged =>
      \/ [name |-> c.name, kind |-> c.kind, acknowledged |-> TRUE] \in Boundaries
      \/ \E d \in diagnostics : d.code = "unused_acknowledgement" /\ d.name = c.name

\* Acknowledgement does not "suppress real source dependencies": in a complete analysis an
\* absolute import of a source's name is a dependency on that source, whatever targets are
\* declared.  The one exception is the base of a from-import that the initializer of that base
\* makes itself; README.md: "Initializer self-base suppression does not suppress
\* ordinary-module self-imports."
SourcesAreNotSuppressed ==
  status = "complete" =>
    \A f \in project.facts : \A m \in project.modules :
      /\ m.status = "bound" /\ f.level = 0
      /\ m.name = f.base \/ (f.from /\ m.name = Append(f.base, f.imported))
      => \/ \E o \in Found(f, "dependency") : o.target = m.id
         \/ f.from /\ m.name = f.base /\ m.isPackage /\ f.source = m.id

\* A complete analysis accepts no target that Python could not import: none below a plain
\* source, and no discovered one outside the directory of a regular package above it.
AcceptedTargetsFit ==
  status = "complete" =>
    \A b \in Boundaries : \A m \in project.modules :
      m.status = "bound" /\ m.name \in Ancestors(b.name) =>
        /\ m.isPackage
        /\ ({t \in project.discovered : t.name = b.name /\ t.kind = b.kind} # {}
              => \E t \in project.discovered : t.name = b.name /\ t.kind = b.kind /\ Inside(m, t))

\* Packaging says that source m, below root r, is what an import of the name x finds: it lies
\* at that path below a candidate, or in the directory of the package, or of one above it.
Finds(r, x, m) ==
  \/ \E c \in Layout!Candidates(r) : PathOf(m) = r \o c \o x
  \/ \E n \in DOMAIN Layout!PackageDirs(r) :
       LET d == r \o Layout!PackageDirs(r)[n]
       IN /\ n = NoName \/ n \in Lineage(x)
          /\ IsPrefix(d, m.directory)
          /\ PathOf(m) = d \o SubSeq(x, Len(n) + 1, Len(x))

\* No wrong root goes unnoticed: in a complete analysis no import is called external that
\* the packaging of a selected root, or a src or lib directory in it, finds among the sources
\* of that very root.
MissedRootsAreReported ==
  status = "complete" =>
    \A r \in project.roots : \A x \in ExternalNames :
      ~ \E m \in project.modules : m.name # NoName /\ LiesIn(project, m, r) /\ Finds(r, x, m)

\* scope.py: "Imports ... match source below {candidate}/": a directory is reported as a missing
\* root only if it holds a source that one of the external imports would find there.
MismatchIsReal ==
  \A d \in diagnostics : d.code = "source_root_mismatch" =>
    \E m \in {k \in project.modules : k.name # NoName} : \E x \in ExternalNames :
      IsPrefix(d.root \o d.name \o x, PathOf(m))
=============================================================================
