------------------------- MODULE ProjectResolution -------------------------
(***************************************************************************)
(* SourceBindings and ImportResolution composed as AnalyseProject.analyse  *)
(* composes them: when the catalogue is reconciled, its modules,           *)
(* namespaces and targets become the resolver's arguments, together with   *)
(* the import statements found in the catalogued files.  The composition   *)
(* answers the question neither part can: do the dependency edges say what *)
(* Python would import?                                                    *)
(***************************************************************************)
EXTENDS SourceBindings

CONSTANTS
  Imports,        \* the sets of import statements the files may contain
  OwnedPrefixes,  \* options.owned_prefixes
  Stdlib          \* sys.stdlib_module_names

\* a statement is [file, from, base, level, imported], as in ImportResolution
ASSUME ImportsAssumption ==
  \A imports \in Imports : \A i \in imports :
    /\ i.base \in Seq(STRING) /\ i.imported \in STRING /\ i.level \in Nat
    /\ i.level > 0 => i.from
    /\ ~i.from => i.imported = "none"

\* the extension modules on disk; an excluded one is no more part of the project than an
\* excluded source
IsExtension(t) == t.kind = "native" /\ t.shape = "artifact"

ASSUME TargetsAssumption ==
  \A d \in Disks : \A t \in d.targets :
    t.at \in Seq(STRING) /\ t.init \in BOOLEAN /\ (t.at # <<>> \/ t.init)

VARIABLES
  catalog, phase, pending, outcomes, importErrors, selected

resolutionVars == <<catalog, phase, pending, outcomes, importErrors, selected>>
projectVars    == <<vars, resolutionVars>>

Resolution == INSTANCE ImportResolution WITH Catalogs <- {}, errors <- importErrors

\* a source is identified by its file, an import fact by its content and place
Source(m) == [id |-> m.file, name |-> m.name, isPackage |-> m.isPackage,
              parent |-> m.parent, status |-> m.status]

Fact(i) == [id |-> i, source |-> i.file, from |-> i.from, base |-> i.base,
            level |-> i.level, imported |-> i.imported]

\* what the catalogue is, once it is built, for sources with these import statements
CatalogOf(imports) ==
  [modules    |-> {Source(m) : m \in modules},
   namespaces |-> namespaces,
   owned      |-> OwnedPrefixes,
   targets    |-> targets,
   facts      |-> {Fact(i) : i \in {j \in imports : \E m \in modules : m.file = j.file}}]

ProjectInit == Init /\ Resolution!Init

Bind == Next /\ UNCHANGED resolutionVars

Begin ==
  /\ reconciled
  /\ \E imports \in Imports : Resolution!Begin(CatalogOf(imports))
  /\ UNCHANGED vars

Resolve ==
  /\ Resolution!ResolveFact \/ Resolution!Finish \/ Resolution!Select
  /\ UNCHANGED vars

ProjectNext == Bind \/ Begin \/ Resolve

ProjectSpec == ProjectInit /\ [][ProjectNext]_projectVars
-----------------------------------------------------------------------------
Extensions == {[at |-> t.at, init |-> t.init] : t \in {u \in disk.targets : IsExtension(u)}}

Python == INSTANCE PythonFinder WITH files <- disk.files \cup Extensions, dirs <- Roots

Unreported == importErrors = {} /\ errors = {}

\* an extension module takes a package above the name
BelowExtension(n) == \E t \in targets : IsExtension(t) /\ t.name \in Ancestors(n)

\* A dependency says what Python would load: under every order of the roots on sys.path the
\* name of its target leads to that source, and no extension module takes its place.  Names
\* that cross a nested root, or lie below an extension module, are excepted.
DependenciesFollowPython ==
  \A o \in Resolution!Dependencies : \A m \in modules :
    m.file = o.target =>
      /\ m.file \notin Extensions
      /\ ~CrossesRoot(m.name) /\ ~BelowExtension(m.name) =>
           \A sysPath \in Python!SysPaths : Python!Finds(sysPath, m.name).loads = {m.file}

\* README.md: "Each root is a directory normally placed on sys.path": a dependency leads to
\* what is imported from there, below an extension module too.
DependenciesAreImported ==
  \A o \in Resolution!Dependencies : \A m \in modules :
    m.file = o.target /\ ~CrossesRoot(m.name) =>
      \A sysPath \in Python!SysPaths : Python!Finds(sysPath, m.name).loads = {m.file}

\* the names a statement asks for: its base, and the child it may import
Asked(f) ==
  LET package == UNION {IF m.isPackage THEN {m.name} ELSE {m.parent} : m \in {n \in modules : n.file = f.source}}
      bases   == IF f.level = 0 THEN {f.base}
                 ELSE {ResolveRelative(f.level, f.base, p) : p \in {q \in package : RelativeFits(f.level, q)}}
  IN bases \cup {Append(b, f.imported) : b \in {c \in bases : f.imported \notin {"none", "*"}}}

\* No source a statement asks for is missed: when no error is reported, each analysed source
\* that an asked name leads to, under any order of the roots, is a dependency of the importing
\* source.  Excepted are the importing source itself, names that cross a root, and the packages
\* above an asked name: Python runs their initializers on the way, and docs/release-0.3.1.md
\* leaves "package initializer execution" outside the resolution policy.
RequestedSourcesAreDependencies ==
  phase = "selected" /\ Unreported =>
    \A f \in catalog.facts : \A n \in Asked(f) : ~CrossesRoot(n) =>
      \A sysPath \in Python!SysPaths :
        \A file \in Python!Finds(sysPath, n).loads \cap {m.file : m \in modules} :
          file # f.source => \E o \in Resolution!Dependencies : o.fact = f.id /\ o.target = file
=============================================================================
