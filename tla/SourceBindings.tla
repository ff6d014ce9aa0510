--------------------------- MODULE SourceBindings ---------------------------
(***************************************************************************)
(* Which import name each Python file of the selected roots is bound to.   *)
(*                                                                         *)
(* SourceCatalogBuilder.build visits the roots in path order.  For each it *)
(* lets FileSystemSourceDiscovery.discover turn the root's files into      *)
(* modules and settle the conflicts inside that root; after the last root  *)
(* BindingReconciler.reconcile settles the conflicts between roots.  The   *)
(* state is the catalogue being assembled: its modules with their binding  *)
(* statuses, and the ERROR diagnostics the conflicts raise.                *)
(***************************************************************************)
EXTENDS DottedNames, FiniteSets, SequencesExt

CONSTANTS
  Roots,  \* the selected roots' directories, in the order they are visited
  Disks   \* what the roots may hold: [files |-> {...}, targets |-> {...}]

(***************************************************************************)
(* A file is its path without the suffix: [at |-> d, init |-> TRUE] is     *)
(* d/__init__.py, and [at |-> d, init |-> FALSE] is d.py.  A target is a   *)
(* stub, native or excluded path the walk met, with the same two fields    *)
(* and the kind, shape and acknowledged fields of module ImportResolution.*)
(***************************************************************************)
ASSUME RootsAssumption == Roots \in Seq(Seq(STRING)) /\ IsInjective(Roots)
ASSUME DisksAssumption ==
  \A d \in Disks : /\ IsFiniteSet(d.files)
                   /\ d.files \subseteq [at : Seq(STRING), init : BOOLEAN]
                   /\ \A f \in d.files : f.at # <<>> \/ f.init

VARIABLES
  disk,         \* what is on disk, which no step changes
  visited,      \* how many roots have been discovered
  modules,      \* the modules catalogued so far
  targets,      \* the target declarations found so far, with their import names
  namespaces,   \* the names above bound sources or targets that no source of the root binds
  errors,       \* the ERROR diagnostics so far: [code, name]
  reconciled    \* whether BindingReconciler.reconcile has run

vars == <<disk, visited, modules, targets, namespaces, errors, reconciled>>
-----------------------------------------------------------------------------
(* Discovery inside one root                                               *)

Directory(f) == IF f.init THEN f.at ELSE Front(f.at)

\* mutant: no pruning of nested roots
OwnsAnything(r, f) == IsPrefix(Roots[r], Directory(f))

\* a nested root takes its own files: the other root prunes that directory
Owns(r, f) ==
  /\ IsPrefix(Roots[r], Directory(f))
  /\ \A o \in DOMAIN Roots :
       IsStrictPrefix(Roots[r], Roots[o]) => ~ IsPrefix(Roots[o], Directory(f))

NameBelow(r, f) == SubSeq(f.at, Len(Roots[r]) + 1, Len(f.at))

Candidate(r, f) ==
  LET name == NameBelow(r, f)
  IN [file      |-> f,
      name      |-> name,
      isPackage |-> f.init,
      parent    |-> IF name = NoName THEN NoName ELSE Front(name),
      status    |-> IF name = NoName THEN "path_only" ELSE "bound"]

Bound(ms) == {m \in ms : m.status = "bound"}

SameName(ms, m) == {o \in ms : o.name # NoName /\ o.name = m.name}

Duplicated(ms, m) ==
  /\ Cardinality(SameName(ms, m)) > 1
  /\ Cardinality({o \in SameName(ms, m) : o.isPackage}) # 1

\* the only regular package of a name shadows the plain module beside it
SelectPackages(ms) ==
  {[m EXCEPT !.status =
      IF Cardinality(SameName(ms, m)) < 2 THEN @
      ELSE IF Duplicated(ms, m) THEN "ambiguous"
      ELSE IF m.isPackage THEN @ ELSE "shadowed"] : m \in ms}

BoundPlainNames(ms) == {m.name : m \in {o \in Bound(ms) : ~o.isPackage}}

\* mutant: a blocked source keeps its parent package
BlockChildrenKeepParent(ms) ==
  LET plain == BoundPlainNames(ms)
  IN {[m EXCEPT !.status = IF Ancestors(m.name) \cap plain # {} THEN "path_only" ELSE @] : m \in ms}

\* a plain module cannot have children
BlockChildren(ms) ==
  LET plain   == BoundPlainNames(ms)
      Below(m) == Ancestors(m.name) \cap plain # {}
  IN {m \in ms : ~Below(m)} \cup
     {[m EXCEPT !.status = "path_only", !.parent = NoName] : m \in {o \in ms : Below(o)}}

RemoveAmbiguousGroups(ms) == BlockChildren(SelectPackages(ms))

DiscoveryErrors(ms) ==
  {[code |-> "root_init_unsupported", name |-> m.name] : m \in {o \in ms : o.name = NoName}}
    \cup
  {[code |-> "duplicate_module_id", name |-> m.name] : m \in {o \in ms : Duplicated(ms, o)}}

TargetsIn(r) ==
  {[name |-> NameBelow(r, t), kind |-> t.kind, directory |-> Directory(t), shape |-> t.shape,
    acknowledged |-> t.acknowledged] : t \in {u \in disk.targets : Owns(r, u)}}

NamespacesAbove(ms, ts) ==
  LET bound == {m.name : m \in Bound(ms)}
  IN (UNION {Ancestors(n) : n \in bound \cup {t.name : t \in ts}}) \ bound
-----------------------------------------------------------------------------
(* Reconciliation across the roots                                         *)

\* PurePosixPath(m.path).is_relative_to(PurePosixPath(package.path).parent)
InsideDirectory(m, package) == IsPrefix(Directory(package.file), Directory(m.file))

\* mutant: off by one
ClaimedThrice(ms) ==
  {n \in {m.name : m \in Bound(ms)} : Cardinality({m \in Bound(ms) : m.name = n}) > 2}

\* two bound sources compete for one name
ClaimedTwice(ms) ==
  {n \in {m.name : m \in Bound(ms)} : Cardinality({m \in Bound(ms) : m.name = n}) > 1}

\* a source below a plain module of any root: neither name can be trusted
BelowPlain(ms) ==
  LET below == {<<p, m.name>> : p \in BoundPlainNames(ms), m \in Bound(ms)}
  IN UNION {{pair[1], pair[2]} : pair \in {q \in below : q[1] \in Ancestors(q[2])}}

\* mutant: the directory of the package is not looked at
OutsidePackageIgnored(ms) == {}

\* a source below a regular package, in a directory that package does not search
OutsidePackage(ms) ==
  {m.name : m \in {o \in Bound(ms) :
     \E package \in Bound(ms) :
       /\ package.isPackage
       /\ package.name \in Ancestors(o.name)
       /\ ~ InsideDirectory(o, package)}}

\* mutant: the check of directories dropped
ConflictingNames(ms) == ClaimedTwice(ms) \cup BelowPlain(ms)

Conflicting(ms) == ClaimedTwice(ms) \cup BelowPlain(ms) \cup OutsidePackage(ms)

MarkConflicts(ms) ==
  {[m EXCEPT !.status = IF @ = "bound" /\ m.name \in Conflicting(ms)
                        THEN "ambiguous" ELSE @] : m \in ms}
-----------------------------------------------------------------------------
Init ==
  /\ disk \in Disks
  /\ visited = 0
  /\ modules = {}
  /\ targets = {}
  /\ namespaces = {}
  /\ errors = {}
  /\ reconciled = FALSE

DiscoverRoot ==
  LET r          == visited + 1
      candidates == {Candidate(r, f) : f \in {g \in disk.files : Owns(r, g)}}
      found      == RemoveAmbiguousGroups(candidates)
  IN /\ visited < Len(Roots)
     /\ visited' = r
     /\ modules' = modules \cup found
     /\ targets' = targets \cup TargetsIn(r)
     /\ namespaces' = namespaces \cup NamespacesAbove(found, TargetsIn(r))
     /\ errors' = errors \cup DiscoveryErrors(candidates)
     /\ UNCHANGED <<disk, reconciled>>

Reconcile ==
  /\ visited = Len(Roots)
  /\ ~reconciled
  /\ reconciled' = TRUE
  /\ modules' = MarkConflicts(modules)
  /\ errors' = errors
       \cup {[code |-> "ambiguous_import_binding", name |-> n] : n \in Conflicting(modules)}
       \cup (IF modules = {} THEN {[code |-> "no_sources", name |-> NoName]} ELSE {})
  /\ UNCHANGED <<disk, visited, targets, namespaces>>

Next == DiscoverRoot \/ Reconcile

Spec == Init /\ [][Next]_vars
-----------------------------------------------------------------------------
(* What Python's path-based finder does with the same files: the program   *)
(* promises to agree with it.                                              *)

Finder == INSTANCE PythonFinder WITH files <- disk.files, dirs <- Roots

Status == {"bound", "path_only", "shadowed", "ambiguous"}

\* Type invariant: every catalogued module comes from a file on disk and has a binding status;
\* only plain modules are shadowed, and a path-only source has no package to import from.
TypeOK ==
  /\ disk \in Disks
  /\ visited \in 0 .. Len(Roots)
  /\ reconciled \in BOOLEAN
  /\ \A m \in modules : m.file \in disk.files /\ m.status \in Status /\ m.isPackage = m.file.init
  /\ \A m \in modules : m.status = "shadowed" => ~m.isPackage
  /\ \A m \in modules : m.status = "path_only" => m.parent = NoName

\* Another selected root lies at or below the place that the name, or a package above it, has
\* in a selected root: its files have longer names there, under which Python finds them too,
\* while discovery names them from the nested root only.
CrossesRoot(n) ==
  \E r, o \in DOMAIN Roots : \E l \in Lineage(n) : IsPrefix(Roots[r] \o l, Roots[o])

\* A reconciled binding is what Python would import: whichever order the roots have on
\* sys.path, a bound name leads Python's finder to that very file, unless it crosses a root.
BoundIsWhatPythonFinds ==
  reconciled =>
    \A m \in Bound(modules) : ~CrossesRoot(m.name) =>
      \A sysPath \in Finder!SysPaths : Finder!Finds(sysPath, m.name).loads = {m.file}

\* "Root order has no precedence": a name that Python resolves to different files under
\* different root orders is never passed over in silence, unless it crosses a root.
OrderConflictIsReported ==
  reconciled =>
    \A n \in {m.name : m \in modules} \ {NoName} : ~CrossesRoot(n) =>
      (Cardinality({Finder!Finds(sysPath, n).loads : sysPath \in Finder!SysPaths}) > 1
         => errors # {})

\* No file is lost or listed twice: each file on disk that a visited root contains is
\* exactly one module, whatever conflicts met it, nested roots included.
EveryFileIsOneModule ==
  reconciled =>
    \A f \in disk.files :
      Cardinality({m \in modules : m.file = f}) =
        IF \E r \in DOMAIN Roots : IsPrefix(Roots[r], Directory(f)) THEN 1 ELSE 0

\* One marking pass is enough: the sources reconciliation leaves bound have different names,
\* none lies below a plain module, and each lies in the directory of the packages above it.
BindingsCompatible ==
  reconciled =>
    \A m, n \in Bound(modules) :
      /\ m.name = n.name => m = n
      /\ n.name \in Ancestors(m.name) => n.isPackage /\ InsideDirectory(m, n)

\* bindings.py: "Regular packages do not merge another root's namespace fragments into their
\* __path__": a source bound below a regular package lies where that package is searched.
PackagesDoNotMergeRoots ==
  reconciled =>
    \A m, n \in Bound(modules) :
      n.isPackage /\ n.name \in Ancestors(m.name) =>
        m.file.at = n.file.at \o SubSeq(m.name, Len(n.name) + 1, Len(m.name))
=============================================================================
