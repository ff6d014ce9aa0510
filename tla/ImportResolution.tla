-------------------------- MODULE ImportResolution --------------------------
(***************************************************************************)
(* StaticImportResolver: every import fact of the analysed sources is      *)
(* interpreted against the catalogue's bindings, ownership, namespaces and *)
(* target declarations (BindingIndex), one fact after another, and what it *)
(* means accumulates in the session (_ResolutionSession).  When all facts  *)
(* are interpreted, ArchitectureDependencyPolicy.select drops the package  *)
(* bases that a probable child import makes redundant.                     *)
(*                                                                         *)
(* The five accumulators of the session (dependencies, externals,          *)
(* unresolved imports, boundaries, diagnostics) are two sets here: errors, *)
(* the ERROR diagnostics, and outcomes, whose records carry in "as" the    *)
(* accumulator they belong to.                                             *)
(***************************************************************************)
EXTENDS DottedNames, FiniteSets

CONSTANTS
  Catalogs,  \* what may be resolved: [modules, namespaces, owned, targets, facts]
  Stdlib     \* sys.stdlib_module_names

None == "none"

(***************************************************************************)
(* A module is [id, name, isPackage, parent, status].                      *)
(* A target is [name, kind, directory, shape, acknowledged]; its shape is  *)
(* "none" without a path, "directory" for a path ending in /, "artifact"   *)
(* for .so and .pyd, and "file" for the rest.                              *)
(* A fact is [id, source, from, base, level, imported]: from is FALSE for  *)
(* `import base`; `from base import imported` with level leading dots.     *)
(***************************************************************************)
ASSUME CatalogsAssumption ==
  \A c \in Catalogs :
    /\ IsFiniteSet(c.modules)
    /\ \A m, n \in c.modules : m.id = n.id => m = n
    /\ IsFiniteSet(c.targets)
    /\ \A t \in c.targets : t.kind \in {"native", "generated", "stub", "excluded"}
    /\ \A f, g \in c.facts : f.id = g.id => f = g
    /\ \A f \in c.facts : f.level \in Nat /\ (f.level > 0 => f.from)

VARIABLES
  catalog,   \* the resolver's arguments
  phase,     \* "idle", "resolving", "resolved", "selected"
  pending,   \* the facts not interpreted yet
  outcomes,  \* the session's accumulators
  errors,    \* the session's ERROR diagnostics
  selected   \* the architecture dependencies, after the policy

vars == <<catalog, phase, pending, outcomes, errors, selected>>
-----------------------------------------------------------------------------
(* BindingIndex                                                            *)

NamedBy(n) == {m \in catalog.modules :
                 m.name = n /\ n # NoName /\ m.status \in {"bound", "ambiguous"}}

Names == {n \in {m.name : m \in catalog.modules} : NamedBy(n) # {}}

\* mutant: a second source does not contest a name
ContestedByStatus(n) == \A m \in NamedBy(n) : m.status = "ambiguous"

Contested(n) == Cardinality(NamedBy(n)) # 1 \/ \E m \in NamedBy(n) : m.status = "ambiguous"

\* bound: the names exactly one source claims, and that source
BoundNames == {n \in Names : ~Contested(n)}
BoundTo(n) == CHOOSE m \in NamedBy(n) : TRUE

Natives(n) == {t \in catalog.targets : t.name = n /\ t.kind = "native"}

\* competing implementations: natives in two directories, or a built artifact beside a source
NativeConflicts ==
  {n \in {t.name : t \in catalog.targets} :
     \/ Cardinality({t.directory : t \in {u \in Natives(n) : u.shape # "none"}}) > 1
     \/ n \in BoundNames /\ \E t \in Natives(n) : t.shape = "artifact"}

\* mutant: a built artifact does not contest the source of its name
AmbiguousSources == {n \in Names : Contested(n)}

Ambiguous  == {n \in Names : Contested(n)} \cup NativeConflicts
Owned      == catalog.owned \cup Names
Namespaces == catalog.namespaces \ Names
-----------------------------------------------------------------------------
(* What a requested name means                                             *)

\* mutant: the packages above a name do not count
AmbiguousItself(n) == n \in Ambiguous

AmbiguousName(n) == Lineage(n) \cap Ambiguous # {}

\* the declarations of a name, else the closest excluded directories above it
Declarations(n) ==
  LET exact    == {t \in catalog.targets : t.name = n}
      covering == {t \in catalog.targets :
                     t.kind = "excluded" /\ t.shape = "directory" /\ t.name \in Lineage(n)}
  IN IF exact # {} THEN exact
     ELSE {t \in covering : \A u \in covering : Len(u.name) <= Len(t.name)}

\* a stub or an exclusion beside a native or generated implementation describes it
Strongest(kinds) ==
  IF "native" \in kinds THEN "native"
  ELSE IF "generated" \in kinds THEN "generated"
  ELSE IF "stub" \in kinds THEN "stub"
  ELSE "excluded"

\* mutant: an acknowledgement of any kind accepts the boundary
BoundaryAnyAcknowledged(n) ==
  [name |-> n, kind |-> Strongest({t.kind : t \in Declarations(n)}),
   acknowledged |-> \E t \in Declarations(n) : t.acknowledged]

\* target_for: the boundary a name stands for (its path is one of the declared ones)
Boundary(n) ==
  LET kind == Strongest({t.kind : t \in Declarations(n)})
  IN [name |-> n, kind |-> kind,
      acknowledged |-> \E t \in Declarations(n) : t.kind = kind /\ t.acknowledged]

Dependency(f, n, how) ==
  {[as |-> "dependency", fact |-> f.id, source |-> f.source, target |-> BoundTo(n).id, how |-> how]}

Unresolved(f, n, reason) ==
  {[as |-> "unresolved", fact |-> f.id, source |-> f.source, requested |-> n, how |-> reason]}

\* classify_absent: no source is bound to the name
Absent(f, n) ==
  IF AmbiguousName(n) THEN Unresolved(f, n, "ambiguous_target")
  ELSE IF Declarations(n) # {} THEN
    {[as |-> "boundary", fact |-> f.id, source |-> f.source, boundary |-> Boundary(n)]}
  ELSE IF n \in Namespaces THEN Unresolved(f, n, "namespace_base_unmodelled")
  ELSE IF Lineage(n) \cap Owned # {} THEN Unresolved(f, n, "missing_internal_target")
  ELSE {[as |-> "external", fact |-> f.id, source |-> f.source, requested |-> n,
         how |-> IF Head(n) \in Stdlib THEN "stdlib" ELSE "external_unknown"]}

\* mutant: a name no source is bound to is forgotten
RequestedBound(f, n, how) ==
  IF AmbiguousName(n) THEN Unresolved(f, n, "ambiguous_target")
  ELSE IF n \in BoundNames THEN Dependency(f, n, how) ELSE {}

\* mutant: a declared target hides the source
RequestedDeclaredFirst(f, n, how) ==
  IF AmbiguousName(n) THEN Unresolved(f, n, "ambiguous_target")
  ELSE IF n \in BoundNames /\ Declarations(n) = {} THEN Dependency(f, n, how)
  ELSE Absent(f, n)

\* dependency, and classify_absent when it finds nothing
Requested(f, n, how) ==
  IF AmbiguousName(n) THEN Unresolved(f, n, "ambiguous_target")
  ELSE IF n \in BoundNames THEN Dependency(f, n, how)
  ELSE Absent(f, n)

\* `from base import imported`: imported may be a submodule of base
Child(f, base) ==
  LET n == Append(base, f.imported)
  IN IF f.imported \in {None, "*"} THEN {}
     ELSE IF n \in Names THEN Requested(f, n, "probable_submodule")
     ELSE IF Declarations(n) # {} \/ base \in Namespaces THEN Absent(f, n)
     ELSE {}

\* mutant: an initializer imports from every package as from its own
AnyInitializer(f, base) ==
  base \in BoundNames /\ \E m \in catalog.modules : m.id = f.source /\ m.isPackage

\* mutant: a plain module that imports from itself does not depend on itself either
AnySelf(f, base) == base \in BoundNames /\ BoundTo(base).id = f.source

\* an initializer that imports from its own package does not depend on itself
OwnInitializer(f, base) ==
  base \in BoundNames /\ BoundTo(base).isPackage /\ BoundTo(base).id = f.source

SourceOf(f) == {m \in catalog.modules : m.id = f.source}

PackageContext(f) ==
  {m \in SourceOf(f) : m.status # "path_only" /\ m.name # NoName}

\* mutant: an initializer taken for a plain module
PackageAbove(m) == m.parent

PackageOf(m) == IF m.isPackage THEN m.name ELSE m.parent

\* what a fact adds to the accumulators
FromBase(f, base) ==
  (IF OwnInitializer(f, base) THEN {} ELSE Requested(f, base, "exact_base")) \cup Child(f, base)

ImportErrors(os) ==
  {[code |-> o.how, facts |-> {o.fact}, requested |-> o.requested] :
     o \in {p \in os : p.as = "unresolved"
                         /\ p.how \in {"ambiguous_target", "unknown_package_context"}}}
-----------------------------------------------------------------------------
Init ==
  /\ catalog = [modules |-> {}, namespaces |-> {}, owned |-> {}, targets |-> {}, facts |-> {}]
  /\ phase = "idle"
  /\ pending = {}
  /\ outcomes = {}
  /\ errors = {}
  /\ selected = {}

\* StaticImportResolver.resolve builds the index and a new session
Begin(c) ==
  /\ phase = "idle"
  /\ catalog' = c
  /\ phase' = "resolving"
  /\ pending' = c.facts
  /\ errors' = {[code |-> "ambiguous_target", facts |-> {}, requested |-> n] : n \in NativeConflicts'}
  /\ UNCHANGED <<outcomes, selected>>

Record(f, os) ==
  /\ pending' = pending \ {f}
  /\ outcomes' = outcomes \cup os
  /\ errors' = errors \cup ImportErrors(os)
  /\ UNCHANGED <<catalog, phase, selected>>

ResolveImport(f) == ~f.from /\ Record(f, Requested(f, f.base, "exact_module"))

ResolveAbsoluteFrom(f) == f.from /\ f.level = 0 /\ Record(f, FromBase(f, f.base))

\* a relative import of a source that no package is known for
ResolveWithoutContext(f) ==
  /\ f.level > 0
  /\ PackageContext(f) = {}
  /\ Record(f, Unresolved(f, f.base, "unknown_package_context"))

\* more dots than enclosing packages
ResolveEscape(f) ==
  /\ f.level > 0
  /\ \E m \in PackageContext(f) : ~RelativeFits(f.level, PackageOf(m))
  /\ Record(f, Unresolved(f, f.base, "relative_escape"))

ResolveRelativeFrom(f) ==
  /\ f.level > 0
  /\ \E m \in PackageContext(f) :
       /\ RelativeFits(f.level, PackageOf(m))
       /\ Record(f, FromBase(f, ResolveRelative(f.level, f.base, PackageOf(m))))

ResolveFact ==
  /\ phase = "resolving"
  /\ \E f \in pending :
       \/ ResolveImport(f)
       \/ ResolveAbsoluteFrom(f)
       \/ ResolveWithoutContext(f)
       \/ ResolveEscape(f)
       \/ ResolveRelativeFrom(f)

\* mutant: the session ends with facts pending
FinishEarly ==
  /\ phase = "resolving"
  /\ phase' = "resolved"
  /\ UNCHANGED <<catalog, pending, outcomes, errors, selected>>

Finish ==
  /\ phase = "resolving"
  /\ pending = {}
  /\ phase' = "resolved"
  /\ UNCHANGED <<catalog, pending, outcomes, errors, selected>>

Dependencies == {o \in outcomes : o.as = "dependency"}

\* mutant: the fact is not compared
RedundantForSource(o) ==
  /\ o.how = "exact_base"
  /\ \E p \in Dependencies : p.how = "probable_submodule" /\ p.source = o.source

\* the package base gives way to the child the same fact probably imports
Redundant(o) ==
  /\ o.how = "exact_base"
  /\ \E p \in Dependencies :
       p.how = "probable_submodule" /\ p.fact = o.fact /\ p.source = o.source

\* mutant: nothing is dropped
SelectAll ==
  /\ phase = "resolved"
  /\ phase' = "selected"
  /\ selected' = Dependencies
  /\ UNCHANGED <<catalog, pending, outcomes, errors>>

Select ==
  /\ phase = "resolved"
  /\ phase' = "selected"
  /\ selected' = {o \in Dependencies : ~Redundant(o)}
  /\ UNCHANGED <<catalog, pending, outcomes, errors>>

Next ==
  \/ \E c \in Catalogs : Begin(c)
  \/ ResolveFact
  \/ Finish
  \/ Select

Spec == Init /\ [][Next]_vars
-----------------------------------------------------------------------------
Interpreted == catalog.facts \ pending

Outcomes(f) == {o \in outcomes : o.fact = f.id}

\* Type invariant: phases advance with the facts, and an outcome belongs to a fact and,
\* if it is a dependency, leads to a catalogued source.
TypeOK ==
  /\ phase \in {"idle", "resolving", "resolved", "selected"}
  /\ pending \subseteq catalog.facts
  /\ phase \in {"resolved", "selected"} => pending = {}
  /\ \A o \in outcomes :
       /\ \E f \in Interpreted : o.fact = f.id /\ o.source = f.source
       /\ o.as = "dependency" => \E m \in catalog.modules : m.id = o.target
  /\ selected \subseteq outcomes

\* the source of f is the initializer of the package that f imports from, by its name or its dots
FromOwnPackage(f) ==
  /\ f.from
  /\ \E m \in catalog.modules :
       /\ m.id = f.source /\ m.isPackage /\ m.status = "bound" /\ NamedBy(m.name) = {m}
       /\ \/ f.level = 0 /\ f.base = m.name
          \/ f.level > 0 /\ RelativeFits(f.level, m.name) /\ ResolveRelative(f.level, f.base, m.name) = m.name

\* what f imports from a package is no source and stands for no target
PlainAttribute(f, package) ==
  LET n == Append(package, f.imported)
  IN f.imported \in {None, "*"} \/ (NamedBy(n) = {} /\ Declarations(n) = {})

\* No import vanishes: an interpreted fact is recorded in some accumulator, unless it is a
\* package initializer importing plain attributes from its own package, or the wildcard.
NoFactLost ==
  \A f \in Interpreted :
    Outcomes(f) = {} =>
      /\ FromOwnPackage(f)
      /\ \A m \in catalog.modules : m.id = f.source => PlainAttribute(f, m.name)

\* An import whose name, or a package above it, several sources claim never becomes a
\* dependency, and the analysis cannot be complete.
ContestedNeverResolved ==
  \A m, n \in catalog.modules :
    /\ m # n /\ m.name = n.name /\ m.name # NoName
    /\ {m.status, n.status} \subseteq {"bound", "ambiguous"}
    => /\ \A o \in Dependencies : \A t \in catalog.modules :
            t.id = o.target => m.name \notin Lineage(t.name)
       /\ \A o \in outcomes :
            o.as = "unresolved" /\ o.how = "ambiguous_target" => errors # {}

\* Acknowledging a stub or an exclusion does not accept the native or generated code it
\* stands beside: an accepted boundary has an acknowledged declaration at least as strong
\* as every declaration of that name.
AcceptedBoundaryCoversStrongest ==
  \A o \in outcomes : o.as = "boundary" /\ o.boundary.acknowledged =>
    LET named == {t \in catalog.targets : t.name = o.boundary.name}
        rank  == [native |-> 4, generated |-> 3, stub |-> 2, excluded |-> 1]
    IN named # {} => \E t \in named : t.acknowledged /\ \A u \in named : rank[u.kind] <= rank[t.kind]
=============================================================================
