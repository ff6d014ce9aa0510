---------------------- MODULE ArchitectureDependencies ----------------------
(***************************************************************************)
(* What import resolution promises, without its index, its accumulators    *)
(* and the policy that corrects them: all import statements are judged at  *)
(* once, by the catalogue alone.  A statement supports a dependency on the *)
(* submodule it imports; only if it imports none, on the source of its     *)
(* base.  A name leads to a source if nothing else competes for it or for  *)
(* a package above it.                                                     *)
(*                                                                         *)
(* A catalogue is what it is in ImportResolution.                          *)
(***************************************************************************)
EXTENDS DottedNames

VARIABLES
  catalog,       \* what is resolved
  stage,         \* "idle", "resolving", "selected"
  dependencies   \* the result: [fact, source, target]

NoCatalog == [modules |-> {}, namespaces |-> {}, owned |-> {}, targets |-> {}, facts |-> {}]
-----------------------------------------------------------------------------
\* the sources that claim a name, and the one that has it to itself among sources
Claimants(n) ==
  {m \in catalog.modules : m.name = n /\ n # NoName /\ m.status \in {"bound", "ambiguous"}}

Has(m, n) == Claimants(n) = {m} /\ m.status = "bound"

\* implementations of a name that are no sources: natives in different places, or a built
\* one beside the source
Competing(n) ==
  LET natives == {t \in catalog.targets : t.name = n /\ t.kind = "native"}
  IN \/ \E t, u \in natives : t.shape # "none" /\ u.shape # "none" /\ t.directory # u.directory
     \/ (\E m \in catalog.modules : Has(m, n)) /\ \E t \in natives : t.shape = "artifact"

Doubtful(n) ==
  \/ Claimants(n) # {} /\ ~\E m \in catalog.modules : Has(m, n)
  \/ Competing(n)

Leads(n, m) == Has(m, n) /\ \A a \in Lineage(n) : ~Doubtful(a)
-----------------------------------------------------------------------------
Home(m) == IF m.isPackage THEN m.name ELSE m.parent

\* the name a statement means by its base, if any
Bases(f) ==
  IF f.level = 0 THEN {f.base}
  ELSE {ResolveRelative(f.level, f.base, Home(m)) :
          m \in {x \in catalog.modules : /\ x.id = f.source /\ x.status # "path_only" /\ x.name # NoName
                                         /\ RelativeFits(f.level, Home(x))}}

\* `from base import imported` reaches the submodule m
Submodule(f, m) ==
  /\ f.from /\ f.imported \notin {"none", "*"}
  /\ \E b \in Bases(f) : Leads(Append(b, f.imported), m)

\* the base itself is m, and not the initializer that says `from . import`
Base(f, m) ==
  /\ \E b \in Bases(f) : Leads(b, m)
  /\ ~(f.from /\ m.isPackage /\ m.id = f.source)

Supports(f, m) ==
  \/ Submodule(f, m)
  \/ Base(f, m) /\ ~\E x \in catalog.modules : Submodule(f, x)
-----------------------------------------------------------------------------
Init ==
  /\ catalog = NoCatalog
  /\ stage = "idle"
  /\ dependencies = {}

\* any catalogue may come
Begin ==
  /\ stage = "idle" /\ stage' = "resolving"
  /\ UNCHANGED dependencies

Judge ==
  /\ stage = "resolving" /\ stage' = "selected"
  /\ dependencies' = {[fact |-> p[1].id, source |-> p[1].source, target |-> p[2].id] :
                        p \in {q \in catalog.facts \X catalog.modules : Supports(q[1], q[2])}}
  /\ UNCHANGED catalog

Next == Begin \/ Judge

Spec == Init /\ [][Next]_<<catalog, stage, dependencies>>
=============================================================================
