# A verification model of pyarchgraph

pyarchgraph reads the Python sources below a few import roots, without running
them, and reports the import dependencies between them: source and package
graphs, cycles, unresolved imports, and how far the report can be trusted. Its
exit code is meant for CI: 0 nothing found, 1 findings, 2 the analysis is
incomplete or failed.

The promise worth verifying is that the report does not lie. A dependency should
be one Python would follow, no import and no file should vanish, every cycle
should be found and shown by a real one, and an incomplete analysis should never
look complete. The modules below translate the code that makes these promises,
TLC checks them on small instances, and TLAPS proves every invariant that the
runs check for instances of any size.

## Inventory

| Component | State | Operations | Talks to |
| --- | --- | --- | --- |
| Discovery (`filesystem/discovery.py`) | found files, targets, diagnostics of one walk | walk, inspect, name, settle conflicts in a root | file system; called per root by the catalogue |
| Import extraction (`python_ast.py`) | facts and diagnostics of one root | check, open, decode, parse, extract | file system; called after discovery |
| Catalogue (`application/catalog.py`, `domain/bindings.py`, `domain/canonicalization.py`) | modules, drafts, targets, namespaces | per root: discover and collect; then reconcile, give identities | discovery, extraction |
| Resolution (`domain/resolution.py`) | index; accumulators of a session | interpret each fact; select dependencies | the catalogue |
| Targets and coverage (`domain/targets.py`, `domain/coverage.py`) | none | reconcile declarations, diagnose layout, decide completeness | options, discovery, resolution |
| Views and checks (`domain/strategies.py`, `domain/validation.py`, `application/strategies.py`, `main.py`) | the registry; the reports so far | register; transform, validate, analyse cycles, check, validate findings | snapshot; extensions call back |
| Cycle analysis (`domain/strategies.py`, `networkx_graph.py`) | components, search path, findings | components, certainty, witness | networkx |
| Layout diagnostics (`application/scope.py`, `filesystem/project.py`) | none | compare packaging metadata with the roots | metadata files |
| Options, requests, rendering, command line | none | validate, render, choose the exit code | all |

The program is one thread, and data flows in one direction: roots, files and
facts, catalogue, resolution, snapshot, views, report. What makes it hard:

* **The file system is shared.** Walk, `stat` and `open` are separate calls.
* **One result depends on many partial ones.** Roots, facts, declarations and
  views are visited in sorted order, and the result must not depend on it.
* **The same import has two readings.** `from p import q` may mean the package,
  the submodule, or both; one reading is later dropped, and grouping brings it back.
* **Several sources of truth about one name:** sources, stubs, native files,
  exclusions, configuration, all from several roots.
* **Imports run or do not run depending on where they stand,** and the contexts
  that views filter by are judged from the text: a name bound to `TYPE_CHECKING`
  can be rebound in another scope, later, or by a wildcard.
* **A wrong root makes internal imports look external.** The diagnostics that say
  so combine names, directories and packaging metadata.
* **Extensions** may return anything or raise, and registries may replace built-ins.

There are no threads, no network and nothing persisted, so data races, message
loss and crash recovery do not arise. `PROJECT.json` lists the hazards at their
lines with the properties that would show them going wrong.

## Modules

```
DottedNames ─┬─ SourceBindings ───┐
             │        │           ├── ProjectResolution
             ├─ PythonFinder ─────┤
             ├─ ImportResolution ─┴─┬── ResolutionRefinement
             │                      │            │ implements
             ├─ ArchitectureDependencies ────────┘
             ├─ LayoutDiagnostics ──┴── AnalysisReport
             └─ ViewEvaluation
SyntaxTree ──┬─ ImportExtraction ─┬── ImportContexts
             └─ PythonRun ────────┘
Reachability ┬─ CycleAnalysis
             └─ ViewEvaluation
SourceCollection      FactIdentities
```

Each `MCX.tla` holds the values TLC checks `X` on; `X_proof.tla` holds the
theorems about it, `CommonLemmas` the lemmas that several of them share. Two
modules have their theorems elsewhere: `SourceBindings` in
`ProjectResolution_proof`, because `ProjectResolution` extends it and builds on them,
and `FactIdentities` in `SourceCollection_proof`, whose sources the facts come from.

| Module | Code | State and steps |
| --- | --- | --- |
| `SourceBindings` | discovery's conflicts, `BindingReconciler`, `SourceCatalogBuilder.build` | the catalogue being assembled; `DiscoverRoot` per root, then `Reconcile` |
| `PythonFinder` | external: what Python's path-based finder loads | operators only |
| `ImportResolution` | `BindingIndex`, `_ResolutionSession`, `ArchitectureDependencyPolicy` | facts pending, outcomes, errors; one disjunct of `ResolveFact` per branch of `resolve`, then `Finish` and `Select` |
| `ArchitectureDependencies` | what resolution and the policy promise together | an abstract specification: the catalogue, then in one step the dependencies of all statements |
| `ResolutionRefinement` | the same code | no state of its own: how `ImportResolution` looks from outside |
| `ProjectResolution` | the two as `AnalyseProject.analyse` calls them | the steps of `SourceBindings`, then those of an instance of `ImportResolution` that starts from the catalogue |
| `SourceCollection` | `_DiscoverySession.scan`, `SourceReader.read`, `AstImportFactSource.collect` | one step per system call; `Change` is another process |
| `SyntaxTree` | external: what `ast.parse` returns | a tree as a sequence of nodes that know their parent, with the paths in it |
| `ImportExtraction` | `ModuleImportExtractor`: `_typing_aliases`, `_imports_with_context` | the worklist of nodes and contexts; one step per node visited |
| `PythonRun` | external: what Python may do with the same source | the running bodies and the values of names; `Step`s through statements, `Call`s of functions |
| `ImportContexts` | the extractor, then Python, on one source | the steps of both, in order |
| `Reachability` | pure | where the edges of a graph lead, defined by closed sets of nodes |
| `CycleAnalysis` | `CycleAnalyzer.analyze`, `networkx.find_cycle` | the component searched, the active path, the edges followed |
| `ViewEvaluation` | `StrategyRegistry`, `StrategyEngine.evaluate`, the six view strategies, graph and finding validation, both checks | `Register`, then one step each for transform, validation, each check and the report of a view |
| `FactIdentities` | `FactCanonicalizer` | the neighbour comparison, pair by pair |
| `LayoutDiagnostics` | `read_metadata`, `LayoutDiagnosticService.diagnose` | operators on a project |
| `AnalysisReport` | option and target validation, `TargetReconciler`, `LayoutDiagnostics`, `CoveragePolicy`, exit code, around an instance of `ImportResolution` | from the options to the exit code |

Conventions. A dotted name or a path is a sequence of identifiers and `<<>>` is no
name; nothing is put together from characters. Where the code sorts, the order
is kept only if it can show in the result (roots, components, successors in the
witness search, views, digests); the facts of a resolution and the nodes of the
worklist are taken in any order, which includes the code's, so their properties
hold for every order. Wording and locations are left out, except the location
by which findings point to imports. `PROJECT.json` gives the lines of the code
behind every definition.

`SourceBindings` leaves out file names with dots or other text that no import
name can carry: they bind nothing. In `ImportResolution` an outcome keeps its
fact and what it was resolved to; the result's grouping by endpoints is a matter
of layout.

`ImportContexts` compares two readings of one tree. The extractor's contexts are
translated from the code. `PythonRun` is the yardstick: it runs the body once,
statement by statement, and calls any function defined at any time, and leaves
open whatever the tree does not tell (tests that are no plain names, untaken
paths, exceptions, what a wildcard binds). It has the name lookup of Python:
function scopes see the enclosing functions and the module, class scopes are
skipped, `TYPE_CHECKING` is false and is true only if the program makes it so.

In `ViewEvaluation` an extension is a nondeterministic choice among graphs,
findings and failures; a registry lists views and checks, each with what it is
based on, and the one the program ships is `DefaultRegistry`. Every package view has
a depth of its own, which the run's `package_max_depth` overrides if it is given
(`MaxDepth`). A finding of an
extension names its evidence by any combination of location, identity, source,
target and reason, as the code allows. Identities are sequences whose first
element says whether a source or a package is meant, as the prefixes `source:`
and `package:` do.

`AnalysisReport` takes from outside only what other modules treat: the errors of
building the catalogue, whether the gate's view has a cycle, whether an extension
raises, and one flag for the options whose validation does nothing but end the
run. Targets, their validation and reconciliation, the imports' meaning, the
layout of targets and the layout of roots are computed.

## Runs

| Run | Shows | Instance, and why it is enough |
| --- | --- | --- |
| `SourceBindings` | every file is one module; one pass of reconciliation is enough; a bound name leads Python to that file under **every** order of the roots; no order-dependent name goes unreported; but for names that cross a nested root, see below | Three roots, one nested in another but outside its packages; every subset of thirteen files: packages, modules, subpackages and fragments of the same names, so that each conflict rule meets each other one. Names of length three suffice: the rules look at a name and one prefix. |
| `SourceBindings_merged_roots` | *violated*, see below | A root nested inside a package directory. |
| `ImportResolution` | no import is lost, except that an initializer need not depend on its own package for a plain attribute of it; contested names are refused; acknowledgements are not borrowed; interpreting facts one by one in any order, then dropping bases, gives what judging all at once gives (`ImplementsAtOnce`) | Catalogues around a package and a submodule with no, one or two claimants; no, one or two declarations of a name; two facts of eleven syntactic situations. Two facts are what the policy can confuse. |
| `ProjectResolution` | the edges say what Python would import, and miss no source that a statement asks for, unless an error is reported; names that cross a nested root, dependencies below an extension module, and the packages above an asked name, which Python loads on the way, excepted | Two roots that may split a package and a third nested in the first; every subset of seven files, beside one stub or extension module; an extension module or package above sources; a file the nested root and another share; eleven statements, one at a time: an outcome depends on its own statement and the catalogue only. |
| `ProjectResolution_native` | `DependenciesAreImported` *violated*, see below | An extension module above a source. |
| `CycleAnalysis` | cycles found exactly, with the right certainty and an honest witness; the search ends and never gives up | All graphs of three nodes, each edge absent, possible or definite (3^9). Three nodes give two-node cycles with an entry path, nested and overlapping cycles and self-loops; the proofs take over for larger graphs. |
| `SourceCollection` | no file that holds still is missed, no listed file goes unreported, no partial facts; the analysis ends or waits in `open` | Six files in four directories with every kind of omission; `MaxChanges = 2` lets any two files or directories change at any point and as often as they like, so that one can change before and after any check, or change back. |
| `ImportContexts` | an import called typing-only does not run; imports run in a call exactly if they are called so; an unconditional one runs; every item becomes one fact that says where it stands | Two families of sources: every prelude that imports `typing` or `TYPE_CHECKING`, with every disturbance of the name inside a definition or block and after it, before a guard of every form; and every nesting of three compound statements around an import. `MaxCalls = 2` lets one call change a name and the next see it. |
| `ViewEvaluation` | package dependencies are the quotient of the source dependencies; no cycle between packages and no certainty is lost in grouping; a view of fewer imports finds no cycle that a view of more, grouped to the same depth, misses or doubts; only extensions fail; findings speak of the view they are in | Three of ten imports in any context through the six views of `DefaultRegistry`, with and without a maximum depth: three imports make the smallest package cycle that is no source cycle with a further edge. Then package views with different depths of their own, kept or overridden; a registry with an extension view and check that return anything or raise; and eleven registries that bend or repeat built-in names. |
| `FactIdentities` | identities differ, none begins another; neighbours suffice | All digests of four binary digits, none to four drafts, minimum length two: neighbours differ in every position. |
| `AnalysisReport` | 0 and 1 can be trusted; boundaries are accepted on purpose only; unused acknowledgements show; sources are not hidden; accepted targets fit the layout; a root selected too high, packaged as the metadata says, is reported | One import of seven, ten sets of discovered and eleven of configured targets, five conditions of the other parts; and any two of six misplaced files under four selections of roots with every combination of the metadata forms, `setup.cfg` overriding `pyproject.toml` included. Two files make a package below a mapped directory; the diagnostics look at one import at a time. |
| `AnalysisReport_nested_roots` | *violated*, see below | The same, with the roots `r` and `r/src`. |

Deadlock is not checked in these runs because each of these computations stops
when it is done. The mutants in `PROJECT.json` replace a definition by a
plausible mistake (operators marked `mutant` in the modules); each property is
violated by one.

### Liveness and fairness

`CycleAnalysis` assumes weak fairness of its whole next-state relation, and
`SourceCollection` of the analysis's own steps: the code is a sequential
computation that takes its next step when it has one. Nothing is assumed of the
environment: files may change or not. `Terminates` and `EndsOrHangs` follow from
that; a FIFO's `open` is the one place where the analysis may wait.

### Findings

* **A nested root inside a package** (`SourceBindings_merged_roots`).
  `bindings.py:36` asks whether a source lies in the package's directory. A root
  nested in that directory passes, so with `p/__init__.py` and the root `p/v`
  holding `p/q.py`, `p.q` stays bound, although Python finds the package `p` first
  and searches only its own directory. The comment below that line says that
  packages do not merge another root's fragments.
* **An extension module above a source** (`ProjectResolution_native`). A native
  artifact contests the name it shares with a source (`resolution.py:87`), not the
  names below its own. With `p.so` beside `p/q.py`, `import p.q` is a dependency
  and no error is reported; Python loads the extension and cannot import from it.
  `DependenciesFollowPython` excepts these names.
* **A missing root that is none** (`AnalysisReport_nested_roots`). `scope.py:72`
  corroborates a candidate root with the names of all modules below the selected
  root, those of a nested selected root included, which have other names. With
  the roots `.` and `src`, `src/lib/x.py`, an empty directory `lib` and an external
  `import x`, the analysis ends in an error that asks to select `lib`. (The mix-up
  also works the other way: with the roots `.` and `src/inner` a root may be
  missed. Nothing in the repository promises to find every one, so that is not
  reported as a finding.)
* **A name with two files.** With the roots `r` and `r/v` and a third, `s`, the
  file `r/v/q.py` is catalogued as `q` of the inner root, but Python also finds it
  as `v.q` of the outer one. Beside `s/v/q.py`, catalogued as `v.q`, the order of
  `r` and `s` decides which of the two `import v.q` loads, and no error says so,
  while `README.md` promises that "Root order has no precedence". The proof of
  `OrderConflictIsReported` led there. Nested roots are legal but not recommended,
  so the properties state the exception (`CrossesRoot`).
* **A flag set through another name.** `import typing as a, typing as b`,
  `a.TYPE_CHECKING = True`, `if b.TYPE_CHECKING:` runs an import the extractor
  calls typing-only. `docs/release-0.3.1.md` names runtime aliasing as a limit, so
  `TypingOnlyNeverRuns` states the exception: a flag set through a name other than
  those the import's own guards use.
* The comment at `python_ast.py:55` promises never to open a FIFO. The model
  shows the wait (`hanging`): a file can become a FIFO between `stat` and `open`.
  `docs/release-0.3.1.md` concedes that race, so it is a part of `EndsOrHangs` here.

## Proofs

TLAPS proves 47 theorems for all values of the constants; every invariant that a
passing run checks is one of them, and so is the refinement. The assumptions are named in the modules and TLC
evaluates them in every run:

* roots are distinct paths; a disk holds finitely many files, and a file, like a
  configured or discovered target, has a path below the top or is an initializer;
* the names in an import statement are sequences of identifiers, and only `from`
  has leading dots and imports items;
* the drafts of an analysis are finitely many, and their digests have one length,
  which is not below the minimum;
* modules and targets are finite in number, modules with distinct identities,
  targets of the four kinds;
* nodes are a finite set of numbers; definite dependencies are dependencies;
* directories form a tree;
* the nodes of a syntax tree are of the kinds `ast` has for what matters here, come
  after their parents, and statements stand in a body, or a branch of `if`,
  `match` or a block;
* the facts of a snapshot are distinct, its evidence belongs to them, its
  unresolved imports differ in source, name or reason; registries are sequences;
* the modules, targets, facts and settings of a project are as the earlier parts
  make them: a source is named after its path below its innermost root, its
  directories exist, and its name or one above it is taken.

The theorems, module by module, with the invariant that carries them:

* `ProjectResolution_proof`, first of the bindings. `TypeOK`, `BindingsCompatible`,
  `EveryFileIsOneModule`, `BoundIsWhatPythonFinds`, `OrderConflictIsReported`. The
  invariant says exactly what is catalogued: the union of what the visited roots
  contribute, each file settled in the innermost root above it (`Settled`), and after
  the last step the marked catalogue with each conflict among the errors
  (`CatalogueInv`). From it, `MarkingSuffices`: marking the conflicts of the *unmarked*
  catalogue leaves none, because a source that stays bound was bound before, so any
  conflict between two such sources was seen. The two properties about Python follow
  its lookup position by position: at each package of a bound name it can only find
  that name's own root (`OnTheWay`, `BoundIsFound`), and where nothing is in conflict
  the order of the roots makes no difference to what comes next
  (`OrderMakesNoDifference`).

  Then of catalogue and resolution together, `DependenciesFollowPython` and
  `RequestedSourcesAreDependencies`, which asks for the base and the child of a
  statement: `docs/release-0.3.1.md` leaves the execution of the initializers above
  them outside the policy. The invariant (`ProjectInv`) joins that of the
  catalogue to one of the session (`SessionInv`): the session's catalogue is the one
  that was built, every fact is pending or has the outcomes its names call for, and
  what is selected has outcomes. What a name means to the resolver then has to be
  compared with what Python finds on a path where extension modules count too. An
  extension beside a source is a conflict the resolver sees (`ExtensionDeclared`,
  `ExtensionConflicts`), so a dependency's target has none; if no package above it has
  one either, Python's search is the search among sources (`SourcesAlone`), and that
  one ends at the bound source. For the other direction, without errors nothing is
  marked, so every file Python can load under a name that crosses no root is bound to
  that name (`WhatIsLoaded`), the name is contested by nothing, and the resolver gives
  the statement that source.
* `ImportResolution_proof`. `TypeOK`, `NoFactLost`, `ContestedNeverResolved` and
  `AcceptedBoundaryCoversStrongest`. The inductive invariant says that the outcomes
  of each interpreted fact are what its names mean on the catalogue (`Means`), and
  what the policy has kept. The one kind of fact that means nothing is an
  initializer's import, from its own package, of the wildcard or of a name that is
  neither a source nor a declared target (`ChildlessIsPlain`).

  Then the refinement, `ImplementsAtOnce`. The abstract specification knows neither
  the index nor the certainty of a resolution: a name leads to a source if the source
  has it to itself and nothing competes for the name or a package above it, and a
  statement supports its submodule, or else its base. `NamesAgree` and
  `CompetingConflicts` show that the index contests the same names, `MeaningLeads`
  that a fact's outcomes are its statement's submodule and base. The policy drops
  bases from the whole result; that this is the choice of each statement for itself
  (`SelectionIsSupport`) needs that facts have distinct identities, because the policy
  tells them apart by source and identity only. All steps but the policy's are stutters of the
  abstract specification. Two consequences are theorems of their own: a fact that
  supported a dependency still supports one (`SupportSurvives`), and only one
  (`OneEdgePerFact`).
* `CycleAnalysis_proof`. All five invariants. `WitnessInv` makes the path simple
  and followed edge by edge, from which `WitnessIsCycle` and the witness half of
  `CertaintyIsWitnessed` follow when the search closes. `ReportInv` says that the
  components still to come and those reported are together all that have a cycle,
  for `EveryCycleReported`. `TrailInv` is why the search cannot come back
  empty-handed (`SearchFindsCycle`): it has followed no edge to its start, and all
  edges of every node it has left, so when it is about to leave the start, what the
  start leads to is a closed set without the start, which lies on a cycle.
* `SourceCollection_proof`. `TypeOK`, `AnalyzedMeansRead`,
  `ListedIsReadOrReported` and `CompleteScanReadsEverything`, under every number of
  changes. The last needs an invariant of a walk that is under way while the tree
  changes: a source that has held still, below directories that have, is listed,
  or reported, or some directory above it is still to be walked. `Above` is the
  least set that contains a file and the parents of its members, so the walk's
  progress needs no induction over depth.
  The module goes on with the identities of the facts those sources hold,
  `IdsDiffer` and `NeighboursSuffice`. The invariant (`IdsInv`) says that once sorted
  every digest is as long as the pairs passed so far ask. Of three digests in order the
  outer two share no more digits than either shares with the middle one
  (`NeighboursShareMost`). Sortedness is stated of all pairs of positions, so that one
  step with the neighbour as the middle one reaches every other digest.
* `ImportContexts_proof`. `FactsSayWhereImportsStand`, for every tree and every
  order of the worklist. Two conditions carry each other: every pending context
  describes the path from the root to its node (`Says`), and every import is found
  or has a pending node on that path (`Reached`). For the second, the child to
  continue with is the least node of the path below the one visited. Then
  `TypingOnlyNeverRuns` and `ContextsMatchExecution`, from an invariant of the
  interpreter (`RunInv`): every body under way leads only to imports that are called
  as they stand, or that are guarded while nobody has set the flag; a name that
  the extractor takes for `typing` or `TYPE_CHECKING` is unbound, or has that value,
  until somebody sets it; the module's body has executed every unconditional statement up
  to the current one; hence what ran was not guarded, or the flag was set.
* `ViewEvaluation_proof`. `OnlyExtensionsFail`: the validation accepts every graph a
  built-in view makes from an accepted snapshot, and every finding a built-in
  check makes on any accepted graph, extensions' graphs included.
  `PackagePairsAreQuotient`, `CertaintySurvivesGrouping` and
  `CyclesSurviveGrouping` follow from one invariant (`ViewInv`), that a built-in
  report is what its registration says whatever ran before it, by reasoning on the
  graphs alone: a path of sources becomes a path of packages wherever it leaves
  one. `FilteringFindsNothingNew` adds that a graph of more imports has every edge
  with all its evidence (`Widens`), restored bases included, so what reaches what in
  the narrower graph does so in the wider one. It compares package views of one depth:
  a registry may give them different ones, and a coarser view may then find a cycle
  that a finer one keeps apart. `FindingsMatchView` has an invariant of its own, `FindingsInv`: all findings
  so far are valid, and those of the built-in checks that have run are complete.
* `AnalysisReport_proof`. `ExitCodesCanBeTrusted`, `AcceptedOnPurpose`,
  `AcknowledgementsAccountedFor`, `SourcesAreNotSuppressed`, `AcceptedTargetsFit` and
  `MissedRootsAreReported`. The invariant carries the meaning of what was recorded
  first to the end: a boundary is what its declarations say and an external name
  lies below nothing owned (`Honest`), an absolute import has the outcomes its names
  call for (`Interpreted`), an error of any part is among the diagnostics
  (`Gathered`), and an exit code of 0 or 1 comes from a complete report. A complete
  report has no errors, which turns each part's error into a fact: no name is
  ambiguous, so a source's name leads to that source; no layout error, so accepted
  targets fit; no mismatch and no renamed package, so where packaging would find a
  source for an external name, no candidate root is left to find it from but the
  selected one, below which the source has that very name and owns it.

Induction over data is beyond the prover, and `CommonLemmas` holds what takes its
place. A nonempty set of numbers has a least member, from the library's
well-foundedness of finite sets; so "the first place where" replaces an induction
over positions. And `Reachability` defines where edges lead by closed sets (`b` is
reached from `a` if every set that contains the successors of `a` and is closed
under the edges contains `b`), so a fact about all paths is proved by naming one
closed set. TLC evaluates the same definition in the runs.

Only model-checked: liveness (`Terminates`, `EndsOrHangs`), which rests on fairness
and is out of the prover's reach.

## Not modelled

* The renderer, the domain's records, the benchmarks and CI scripts: formatting
  and data without behaviour, or no part of the analysis.
* The command line's parser, the syntax of TOML and INI files, and the
  validation of every option other than the targets. An invalid option ends the
  run; `AnalysisReport` has a flag for that.
* `SnapshotNormalizer` and the checks on the Python types of what extensions
  return: they reject what a typed language could not express.
* The message, severity and witness text of findings; line and column
  conversions; symbolic links between the directories layout diagnostics looks at.
* Crashes: nothing is written, so a run that dies leaves nothing behind.

## Plan

Done: bindings, resolution and their composition against Python; cycle analysis;
collection under a changing file system; views, registries and extensions; fact
identities; import contexts against an interpreter; layout diagnostics; the report
and its exit code; a theorem for every invariant of these; resolution as a
refinement of an analysis that judges every statement at once. Left: symbolic links
between packaging directories, and the options other than the targets.
