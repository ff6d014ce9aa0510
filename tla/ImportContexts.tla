--------------------------- MODULE ImportContexts ---------------------------
(***************************************************************************)
(* ImportExtraction composed with PythonRun: first the extractor searches  *)
(* a source, then Python runs the same source.  The views filter imports   *)
(* by the contexts the extractor gave them, so these must not say that an  *)
(* import does not run, or runs only when a function is called, if it does *)
(* otherwise.                                                              *)
(***************************************************************************)
EXTENDS ImportExtraction, PythonRun

vars == <<extractionVars, runVars>>

Init == ExtractionInit /\ RunInit

Extract == Extraction /\ UNCHANGED runVars

Run == phase = "extracted" /\ RunNext /\ UNCHANGED extractionVars

Next == Extract \/ Run

Spec == Init /\ [][Next]_vars
-----------------------------------------------------------------------------
Contexts(k) == {f.context : f \in {g \in facts : g.node = k}}

\* the names tested by the checks for TYPE_CHECKING that an import is guarded by
GuardNames(k) == {tree[tree[m].parent].test.id : m \in {e \in Entered(k, {"if"}, {"body"}) : ChecksTyping(tree[e].parent)}}

\* An import called typing-only does not run: the non-typing views leave nothing out that Python
\* executes.  The exception is a source that assigns typing.TYPE_CHECKING through a name other
\* than those the import is guarded by; docs/release-0.3.1.md does not claim to see through
\* runtime aliasing.
TypingOnlyNeverRuns ==
  \A r \in ran : \A c \in Contexts(r.node) : c.typingOnly => setBy \ GuardNames(r.node) # {}

\* The other contexts mean what they say: an import runs in a call exactly if it is in_function,
\* whenever the call happens, and the module body itself runs only imports that are not; and when
\* a module body has ended, each import in it that is neither conditional nor in a function has run.
ContextsMatchExecution ==
  /\ \A r \in ran : \A c \in Contexts(r.node) : r.called = c.inFunction
  /\ outcome = "ended" =>
       \A f \in facts : f.context.conditional \/ f.context.inFunction \/ \E r \in ran : r.node = f.node
=============================================================================
