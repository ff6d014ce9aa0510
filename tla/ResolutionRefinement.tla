------------------------ MODULE ResolutionRefinement ------------------------
(***************************************************************************)
(* Import resolution and its abstract specification.  Until the policy has *)
(* selected, the outside sees no dependency; then it sees what the         *)
(* selected outcomes say, whatever order the facts were interpreted in.    *)
(***************************************************************************)
EXTENDS ImportResolution

AtOnce == INSTANCE ArchitectureDependencies WITH
  stage        <- IF phase = "resolved" THEN "resolving" ELSE phase,
  dependencies <- {[fact |-> o.fact, source |-> o.source, target |-> o.target] : o \in selected}

\* "Prefer each fact's probable child over its redundant exact package base.  This is a
\* fact-level selection": going through the facts one by one, accumulating what each means
\* and dropping bases at the end comes to judging every statement by itself.
ImplementsAtOnce == AtOnce!Spec
=============================================================================
