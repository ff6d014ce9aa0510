---------------------------- MODULE DottedNames ----------------------------
(***************************************************************************)
(* Dotted import names and slash-separated directories are both sequences  *)
(* of identifiers; <<>> stands for "no name" (None or "").                 *)
(***************************************************************************)
EXTENDS Naturals, Sequences

NoName == <<>>

\* a name and the packages it lies in
Lineage(n) == {SubSeq(n, 1, k) : k \in 1 .. Len(n)}

\* the packages a name lies in
Ancestors(n) == {SubSeq(n, 1, k) : k \in 1 .. Len(n) - 1}

\* importlib.util.resolve_name finds enough enclosing packages
RelativeFits(level, package) == level \in 1 .. Len(package)

\* importlib.util.resolve_name("." * level + base, package)
ResolveRelative(level, base, package) ==
  SubSeq(package, 1, Len(package) - (level - 1)) \o base
=============================================================================
