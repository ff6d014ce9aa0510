---------------------------- MODULE PythonFinder ----------------------------
(***************************************************************************)
(* What Python's path-based finder (importlib) loads for a dotted name when *)
(* directories are placed on sys.path: the meaning of an import root that   *)
(* the program's bindings promise to agree with.  A file is [at, init] as   *)
(* in SourceBindings; natives are kept apart because an extension module    *)
(* comes before a source file of the same name in one directory.            *)
(***************************************************************************)
EXTENDS DottedNames, SequencesExt

CONSTANTS
  files,  \* the importable files
  dirs    \* the directories placed on sys.path, in some order

\* A search path holds directories at numbered places.  Searching one passes over the places
\* that have nothing to offer, without renumbering the others.
Nothing == [loads |-> {}, path |-> <<>>]

Holder(f) == IF f.init THEN f.at ELSE Front(f.at)

IsDirectory(d) == \E f \in files : IsPrefix(d, Holder(f))

Package(d) == [at |-> d, init |-> TRUE]
Plain(d)   == [at |-> d, init |-> FALSE]

Importable(d) == Package(d) \in files \/ Plain(d) \in files

(***************************************************************************)
(* One step: identifier i looked up in the directories of path.  The first *)
(* directory with a regular package i/ or a module i wins; without any,    *)
(* the subdirectories i/ together are a namespace package.                 *)
(***************************************************************************)
Search(path, i) ==
  LET At(k)    == Append(path[k], i)
      hits     == {k \in DOMAIN path : Importable(At(k))}
      portions == {k \in DOMAIN path : IsDirectory(At(k))}
      first    == CHOOSE k \in hits : \A l \in hits : k <= l
  IN IF hits = {} THEN
       [loads |-> {}, path |-> [k \in portions |-> At(k)]]
     ELSE IF Package(At(first)) \in files THEN
       [loads |-> {Package(At(first))}, path |-> [k \in {first} |-> At(k)]]
     ELSE [loads |-> {Plain(At(first))}, path |-> <<>>]

Finds(sysPath, name) ==
  LET found[k \in 0 .. Len(name)] ==
        IF k = 0 THEN [Nothing EXCEPT !.path = sysPath] ELSE Search(found[k - 1].path, name[k])
  IN found[Len(name)]

\* every order of the directories
SysPaths ==
  {s \in [DOMAIN dirs -> Range(dirs)] : \A d \in Range(dirs) : \E k \in DOMAIN dirs : s[k] = d}
=============================================================================
