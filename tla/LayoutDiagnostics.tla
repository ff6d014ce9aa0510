------------------------- MODULE LayoutDiagnostics -------------------------
(***************************************************************************)
(* LayoutDiagnosticService.diagnose and the reading of packaging metadata: *)
(* where an import that looks external is packaged below a selected root,  *)
(* that root is probably the wrong one.                                    *)
(*                                                                         *)
(* A directory or a path is a sequence of parts; <<"..">> stands for every *)
(* configured directory that is empty, absolute or leaves the root.        *)
(***************************************************************************)
EXTENDS DottedNames, SequencesExt

(***************************************************************************)
(* The project: its selected roots, the directories that exist, the        *)
(* modules with their names and directories, and for each root the         *)
(* settings that can be read of its pyproject.toml and setup.cfg: the      *)
(* package directories [package name -> directory], where <<>> names the   *)
(* root package, and the directories to find packages in.                  *)
(***************************************************************************)
VARIABLE project
-----------------------------------------------------------------------------
(* read_metadata                                                           *)

RelativeDirectory(d) == \A i \in DOMAIN d : d[i] # ".."

\* those of setup.cfg replace those of pyproject.toml
PackageDirs(r) ==
  LET ini     == project.settings[r].setup.dirs
      toml    == project.settings[r].pyproject.dirs
      dirs(n) == IF n \in DOMAIN ini THEN ini[n] ELSE toml[n]
  IN [n \in {k \in DOMAIN ini \cup DOMAIN toml : RelativeDirectory(dirs(k))} |-> dirs(n)]

\* path.parts[-len(package_parts):] == package_parts
EndsIn(d, n) == Len(n) <= Len(d) /\ SubSeq(d, Len(d) - Len(n) + 1, Len(d)) = n

\* mutant: only the last part of the package name is dropped
DirectoryAbove(r, n) == SubSeq(PackageDirs(r)[n], 1, Len(PackageDirs(r)[n]) - (IF n = <<>> THEN 0 ELSE 1))

\* where the package n would be found from
PackageRoot(r, n) == SubSeq(PackageDirs(r)[n], 1, Len(PackageDirs(r)[n]) - Len(n))

RootCandidates(r) ==
  LET dirs == PackageDirs(r)
      found == {PackageRoot(r, n) : n \in {k \in DOMAIN dirs : EndsIn(dirs[k], k)}}
  IN {c \in found \cup project.settings[r].pyproject.where \cup project.settings[r].setup.where :
        RelativeDirectory(c) /\ c # <<>>}

\* the packages in a directory of another name, which no root can represent
Aliases(r) == {n \in DOMAIN PackageDirs(r) : ~EndsIn(PackageDirs(r)[n], n)}
-----------------------------------------------------------------------------
(* diagnose: one root, given the names of the external imports             *)

Candidates(r) == RootCandidates(r) \cup {<<"src">>, <<"lib">>}

Members(r) == {m \in project.modules : IsPrefix(r, m.directory)}

KnownNames(r) == UNION {Lineage(m.name) : m \in Members(r)}

UnsupportedMappings(r, requested) ==
  {n \in Aliases(r) : /\ \E x \in requested : n \in Lineage(x)
                      /\ \E m \in Members(r) : IsPrefix(r \o PackageDirs(r)[n], m.directory)}

Mismatches(r, requested) ==
  {c \in Candidates(r) : /\ r \o c \notin project.roots /\ r \o c \in project.directories
                         /\ \E x \in requested : c \o x \in KnownNames(r)}

\* without packaging evidence
PossibleRoots(r, requested) ==
  {c \in (UNION {Ancestors(m.name) : m \in Members(r)}) \ Candidates(r) :
     /\ r \o c \notin project.roots
     /\ \E m \in Members(r) : c \in Ancestors(m.name) /\ SubSeq(m.name, Len(c) + 1, Len(m.name)) \in requested}

Diagnosed(severity, code, r, names) ==
  {[severity |-> severity, code |-> code, root |-> r, name |-> n] : n \in names}

Diagnose(requested) ==
  UNION {Diagnosed("error", "unsupported_package_mapping", r, UnsupportedMappings(r, requested))
           \cup Diagnosed("error", "source_root_mismatch", r, Mismatches(r, requested))
           \cup Diagnosed("warning", "possible_source_root", r, PossibleRoots(r, requested)) : r \in project.roots}
=============================================================================
