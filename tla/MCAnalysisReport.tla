-------------------------- MODULE MCAnalysisReport --------------------------
(***************************************************************************)
(* Small projects: a package p in directory r/p, perhaps a source p.q, an  *)
(* entry point m, targets p.t and p.q found in two roots r and s or        *)
(* excluded there, and up to two configured targets.                       *)
(* Misplaced projects: an entry point in r, sources in directories below   *)
(* r, some of which are selected as roots or declared in the packaging     *)
(* metadata, and one import.                                               *)
(***************************************************************************)
EXTENDS AnalysisReport
LOCAL INSTANCE FiniteSetsExt
LOCAL INSTANCE TLC

Module(name, isPackage, directory) ==
  [id |-> name, name |-> name, isPackage |-> isPackage, directory |-> directory, status |-> "bound",
   parent |-> IF name = NoName THEN NoName ELSE SubSeq(name, 1, Len(name) - 1)]

M == Module(<<"m">>, FALSE, <<"r">>)
P == Module(<<"p">>, TRUE, <<"r", "p">>)
Plain == Module(<<"p">>, FALSE, <<"r">>)
Q == Module(<<"p", "q">>, FALSE, <<"r", "p">>)

ModuleSets == {{M, P}, {M, P, Q}, {M, Plain}}

Target(name, kind, at, rank, shape, acknowledged) ==
  [name |-> name, kind |-> kind, at |-> at, rank |-> rank, shape |-> shape, acknowledged |-> acknowledged,
   directory |-> IF at = <<>> THEN at ELSE SubSeq(at, 1, Len(at) - 1)]

Stub     == Target(<<"p", "t">>, "stub", <<"r", "p", "t.pyi">>, 2, "file", FALSE)
Foreign  == Target(<<"p", "t">>, "stub", <<"s", "p", "t.pyi">>, 5, "file", FALSE)
Native   == Target(<<"p", "t">>, "native", <<"r", "p", "t.pyx">>, 3, "file", FALSE)
Built    == Target(<<"p", "q">>, "native", <<"r", "p", "q.so">>, 1, "artifact", FALSE)
Source   == Target(<<"p", "q">>, "native", <<"r", "p", "q.pyx">>, 4, "file", FALSE)
Link     == Target(<<"p", "t">>, "excluded", <<"r", "p", "t">>, 6, "directory", FALSE)
Excluded == Target(<<"p", "t">>, "excluded", <<"r", "p", "t">>, 6, "directory", TRUE)

Discovered ==
  {{}, {Stub}, {Foreign}, {Stub, Foreign}, {Native, Stub}, {Built}, {Source}, {Link}, {Excluded}, {Excluded, Stub}}

Declared(name, kind, acknowledged) == Target(name, kind, <<>>, 0, "none", acknowledged)

Configurations ==
  {<<>>} \cup {<<Declared(<<"p", "t">>, kind, acknowledged)>> :
                 kind \in {"stub", "native", "generated", "excluded"}, acknowledged \in BOOLEAN}
    \cup {<<Declared(<<"p", "q">>, "native", TRUE), Declared(<<"p", "t">>, "stub", TRUE)>>,
          <<Declared(<<"p", "t">>, "native", FALSE), Declared(<<"p", "t">>, "stub", TRUE)>>}

Fact(id, source, from, base, imported, retained) ==
  [id |-> id, source |-> source, from |-> from, base |-> base, level |-> 0, imported |-> imported, retained |-> retained]

Facts(retained) ==
  {Fact("import p.t", <<"m">>, FALSE, <<"p", "t">>, "none", retained),
   Fact("from p import t", <<"m">>, TRUE, <<"p">>, "t", retained),
   Fact("from p import q", <<"m">>, TRUE, <<"p">>, "q", retained),
   Fact("in m: from m import x", <<"m">>, TRUE, <<"m">>, "x", retained),
   Fact("from p.t.u import x", <<"m">>, TRUE, <<"p", "t", "u">>, "x", retained),
   Fact("import sys", <<"m">>, FALSE, <<"sys">>, "none", retained),
   Fact("in p: from p import t", <<"p">>, TRUE, <<"p">>, "t", retained)}

Conditions ==
  {[catalogErrors |-> {}, malformed |-> FALSE, cyclic |-> FALSE, raises |-> FALSE],
   [catalogErrors |-> {}, malformed |-> FALSE, cyclic |-> TRUE, raises |-> FALSE],
   [catalogErrors |-> {"source_syntax_error"}, malformed |-> FALSE, cyclic |-> FALSE, raises |-> FALSE],
   [catalogErrors |-> {}, malformed |-> TRUE, cyclic |-> FALSE, raises |-> FALSE],
   [catalogErrors |-> {}, malformed |-> FALSE, cyclic |-> FALSE, raises |-> TRUE]}

NoFile == [dirs |-> <<>>, where |-> {}]
NoSettings == [pyproject |-> NoFile, setup |-> NoFile]

SmallProjects ==
  {[modules |-> ms, namespaces |-> (UNION {Ancestors(t.name) : t \in ts}) \ {<<"p">>}, owned |-> {},
    facts |-> {f}, discovered |-> ts, targets |-> cs, roots |-> {<<"r">>, <<"s">>},
    directories |-> {<<"r">>, <<"s">>, <<"r", "p">>}, settings |-> [r \in {<<"r">>, <<"s">>} |-> NoSettings],
    catalogErrors |-> c.catalogErrors, malformed |-> c.malformed, cyclic |-> c.cyclic, raises |-> c.raises] :
     ms \in ModuleSets, ts \in Discovered, cs \in Configurations, c \in Conditions, f \in Facts(TRUE) \cup Facts(FALSE)}
-----------------------------------------------------------------------------
(* Misplaced projects                                                      *)

\* the paths of the sources, without suffix, and whether they are initializers
Files ==
  {[path |-> <<"r", "src", "x">>, isPackage |-> FALSE], [path |-> <<"r", "src", "lib", "x">>, isPackage |-> FALSE],
   [path |-> <<"r", "code", "p", "x">>, isPackage |-> FALSE], [path |-> <<"r", "code", "p">>, isPackage |-> TRUE],
   [path |-> <<"r", "p", "x">>, isPackage |-> FALSE], [path |-> <<"r", "code", "p", "q", "x">>, isPackage |-> FALSE]}

RootSets == {{<<"r">>}, {<<"r">>, <<"r", "src">>}, {<<"r">>, <<"r", "code">>}, {<<"r", "code">>}}

DirectoryOf(file) == IF file.isPackage THEN file.path ELSE Front(file.path)

Owned(file, root) ==
  [Module(SubSeq(file.path, Len(root) + 1, Len(file.path)), file.isPackage, DirectoryOf(file)) EXCEPT !.id = file.path]

Placed(file, roots) ==
  LET above == {r \in roots : IsPrefix(r, DirectoryOf(file))}
  IN {Owned(file, r) : r \in {s \in above : \A t \in above : Len(t) <= Len(s)}}

FileSettings(n) ==
  {[dirs |-> <<>>, where |-> {}], [dirs |-> <<>>, where |-> {<<"code">>}], [dirs |-> n :> <<"code">>, where |-> {}],
   [dirs |-> n :> <<"code", "p">>, where |-> {<<"..">>}], [dirs |-> n :> <<"code", "p", "q">>, where |-> {}],
   [dirs |-> n :> <<"..">>, where |-> {}]}

Settings ==
  {[pyproject |-> p, setup |-> s] :
     p \in FileSettings(<<"p">>),
     s \in {NoFile, [dirs |-> NoName :> <<"code">>, where |-> {}], [dirs |-> <<"p">> :> <<"code">>, where |-> {}]}}
    \cup {[pyproject |-> p, setup |-> NoFile] : p \in FileSettings(<<"p", "q">>)}

Requested == {<<"x">>, <<"p", "x">>, <<"p", "q", "x">>, <<"lib", "x">>}

Entry == [path |-> <<"r", "code", "m">>, isPackage |-> FALSE]

Misplaced(files, roots, settings, x) ==
  [modules |-> UNION {Placed(f, roots) : f \in files \cup {Entry}},
   namespaces |-> {}, owned |-> {}, discovered |-> {}, targets |-> <<>>, roots |-> roots,
   facts |-> {Fact("import", <<"r", "code", "m">>, FALSE, x, "none", TRUE)},
   directories |-> {<<"r", "lib">>} \cup UNION {Lineage(DirectoryOf(f)) : f \in files \cup {Entry}},
   settings |-> [r \in roots |-> IF r = <<"r">> THEN settings ELSE NoSettings],
   catalogErrors |-> {}, malformed |-> FALSE, cyclic |-> FALSE, raises |-> FALSE]

MisplacedProjects ==
  {Misplaced(files, roots, settings, x) :
     files \in kSubset(2, Files), roots \in RootSets, settings \in Settings, x \in Requested}

AllProjects == SmallProjects \cup MisplacedProjects
=============================================================================
