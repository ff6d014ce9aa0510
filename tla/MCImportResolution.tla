------------------------- MODULE MCImportResolution -------------------------
(***************************************************************************)
(* Catalogues around one package p with a submodule p.q that one source,   *)
(* two sources or no source claims, an entry point m and a path-only       *)
(* source, under up to two target declarations.                            *)
(***************************************************************************)
EXTENDS ResolutionRefinement

Module(id, name, isPackage, parent, status) ==
  [id |-> id, name |-> name, isPackage |-> isPackage, parent |-> parent, status |-> status]

P(status) == Module("p", <<"p">>, TRUE, NoName, status)
Q(status) == Module("q", <<"p", "q">>, FALSE, <<"p">>, status)
R(status) == Module("r", <<"p", "q">>, FALSE, <<"p">>, status)

Others == {Module("m", <<"m">>, FALSE, NoName, "bound"), Module("o", NoName, FALSE, NoName, "path_only")}

ModuleSets ==
  {Others \cup ps \cup qs :
     ps \in {{}, {P("bound")}},
     qs \in {{}, {Q("bound")}, {Q("bound"), R("ambiguous")}, {Q("ambiguous"), R("ambiguous")}}}

Target(name, kind, directory, shape, acknowledged) ==
  [name |-> name, kind |-> kind, directory |-> directory, shape |-> shape, acknowledged |-> acknowledged]

Targets ==
  {Target(<<"p", "q">>, "native", "d", "artifact", FALSE),
   Target(<<"p", "q">>, "native", "e", "file", TRUE),
   Target(<<"p", "t">>, "native", "d", "file", FALSE),
   Target(<<"p", "t">>, "generated", "none", "none", TRUE),
   Target(<<"p", "t">>, "stub", "d", "file", TRUE),
   Target(<<"p">>, "excluded", "d", "directory", TRUE),
   Target(<<"p">>, "native", "d", "artifact", TRUE),
   Target(<<"p", "t">>, "excluded", "e", "directory", FALSE)}

\* no target, or one or two of one name
TargetSets ==
  {{}} \cup UNION {{{t, u} : u \in {v \in Targets : v.name = t.name}} : t \in Targets}

Fact(id, source, from, base, level, imported) ==
  [id |-> id, source |-> source, from |-> from, base |-> base, level |-> level, imported |-> imported]

Facts ==
  {Fact("import p.q", "m", FALSE, <<"p", "q">>, 0, None),
   Fact("from p import q", "m", TRUE, <<"p">>, 0, "q"),
   Fact("from p import t", "m", TRUE, <<"p">>, 0, "t"),
   Fact("from p.t.u import *", "m", TRUE, <<"p", "t", "u">>, 0, "*"),
   Fact("import sys", "m", FALSE, <<"sys">>, 0, None),
   Fact("in p: from . import q", "p", TRUE, NoName, 1, "q"),
   Fact("in p: from p import x", "p", TRUE, <<"p">>, 0, "x"),
   Fact("in p: from m import x", "p", TRUE, <<"m">>, 0, "x"),
   Fact("in q: from .. import x", "q", TRUE, NoName, 2, "x"),
   Fact("in q: from .t import x", "q", TRUE, <<"t">>, 1, "x"),
   Fact("in o: from . import q", "o", TRUE, NoName, 1, "q")}

FactPairs(ms) ==
  LET fs == {f \in Facts : \E m \in ms : m.id = f.source} IN {{f, g} : f \in fs, g \in fs}

SmallCatalogs ==
  UNION {{[modules |-> ms, owned |-> {<<"p">>}, targets |-> ts, facts |-> fs,
           namespaces |-> UNION {Ancestors(x.name) : x \in ms \cup ts}] :
             ts \in TargetSets, fs \in FactPairs(ms)} : ms \in ModuleSets}
=============================================================================
