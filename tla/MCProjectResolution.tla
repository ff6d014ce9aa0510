------------------------ MODULE MCProjectResolution ------------------------
(* Two roots that may split the package p between them, a third one nested in the first, and
   an entry point m. *)
EXTENDS ProjectResolution

Pkg(d)   == [at |-> d, init |-> TRUE]
Plain(d) == [at |-> d, init |-> FALSE]

ThreeRoots == << <<"r">>, <<"r", "v">>, <<"s">> >>

Files ==
  {Pkg(<<"r", "p">>), Plain(<<"r", "p">>), Plain(<<"r", "p", "q">>),
   Pkg(<<"s", "p">>), Plain(<<"s", "p", "q">>), Plain(<<"s", "p", "t">>), Plain(<<"s", "p">>)}

Declared(f, kind, shape) == [at |-> f.at, init |-> f.init, kind |-> kind, shape |-> shape, acknowledged |-> FALSE]

TargetSets ==
  {{}, {Declared(Plain(<<"r", "p", "q">>), "native", "artifact")},
   {Declared(Plain(<<"s", "p", "q">>), "stub", "file")},
   {Declared(Plain(<<"s", "p", "t">>), "native", "artifact")}}

SmallDisks ==
  {[files |-> fs \cup {Plain(<<"r", "m">>)}, targets |-> ts] : fs \in SUBSET Files, ts \in TargetSets}
    \cup
  {[files |-> fs \cup {Pkg(<<"r", "p">>)}, targets |-> {Declared(Plain(<<"s", "p">>), "native", "artifact")}] :
     fs \in SUBSET {Plain(<<"r", "m">>), Plain(<<"r", "p", "q">>), Plain(<<"r", "p">>)}}

\* an extension module or package above sources
NativeDisks ==
  {[files |-> fs \cup {Plain(<<"r", "m">>), Plain(<<"r", "p", "q">>)}, targets |-> {Declared(f, "native", "artifact")}] :
     fs \in SUBSET Files, f \in {Plain(<<"r", "p">>), Pkg(<<"r", "p">>), Pkg(<<"s", "p">>)}}

\* files of the nested root that the other roots' names lead to as well
NestedDisks ==
  {[files |-> fs \cup {Plain(<<"r", "m">>), Plain(<<"r", "v", "q">>)}, targets |-> ts] :
     fs \in SUBSET {Pkg(<<"r", "v">>), Plain(<<"r", "v", "p">>), Plain(<<"s", "q">>), Plain(<<"s", "v", "q">>),
                    Plain(<<"r", "p", "q">>)},
     ts \in {{}, {Declared(Plain(<<"r", "v">>), "native", "artifact")}}}

AllDisks == SmallDisks \cup NativeDisks \cup NestedDisks

Import(file, from, base, level, imported) ==
  [file |-> file, from |-> from, base |-> base, level |-> level, imported |-> imported]

M == Plain(<<"r", "m">>)

OneImport ==
  {{i} : i \in
    {Import(M, FALSE, <<"p">>, 0, "none"),
     Import(M, FALSE, <<"p", "q">>, 0, "none"),
     Import(M, FALSE, <<"q">>, 0, "none"),
     Import(M, TRUE, <<"v">>, 0, "q"),
     Import(M, TRUE, <<"p">>, 0, "q"),
     Import(M, TRUE, <<"p", "q">>, 0, "x"),
     Import(M, TRUE, <<"p">>, 0, "t"),
     Import(Pkg(<<"r", "p">>), TRUE, NoName, 1, "q"),
     Import(Plain(<<"r", "p", "q">>), TRUE, NoName, 1, "t"),
     Import(Plain(<<"s", "p", "q">>), TRUE, <<"t">>, 1, "*"),
     Import(Plain(<<"s", "p", "t">>), TRUE, NoName, 2, "q")}}
=============================================================================
