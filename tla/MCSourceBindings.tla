-------------------------- MODULE MCSourceBindings --------------------------
(* Small disks: every subset of a few files. *)
EXTENDS SourceBindings

Pkg(d)   == [at |-> d, init |-> TRUE]
Plain(d) == [at |-> d, init |-> FALSE]

DisksOf(fs) == {[files |-> s, targets |-> {}] : s \in SUBSET fs}

\* two roots and a third below the first, outside its packages
ThreeRoots == << <<"r">>, <<"r", "v">>, <<"s">> >>

ThreeRootFiles ==
  {Pkg(<<"r">>), Pkg(<<"r", "p">>), Plain(<<"r", "p">>), Pkg(<<"r", "p", "q">>), Plain(<<"r", "p", "q">>),
   Pkg(<<"r", "v">>), Pkg(<<"r", "v", "p">>), Plain(<<"r", "v", "p", "q">>),
   Pkg(<<"s", "p">>), Plain(<<"s", "p">>), Plain(<<"s", "p", "q", "t">>),
   Plain(<<"r", "v", "q">>), Plain(<<"s", "v", "q">>)}

ThreeRootDisks == DisksOf(ThreeRootFiles)

\* a root inside a package directory of the other
NestedRoots == << <<>>, <<"p", "v">> >>

NestedFiles ==
  {Pkg(<<"p">>), Plain(<<"p">>), Plain(<<"p", "q">>), Plain(<<"q">>),
   Plain(<<"p", "v", "q">>), Plain(<<"p", "v", "p", "q">>), Pkg(<<"p", "v", "p">>)}

NestedDisks == DisksOf(NestedFiles)
=============================================================================
