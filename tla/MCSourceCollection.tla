------------------------- MODULE MCSourceCollection -------------------------
(***************************************************************************)
(* root/a.py, root/t.py (matched by a pattern), root/sub/b.py,              *)
(* root/sub/c.pyi, root/venv/d.py (excluded by default) and root/inner/e.py *)
(* (inner is a selected root of its own).                                  *)
(***************************************************************************)
EXTENDS SourceCollection

SmallParent ==
  [sub |-> "root", venv |-> "root", inner |-> "root",
   a |-> "root", t |-> "root", b |-> "sub", c |-> "sub", d |-> "venv", e |-> "inner"]

Start(A, B, C, Sub) ==
  {[root |-> "directory", sub |-> s, venv |-> "directory", inner |-> "directory", a |-> a, t |-> "good", b |-> b, c |-> c,
    d |-> "good", e |-> "good"] : a \in A, b \in B, c \in C, s \in Sub}

AnyStart == Start({"good"}, SourceStates, {"good"}, {"directory", "symlink", "unreadable"})
=============================================================================
