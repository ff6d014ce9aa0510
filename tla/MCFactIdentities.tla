-------------------------- MODULE MCFactIdentities --------------------------
(* Up to four drafts with digests of four binary digits. *)
EXTENDS FactIdentities

FourDigits == {<<a, b, c, d>> : a, b, c, d \in {0, 1}}

UpToFourDrafts == (UNION {[1 .. n -> FourDigits] : n \in 0 .. 3}) \cup {f \in [1 .. 4 -> FourDigits] : f[1] = <<0, 0, 1, 1>>}
=============================================================================
