--------------------------- MODULE MCCycleAnalysis ---------------------------
(* All dependencies among three nodes, each absent, possible or definite. *)
EXTENDS CycleAnalysis

ThreeNodes == 1 .. 3

Pairs == ThreeNodes \X ThreeNodes

AllGraphs ==
  {[edges |-> {p \in Pairs : kind[p] # "absent"}, definite |-> {p \in Pairs : kind[p] = "definite"}] :
     kind \in [Pairs -> {"absent", "possible", "definite"}]}
=============================================================================
