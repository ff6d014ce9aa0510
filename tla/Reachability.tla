---------------------------- MODULE Reachability ----------------------------
(***************************************************************************)
(* Which nodes a graph's paths lead to.  A graph is the set of its edges,  *)
(* pairs of nodes; what a leads to is what every set that holds the        *)
(* successors of a, and with a node its successors, must hold.             *)
(***************************************************************************)

Ends(edges) == {e[1] : e \in edges} \cup {e[2] : e \in edges}

Successors(edges, n) == {e[2] : e \in {d \in edges : d[1] = n}}

Closed(S, edges) == \A e \in edges : e[1] \in S => e[2] \in S

\* all <<a, b>> such that a path of at least one edge leads from a to b
Reaches(edges) ==
  LET closed == {S \in SUBSET Ends(edges) : Closed(S, edges)}
  IN {p \in Ends(edges) \X Ends(edges) :
        \A S \in closed : Successors(edges, p[1]) \subseteq S => p[2] \in S}
=============================================================================
