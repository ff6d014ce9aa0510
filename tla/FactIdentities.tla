--------------------------- MODULE FactIdentities ---------------------------
(***************************************************************************)
(* FactCanonicalizer gives every import fact the shortest prefix of its    *)
(* digest that no other fact shares, but at least MinLength digits.  Only  *)
(* neighbours in the order of the digests are compared:                    *)
(* _minimum_unique_prefix_lengths visits the sorted digests pair by pair.  *)
(***************************************************************************)
EXTENDS SequencesExt

CONSTANTS
  Drafts,     \* what the drafts of one analysis may hash to: functions to digests
  MinLength   \* _FACT_ID_PREFIX_LENGTH

\* digests are sequences of digits, all of one length
ASSUME DraftsAssumption ==
  \A d \in Drafts :
    /\ IsFiniteSet(DOMAIN d)
    /\ \A x, y \in DOMAIN d :
         d[x] \in Seq(Nat) /\ Len(d[x]) = Len(d[y]) /\ Len(d[x]) >= MinLength
ASSUME MinLengthAssumption == MinLength \in Nat \ {0}

VARIABLES
  digest,   \* the digest of every draft
  ordered,  \* the different digests in order
  visited,  \* where the loop is among them, 0 before they are sorted
  lengths,  \* the prefix length of every digest so far
  result    \* "none", "raised", or "assigned" when the facts have their ids

idsVars == <<digest, ordered, visited, lengths, result>>
-----------------------------------------------------------------------------
Digests == {digest[x] : x \in DOMAIN digest}

Common(a, b) ==
  LET agree == {k \in 0 .. Len(a) : \A j \in 1 .. k : a[j] = b[j]} IN Max(agree)

Before(a, b) == a # b /\ a[Common(a, b) + 1] < b[Common(a, b) + 1]

\* mutant: off by one
CommonLength(a, b) == Max({MinLength, Common(a, b)})

Distinguishing(a, b) == Max({MinLength, Common(a, b) + 1})

IdsInit ==
  /\ digest \in Drafts
  /\ ordered = <<>>
  /\ visited = 0
  /\ lengths = [d \in {} |-> MinLength]
  /\ result = "none"

\* canonicalise rejects two facts with one digest, then sorts
Sort ==
  /\ visited = 0 /\ result = "none"
  /\ IF Cardinality(Digests) # Cardinality(DOMAIN digest)
     THEN result' = "raised" /\ UNCHANGED <<ordered, lengths, visited>>
     ELSE /\ ordered' \in {s \in SetToSeqs(Digests) : \A i, j \in DOMAIN s : i < j => Before(s[i], s[j])}
          /\ lengths' = [d \in Digests |-> MinLength]
          /\ visited' = 1
          /\ UNCHANGED result
  /\ UNCHANGED digest

\* mutant: the right neighbour's length is overwritten
CompareLast ==
  /\ visited \in 1 .. Len(ordered) - 1 /\ result = "none"
  /\ LET left == ordered[visited] right == ordered[visited + 1]
     IN lengths' = [lengths EXCEPT ![left] = Distinguishing(left, right), ![right] = Distinguishing(left, right)]
  /\ visited' = visited + 1
  /\ UNCHANGED <<digest, ordered, result>>

\* one pair of neighbours
Compare ==
  /\ visited \in 1 .. Len(ordered) - 1 /\ result = "none"
  /\ LET left  == ordered[visited]
         right == ordered[visited + 1]
         Longer(length) == Max({length, Distinguishing(left, right)})
     IN lengths' = [lengths EXCEPT ![left] = Longer(@), ![right] = Longer(@)]
  /\ visited' = visited + 1
  /\ UNCHANGED <<digest, ordered, result>>

Assign ==
  /\ visited > 0 /\ visited >= Len(ordered) /\ result = "none"
  /\ result' = "assigned"
  /\ UNCHANGED <<digest, ordered, visited, lengths>>

IdsNext == Sort \/ Compare \/ Assign

IdsSpec == IdsInit /\ [][IdsNext]_idsVars
-----------------------------------------------------------------------------
Id(x) == SubSeq(digest[x], 1, lengths[digest[x]])

\* Different facts have different ids, and no id is the beginning of another.
IdsDiffer ==
  result = "assigned" =>
    \A x, y \in DOMAIN digest : x # y => ~ IsPrefix(Id(x), Id(y))

\* "A digest's longest shared prefix must occur with one of its lexicographic neighbours":
\* comparing neighbours finds the lengths that comparing all pairs would, and none is longer.
NeighboursSuffice ==
  result = "assigned" =>
    \A d \in Digests : lengths[d] = Max({MinLength} \cup {Common(d, e) + 1 : e \in Digests \ {d}})
=============================================================================
