--------------------------- MODULE MCUniqueValues ---------------------------
(* UniqueValues for TLC.  Entries, values and requests of one kind are     *)
(* interchangeable: no definition tells them apart.                        *)
EXTENDS UniqueValues, Naturals, TLC

Symmetry ==
  Permutations(Entries) \cup Permutations(Values)
    \cup Permutations(Writers) \cup Permutations(Patchers)

(* Bound: one entry at a time has a live snapshot or is getting one, and   *)
(* one entry at a time was last written across a PATCH.                    *)
Bounded ==
  /\ Cardinality({e \in Entries :
       \/ doc[e].shelf # NoValue
       \/ \E w \in Writers : target[w] = e /\ draft[w].shelf # NoValue}) <= 1
  /\ Cardinality(crossed) <= 1

=============================================================================
