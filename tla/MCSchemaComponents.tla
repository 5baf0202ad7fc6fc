------------------------- MODULE MCSchemaComponents -------------------------
EXTENDS SchemaComponents, TLC

(* A component is created with one sub-field; calls add the others.        *)
OneField == {fields \in SubFields : Cardinality(KeysOf(fields)) = 1}

(* Two requests under way at once are followed from states in which nothing *)
(* is torn and delivery has nothing; one of two components keeps to a        *)
(* single sub-field.                                                        *)
Busy == {a \in Admins : InFlight(a)} \cup {w \in Writers : draft[w].stage # "idle"}

Calm ==
  /\ Cardinality(Busy) <= 2
  /\ torn # {} => Busy \subseteq Writers
  /\ Cardinality(Busy) = 2 =>
       /\ item["live"] = Nothing
       /\ (\A c \in Components : Live(c)) => Busy \subseteq Admins
  /\ \E c \in Components : Cardinality(KeysOf(component[c].fields)) <= 1
  /\ torn # Copies \cup {"list"}

Symmetry == Permutations(Components) \cup Permutations(Admins)
              \cup Permutations(Writers) \cup Permutations(SubKeys) \cup Permutations(Names)
=============================================================================
