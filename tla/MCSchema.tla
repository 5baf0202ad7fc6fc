------------------------------ MODULE MCSchema ------------------------------
(* The two ways to change a schema, one at a time: calls on one field, and *)
(* artifacts applied as a whole.  `focus' says which runs.                 *)
EXTENDS SchemaChange, SchemaProposals, TLC

VARIABLE focus

SchemaWorkInit ==
  /\ focus \in {"calls", "artifacts"}
  /\ SchemaInit /\ ProposalInit
  /\ focus = "calls" => schema = BlankSchema
  /\ focus = "artifacts" => \A k \in Keys : def[k] # NoField

SchemaWorkNext ==
  /\ UNCHANGED focus
  /\ IF focus = "calls" THEN SchemaNext ELSE UNCHANGED schemaVars
  /\ IF focus = "artifacts" THEN ProposalNext ELSE UNCHANGED proposalVars

SchemaWorkSpec ==
  SchemaWorkInit /\ [][SchemaWorkNext]_<<focus, schemaVars, proposalVars>>

Loose == [required |-> FALSE, strict |-> FALSE]
Tight == [required |-> TRUE, strict |-> TRUE]
TwoFields == {Loose, Tight}

TwoKeys == {"f", "g"}
Opt == [kind |-> "text", required |-> FALSE]
Req == [kind |-> "text", required |-> TRUE]
Emb == [kind |-> "component", required |-> FALSE]
Of(a, b, c) == [type |-> [k \in TwoKeys |-> IF k = "f" THEN a ELSE b], comp |-> c]
MCArtifacts == {Of(Req, NotDefined, FALSE), Of(NotDefined, Emb, TRUE)}

(* Two calls under way at once are followed over shorter lives of an entry, *)
(* and the last version of an entry while no writer is at work beside them; *)
(* with two transactions open, only they move the schema, and no entry was  *)
(* written beside them.                                                     *)
Shallow ==
  /\ (\A a \in Admins : InFlight(a)) => \A e \in Entries : entry[e].ver < MaxVersion - 1
  /\ (\E a \in Admins : InFlight(a)) =>
        \A e \in Entries : entry[e].ver < MaxVersion \/ \A w \in Writers : edit[w] = IdleEdit
  /\ (\A r \in Reviews : InReview(r)) =>
        raced = {} /\ \A r \in Reviews : ~review[r].moved

Symmetry == Permutations(Keys) \cup Permutations(Entries)
              \cup Permutations(Admins) \cup Permutations(Writers)
=============================================================================
