--------------------------- MODULE MCEntryRelease ---------------------------
(* A small world for EntryRelease.  Either two editors share one schedule  *)
(* or one of them files them all and no worker fails.                      *)
EXTENDS EntryRelease, FiniteSets

VARIABLE scene

Spare == CHOOSE p \in Editors : TRUE

(* Only the arrival of a request is ever kept out, never a step of one.    *)
InScene ==
  LET filing == {p \in Editors : pc[p] = "file"}
  IN  IF scene = "editors"
      THEN filing = {} \/ (Cardinality(filing) = 1 /\ sched[1].state = "unused")
      ELSE pc[Spare] = "idle" /\ faults = 0

MCInit == Init /\ scene \in {"editors", "schedules"}
MCNext == Next /\ UNCHANGED scene /\ InScene'

(* Fairness of EntryRelease, over the steps a scene allows.                *)
MCFairSpec == MCInit /\ [][MCNext]_<<vars, scene>> /\ Fairness
=============================================================================
