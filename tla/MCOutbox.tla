------------------------------ MODULE MCOutbox ------------------------------
(* What leaves the service.  A scene of Outbox is a set of events that      *)
(* happen with bounds on the endpoints that may register and on the faults: *)
(* one content event with two endpoints, or a user event beside one that no *)
(* handler knows.  In a scene of EntryReads the workers have nothing to do, *)
(* and one request reads entries beside the writers.                        *)
EXTENDS Outbox, MCEntryReads

VARIABLE scene

Scenes ==
  {[part |-> "outbox", events |-> ContentRows, endpoints |-> NHooks, faults |-> MaxFaults],
   [part |-> "outbox", events |-> UserRows \cup UnroutedRows, endpoints |-> 0, faults |-> 1]}
    \cup {[part |-> "reads", events |-> {}, endpoints |-> 0, faults |-> 0]}

InScene ==
  /\ \A r \in Rows \ scene.events : status[r] = "none"
  /\ hooks \subseteq 1 .. scene.endpoints
  /\ faults <= scene.faults

(* An entry was decided upon before its last write only where all three are *)
(* published.                                                               *)
Reviewed ==
  (\E e \in Stored : decided[e] # 0) => \A e \in Stored : store[e].status = "published"

(* Where nobody reads, three entries are published.                         *)
Unread ==
  /\ reading = Unasked /\ edits = 0
  /\ roleLists = [Open EXCEPT !.own.article = {"editor"}]
  /\ decided = [e \in Stored |-> 0]
  /\ store = [e \in Stored |-> [status |-> "published", working |-> Posted[e],
                                snapshot |-> Posted[e], version |-> 2]]

MCInit ==
  /\ scene \in Scenes
  /\ Init
  /\ IF scene.part = "reads" THEN ReadsInit /\ Reviewed ELSE Unread

(* A reader may stop; the workers poll for ever.                            *)
MCNext ==
  /\ UNCHANGED scene
  /\ \/ scene.part = "outbox" /\ Next /\ InScene' /\ UNCHANGED readVars
     \/ scene.part = "reads" /\ (ReadsNext \/ UNCHANGED readVars) /\ UNCHANGED vars

(* Fairness of Outbox, over the steps a scene allows.                      *)
MCFairSpec ==
  MCInit /\ [][MCNext]_<<vars, readVars, scene>> /\ Fairness
=============================================================================
