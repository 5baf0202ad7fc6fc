--------------------------- MODULE EventDelivery ---------------------------
(***************************************************************************)
(* What the outbox promises to those who write events and to those who     *)
(* subscribe to them, without tables, claims, batches, replicas or crashes *)
(* (Outbox implements it).                                                 *)
(*                                                                         *)
(* Delivery is at least once: an addressee may hear an event any number of *)
(* times, and even an event whose fate is settled may be tried again.  But *)
(* an event is done only when all it is owed to have heard it, dead only   *)
(* when its tries are spent, and nobody hears what is not for him.         *)
(***************************************************************************)
EXTENDS Naturals

CONSTANTS
  Events,
  UserEvents,    \* events for the MCP gateway
  ContentEvents, \* events for the webhook endpoints
  Endpoints,     \* webhook endpoints
  Gateway,       \* the MCP gateway
  MaxRetries     \* failed tries an event may have

VARIABLES
  fate,   \* "none" before the event's transaction commits
  tries,  \* failed tries
  owed,   \* who has been subscribed ever since the commit
  heard,  \* who has processed the event
  active, \* registered endpoints
  known,  \* endpoints that were ever registered
  told    \* dead-letter notices

vars == <<fate, tries, owed, heard, active, known, told>>

Addressees(e, endpoints) == IF e \in UserEvents THEN {Gateway} ELSE endpoints

Init ==
  /\ fate = [e \in Events |-> "none"]
  /\ tries = [e \in Events |-> 0]
  /\ owed = [e \in Events |-> {}]
  /\ heard = [e \in Events |-> {}]
  /\ active = {}
  /\ known = {}
  /\ told = [e \in Events |-> 0]

(* The writer's transaction commits the event with what it changed.        *)
Commit(e) ==
  /\ fate[e] = "none"
  /\ fate' = [fate EXCEPT ![e] = "open"]
  /\ owed' = [owed EXCEPT ![e] = Addressees(e, active)]
  /\ UNCHANGED <<tries, heard, active, known, told>>

Subscribe(d) ==
  /\ d \notin known
  /\ active' = active \cup {d} /\ known' = known \cup {d}
  /\ UNCHANGED <<fate, tries, owed, heard, told>>

Unsubscribe(d) ==
  /\ d \in active
  /\ active' = active \ {d}
  /\ owed' = [e \in Events |-> owed[e] \ {d}]
  /\ UNCHANGED <<fate, tries, heard, known, told>>

(* An endpoint may hear an event although it has just been deleted.        *)
Hear(e, d) ==
  /\ fate[e] # "none" /\ d \in Addressees(e, known)
  /\ heard' = [heard EXCEPT ![e] = @ \cup {d}]
  /\ UNCHANGED <<fate, tries, owed, active, known, told>>

Accept(e) ==
  /\ fate[e] # "none" /\ owed[e] \subseteq heard[e]
  /\ fate' = [fate EXCEPT ![e] = "done"]
  /\ UNCHANGED <<tries, owed, heard, active, known, told>>

Refuse(e) ==
  /\ fate[e] # "none"
  /\ tries' = [tries EXCEPT ![e] = @ + 1]
  /\ fate' = [fate EXCEPT ![e] = IF tries[e] + 1 >= MaxRetries THEN "dead" ELSE "open"]
  /\ UNCHANGED <<owed, heard, active, known, told>>

Tell(e) ==
  /\ e \in ContentEvents /\ tries[e] >= MaxRetries
  /\ told' = [told EXCEPT ![e] = @ + 1]
  /\ UNCHANGED <<fate, tries, owed, heard, active, known>>

Next ==
  \/ \E e \in Events : Commit(e) \/ Accept(e) \/ Refuse(e) \/ Tell(e)
  \/ \E d \in Endpoints : Subscribe(d) \/ Unsubscribe(d)
  \/ \E e \in Events : \E d \in Addressees(e, Endpoints) : Hear(e, d)

Spec == Init /\ [][Next]_vars
=============================================================================
