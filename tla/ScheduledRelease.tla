-------------------------- MODULE ScheduledRelease --------------------------
(***************************************************************************)
(* What the release of an entry promises to those who edit it and to those *)
(* who schedule: no versions, locks, transactions, replicas or crashes     *)
(* (EntryRelease implements it).                                           *)
(*                                                                         *)
(* Every request, and every run of a schedule, takes effect in one step or *)
(* not at all.  A schedule that publishes shows what was approved, while   *)
(* nothing has touched it since, or shows nothing; what has become of a    *)
(* schedule is final until the entry goes; and its requester hears no more *)
(* and no less than that.                                                  *)
(***************************************************************************)
CONSTANTS
  Schedules,
  Bodies,
  NoBody     \* of an entry never published

VARIABLES
  exists,
  body,      \* the working copy
  public,    \* the copy last published
  shown,     \* it is public now
  fate,      \* what has become of each schedule
  plan,      \* what each schedule is to do
  approved,  \* the body shown to whoever filed it
  intact,    \* open schedules whose approved body nothing has touched
  told       \* what requesters have heard

vars == <<exists, body, public, shown, fate, plan, approved, intact, told>>

Open == {i \in Schedules : fate[i] = "pending"}

(* How a requester is told of an outcome. *)
Recorded == [succeeded |-> "done", stale |-> "stale", failed |-> "failed"]

Closed(S, how) == [i \in Schedules |-> IF i \in S THEN how ELSE fate[i]]

Init ==
  /\ exists = TRUE /\ body \in Bodies /\ public = NoBody /\ shown = FALSE
  /\ fate = [i \in Schedules |-> "unused"]
  /\ plan = [i \in Schedules |-> "publish"]
  /\ approved = [i \in Schedules |-> NoBody]
  /\ intact = {} /\ told = {}

(* A save may find that it has overtaken schedules.                        *)
Save(b, S) ==
  /\ exists /\ S \subseteq {i \in Open : plan[i] = "publish"}
  /\ body' = b /\ intact' = {}
  /\ fate' = Closed(S, "stale")
  /\ UNCHANGED <<exists, public, shown, plan, approved, told>>

Show(b) == public' = b /\ shown' = TRUE
Hide == shown' = FALSE /\ UNCHANGED public

(* An editor publishes or unpublishes the entry, schedule or not.          *)
Decide(S) ==
  /\ exists /\ S \subseteq Open
  /\ Show(body) \/ Hide
  /\ fate' = Closed(S, "superseded") /\ intact' = {}
  /\ UNCHANGED <<exists, body, plan, approved, told>>

Remove ==
  /\ exists /\ exists' = FALSE
  /\ fate' = Closed({i \in Schedules : fate[i] # "unused"}, "gone") /\ intact' = {}
  /\ UNCHANGED <<body, public, shown, plan, approved, told>>

(* A schema change rewrites both copies alike.                             *)
Rewrite(as) ==
  /\ exists
  /\ body' = as[body]
  /\ public' = IF public = NoBody THEN NoBody ELSE as[public]
  /\ intact' = {} \/ (body' = body /\ intact' = intact)
  /\ UNCHANGED <<exists, shown, fate, plan, approved, told>>

(* What is filed was shown to its requester, now or some time ago.         *)
File(i, action, b) ==
  /\ exists /\ Open = {} /\ fate[i] = "unused"
  /\ fate' = [fate EXCEPT ![i] = "pending"]
  /\ plan' = [plan EXCEPT ![i] = action]
  /\ approved' = [approved EXCEPT ![i] = b]
  /\ intact' = {} \/ (action = "publish" /\ b = body /\ intact' = {i})
  /\ UNCHANGED <<exists, body, public, shown, told>>

(* The schedule is carried out.                                            *)
Fire(i) ==
  /\ exists /\ i \in Open
  /\ IF plan[i] = "publish" THEN i \in intact /\ Show(approved[i]) ELSE Hide
  /\ fate' = Closed({i}, "done") /\ intact' = {}
  /\ UNCHANGED <<exists, body, plan, approved, told>>

(* It is not: somebody has touched what it was to publish; or its requester *)
(* cancels it; or it failed.                                                *)
Drop(i) ==
  /\ i \in Open
  /\ \/ plan[i] = "publish" /\ i \notin intact /\ fate' = Closed({i}, "stale")
     \/ fate' = Closed({i}, "cancelled") \/ fate' = Closed({i}, "failed")
  /\ intact' = intact \ {i}
  /\ UNCHANGED <<exists, body, public, shown, plan, approved, told>>

Tell(i, outcome) ==
  /\ fate[i] \in {Recorded[outcome], "gone"}
  /\ told' = told \cup {<<i, outcome>>}
  /\ UNCHANGED <<exists, body, public, shown, fate, plan, approved, intact>>

Next ==
  \/ \E S \in SUBSET Schedules : Decide(S) \/ \E b \in Bodies : Save(b, S)
  \/ Remove
  \/ \E as \in [Bodies -> Bodies] : Rewrite(as)
  \/ \E i \in Schedules :
       \/ \E action \in {"publish", "unpublish"}, b \in Bodies : File(i, action, b)
       \/ Fire(i) \/ Drop(i)
       \/ \E outcome \in DOMAIN Recorded : Tell(i, outcome)

Spec == Init /\ [][Next]_vars
=============================================================================
