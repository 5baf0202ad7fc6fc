-------------------------------- MODULE Team --------------------------------
(***************************************************************************)
(* What the members of a tenant promise one another: no transactions, row  *)
(* locks, snapshots or deadlocks (Membership implements it).               *)
(*                                                                         *)
(* Every change takes effect in one step, under the rules as they stand in *)
(* that step: an owner is left, nobody is changed or removed who is not a  *)
(* member, and an invite is used once.  Only the say of whoever asked may  *)
(* be out of date: it is checked when they ask, and once more if they are  *)
(* no owner, and then holds until the request is through.                  *)
(***************************************************************************)
CONSTANTS
  Users, Calls, Invites,
  None,      \* the role of nobody, and what no request is about
  NoInvite   \* an invite not sent yet

VARIABLES
  team,      \* the role of each user, or None
  invites,
  wish       \* what each request under way wants

vars == <<team, invites, wish>>

Roles == {"owner", "admin", "editor", "viewer"}
Manages(u) == team[u] \in {"owner", "admin"}
Owners == {u \in Users : team[u] = "owner"}

NoWish == [op |-> None]
Wishes(op, by, on, role, cleared) ==
  [op : {op}, by : {by}, on : on, role : role, cleared : {cleared}]

Wants(c, op) == wish[c].op = op
Granted(c) == wish' = [wish EXCEPT ![c] = NoWish]

Init ==
  /\ \E u \in Users : team[u] = "owner"
  /\ \A i \in Invites : invites[i] = NoInvite \/ invites[i].state = "pending"
  /\ wish = [c \in Calls |-> NoWish]

Ask(c, wishes) ==
  /\ wish'[c] \in wishes /\ wish' = [wish EXCEPT ![c] = wish'[c]]
  /\ UNCHANGED <<team, invites>>

(* A manager asks; an owner needs no further say-so.                       *)
AskAsManager(c, u) ==
  /\ wish[c] = NoWish /\ Manages(u)
  /\ \/ Ask(c, Wishes("role", u, Users \ {u}, Roles, team[u] = "owner"))
     \/ Ask(c, Wishes("remove", u, Users \ {u}, {None}, team[u] = "owner"))
     \/ Ask(c, Wishes("invite", u, Users, Roles \ {"owner"}, TRUE))
     \/ Ask(c, Wishes("revoke", u, Invites, {None}, TRUE))

(* An invite is worth what its sender's role is worth at that moment.      *)
AskToJoin(c, u) ==
  /\ wish[c] = NoWish
  /\ Ask(c, Wishes("accept", u, {i \in Invites : invites[i] # NoInvite /\ Manages(invites[i].by)},
                   {None}, FALSE))

(* An admin may not make an owner nor touch one; an invite is for one user *)
(* and for a time.                                                         *)
Clear(c) ==
  /\ wish[c] # NoWish /\ ~wish[c].cleared
  /\ \/ /\ wish[c].op \in {"role", "remove"}
        /\ team[wish[c].on] \notin {None, "owner"} /\ wish[c].role # "owner"
     \/ /\ Wants(c, "accept")
        /\ invites[wish[c].on].state = "pending" /\ invites[wish[c].on].to = wish[c].by
  /\ wish' = [wish EXCEPT ![c].cleared = TRUE]
  /\ UNCHANGED <<team, invites>>

(* A member gets another role, or none.                                    *)
Change(c) ==
  /\ wish[c].op \in {"role", "remove"} /\ wish[c].cleared
  /\ team[wish[c].on] # None
  /\ wish[c].role = "owner" \/ Owners \ {wish[c].on} # {}
  /\ team' = [team EXCEPT ![wish[c].on] = wish[c].role]
  /\ Granted(c) /\ UNCHANGED invites

Send(c, i) ==
  /\ Wants(c, "invite") /\ invites[i] = NoInvite
  /\ invites' = [invites EXCEPT ![i] =
       [state |-> "pending", by |-> wish[c].by, to |-> wish[c].on, role |-> wish[c].role]]
  /\ Granted(c) /\ UNCHANGED team

(* The user is no member yet and the invite not used or revoked meanwhile. *)
Join(c, i, u) ==
  /\ Wants(c, "accept") /\ wish[c].cleared /\ i = wish[c].on /\ u = wish[c].by
  /\ team[u] = None
  /\ invites[i].state \in {"pending", "expired"} /\ invites[i].to = u
  /\ team' = [team EXCEPT ![u] = invites[i].role]
  /\ invites' = [invites EXCEPT ![i].state = "accepted"]
  /\ Granted(c)

Revoke(c, i) ==
  /\ Wants(c, "revoke") /\ i = wish[c].on /\ invites[i] # NoInvite
  /\ invites' = IF invites[i].state \in {"pending", "expired"}
                THEN [invites EXCEPT ![i].state = "revoked"] ELSE invites
  /\ Granted(c) /\ UNCHANGED team

(* Refused, or failed.                                                     *)
Withdraw(c) == wish[c] # NoWish /\ Granted(c) /\ UNCHANGED <<team, invites>>

Expire(i) ==
  /\ invites[i].state = "pending"
  /\ invites' = [invites EXCEPT ![i].state = "expired"]
  /\ UNCHANGED <<team, wish>>

Next ==
  \/ \E c \in Calls :
       \/ \E u \in Users : AskAsManager(c, u) \/ AskToJoin(c, u)
       \/ Clear(c) \/ Change(c) \/ Withdraw(c)
       \/ \E i \in Invites : Send(c, i) \/ Revoke(c, i) \/ \E u \in Users : Join(c, i, u)
  \/ \E i \in Invites : Expire(i)

Spec == Init /\ [][Next]_vars
=============================================================================
