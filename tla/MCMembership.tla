---------------------------- MODULE MCMembership ----------------------------
(* Small tenants for Membership.  A scene says who is there and what they  *)
(* do: three members and two requests that change or remove them, with an  *)
(* account deleted meanwhile, or two users and three requests about them   *)
(* and about one invite.                                                   *)
EXTENDS Membership, TLC

VARIABLE scene

ThreeUsers == 1..3

Roster(a, b, c) == [u \in ThreeUsers |-> CASE u = 1 -> a [] u = 2 -> b [] u = 3 -> c]

(* One owner, two owners, and an owner beside an admin, each with the      *)
(* owner first and last in the order of the locks.                         *)
Teams == {Roster("owner", "owner", "admin"), Roster("admin", "editor", "owner"),
          Roster("owner", "owner", "owner"), Roster("viewer", "owner", "owner")}

(* An owner with an editor, the smallest team that can deadlock, and an    *)
(* owner with somebody who is not yet a member but may be invited.         *)
Pairs == {Roster("editor", "owner", None), Roster(None, "owner", None)}
Small == Teams \cup Pairs

Invitation == [state |-> "pending", by |-> 2, to |-> 1, role |-> "editor"]
OneSent    == {Invitation}

Spare == CHOOSE c \in Calls : TRUE

(* Only the arrival of a request is ever kept out, never a step of one.    *)
InScene ==
  IF scene = "team"
  THEN /\ call[Spare].stage = "new"
       /\ \A c \in Calls : call[c].stage # "insert"
       /\ \A i \in Invites : invite[i] = NoInvite
  ELSE /\ gone = {}
       /\ \A c \in Calls : call[c].by # 3 /\ call[c].on # 3

MCInit ==
  /\ Init /\ scene = IF member \in Teams THEN "team" ELSE "pair"
  /\ InScene

MCNext == Next /\ UNCHANGED scene /\ InScene'

MCFairSpec ==
  MCInit /\ [][MCNext]_<<vars, scene>>
    /\ \A c \in Calls : WF_vars(Proceed(c)) /\ WF_vars(AbortDeadlocked(c))
=============================================================================
