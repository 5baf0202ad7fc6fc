----------------------------- MODULE Membership -----------------------------
(***************************************************************************)
(* The members, roles and invites of one tenant (internal/tenant).         *)
(*                                                                         *)
(* Requests run concurrently against PostgreSQL at READ COMMITTED.  A      *)
(* request that changes or removes a member first checks its caller, each  *)
(* check a query of its own, then opens a transaction that locks the       *)
(* owners in user_id order (lockOwnersOrdered), locks the target and       *)
(* writes.  A locking SELECT takes its rows from the statement's snapshot, *)
(* waits for each row in turn and evaluates its WHERE clause again on the  *)
(* row it gets; a row that no longer qualifies is not returned but stays   *)
(* locked, and a row deleted meanwhile is skipped.                         *)
(*                                                                         *)
(* Tokens, e-mail addresses and times are abstracted: an invite names the  *)
(* user it was sent to and expires at any moment.  The roster and invite   *)
(* listings only read.  Evicting the refresh tokens of a removed member is *)
(* part of the account's sessions, not of this module.                     *)
(***************************************************************************)
EXTENDS Naturals, FiniteSets

CONSTANTS
  Users,     \* user ids, in the order PostgreSQL sorts them
  Calls,     \* requests; each runs once
  Invites,   \* invites that may be created
  Rosters,   \* the memberships the tenant may have when the requests start
  Sent,      \* invites that may be pending when they start
  Leavers,   \* users who may delete their account
  Nobody     \* the holder of a free lock, the target of no request

Roles == {"owner", "admin", "editor", "viewer"}
None  == "none"

(* domain.InvitableRole: ownership does not move by invite.                *)
InvitableRoles == Roles \ {"owner"}
Managers == {"owner", "admin"}

ASSUME UserIdsAreOrdered == Users \subseteq Nat
ASSUME NobodyIsNobody == Nobody \notin Calls \cup Users \cup Invites
(* ProvisionOwnerTx creates a tenant together with its owner.              *)
ASSUME ProvisionedWithOwner ==
  \A m \in Rosters : /\ m \in [Users -> Roles \cup {None}]
                     /\ \E u \in Users : m[u] = "owner"
(* CreateInvite, and the CHECK of migration 000013.                        *)
ASSUME SentIsPending ==
  Sent \subseteq [state : {"pending"}, by : Users, to : Users, role : InvitableRoles]

VARIABLES
  member,    \* the memberships table: the role of each user, or None
  lock,      \* the call that holds the row lock of each membership
  invite,    \* the tenant_invites table
  holder,    \* the call that holds the row lock of each invite
  call,      \* the requests
  gone       \* users whose account is deleted

vars == <<member, lock, invite, holder, call, gone>>

InviteStates == {"unused", "pending", "expired", "accepted", "revoked"}
Ops == {"role", "remove", "invite", "accept", "revoke"}

(* "rank" is the second check an admin's request has to pass, "begin" the  *)
(* moment before the transaction, "owners" the statement that locks the    *)
(* owners, "target" the one that locks the target, "seat" and "grant" the  *)
(* two halves of AcceptInvite.                                             *)
Stages == {"new", "rank", "begin", "owners", "target", "insert", "cancel",
           "seat", "grant", "ended"}

NoInvite == [state |-> "unused", by |-> Nobody, to |-> Nobody, role |-> None]

Request(stage, op, by, on, role) ==
  [stage |-> stage, op |-> op, by |-> by, on |-> on, role |-> role,
   as |-> None, todo |-> {}, counted |-> {}, vouched |-> FALSE]

Idle  == Request("new", None, Nobody, Nobody, None)
Ended == Request("ended", None, Nobody, Nobody, None)

Requests ==
  [stage : Stages, op : Ops \cup {None}, by : Users \cup {Nobody},
   on : Users \cup Invites \cup {Nobody}, role : Roles \cup {None},
   as : Roles \cup {None}, todo : SUBSET Users, counted : SUBSET Users,
   vouched : BOOLEAN]

TypeOK ==
  /\ member \in [Users -> Roles \cup {None}]
  /\ lock \in [Users -> Calls \cup {Nobody}]
  /\ invite \in [Invites -> [state : InviteStates, by : Users \cup {Nobody},
                             to : Users \cup {Nobody},
                             role : InvitableRoles \cup {None}]]
  /\ holder \in [Invites -> Calls \cup {Nobody}]
  /\ call \in [Calls -> Requests]
  /\ gone \subseteq Users

Init ==
  /\ member \in Rosters
  /\ lock = [u \in Users |-> Nobody]
  /\ invite \in [Invites -> Sent \cup {NoInvite}]
  /\ holder = [i \in Invites |-> Nobody]
  /\ call = [c \in Calls |-> Idle]
  /\ gone = {}

-----------------------------------------------------------------------------
(* Transactions and locks.                                                 *)

Free(c, u) == lock[u] \in {Nobody, c}

ReleaseRows(c) == lock' = [u \in Users |-> IF lock[u] = c THEN Nobody ELSE lock[u]]
ReleaseInvites(c) ==
  holder' = [i \in Invites |-> IF holder[i] = c THEN Nobody ELSE holder[i]]

End(c) ==
  /\ ReleaseRows(c)
  /\ ReleaseInvites(c)
  /\ call' = [call EXCEPT ![c] = Ended]

(* Mutant: A handler that returns an error without the deferred Rollback.  *)
RefuseNoRollback(c) ==
  /\ call' = [call EXCEPT ![c] = Ended]
  /\ UNCHANGED <<member, lock, invite, holder, gone>>

(* The handler returns an error: the deferred Rollback gives up the locks  *)
(* and nothing was written.                                                *)
Refuse(c) == End(c) /\ UNCHANGED <<member, invite, gone>>

Advance(c, stage) == call' = [call EXCEPT ![c] = [call[c] EXCEPT !.stage = stage]]

-----------------------------------------------------------------------------
(* UpdateMemberRole and RemoveMember.                                      *)

(* requireLiveOwnerOrAdmin: the caller's role is read from the database,   *)
(* in a query of its own.  A request that fails it, or that targets its    *)
(* own caller, changes nothing and is not taken.                           *)
LiveManager(u) == member[u] \in Managers

StartManage(c, op, u, t, r) ==
  /\ call[c].stage = "new"
  /\ LiveManager(u)
  /\ t # u
  /\ call' = [call EXCEPT
       ![c] = [Request(IF member[u] = "admin" THEN "rank" ELSE "begin",
                       op, u, t, r) EXCEPT !.as = member[u]]]
  /\ UNCHANGED <<member, lock, invite, holder, gone>>

StartUpdateMemberRole(c) ==
  \E u, t \in Users, r \in Roles : StartManage(c, "role", u, t, r)

StartRemoveMember(c) ==
  \E u, t \in Users : StartManage(c, "remove", u, t, None)

(* Mutant: An admin's request is checked for its target but not for its new role.*)
MayTouchTargetOnly(c) == member[call[c].on] \notin {None, "owner"}

(* An admin may neither hand out the owner role nor touch an owner; the    *)
(* target's role is read outside the transaction that will change it.      *)
MayTouch(c) ==
  /\ member[call[c].on] \notin {None, "owner"}
  /\ call[c].role # "owner"

CheckRank(c) ==
  /\ call[c].stage = "rank"
  /\ \/ /\ MayTouch(c)
        /\ Advance(c, "begin")
        /\ UNCHANGED <<member, lock, invite, holder, gone>>
     \/ ~MayTouch(c) /\ Refuse(c)

(* The snapshot of the statement that locks the owners.                    *)
BeginManage(c) ==
  /\ call[c].stage = "begin"
  /\ LET owners == {u \in Users : member[u] = "owner"}
     IN  call' = [call EXCEPT ![c] = [call[c] EXCEPT
           !.stage = IF owners = {} THEN "target" ELSE "owners",
           !.todo  = owners]]
  /\ UNCHANGED <<member, lock, invite, holder, gone>>

NextOwner(c) == CHOOSE u \in call[c].todo : \A v \in call[c].todo : u <= v

(* One more row of the snapshot is locked; it counts if it is still an     *)
(* owner's.                                                                *)
(* Mutant: The owners are counted in the snapshot, as a plain COUNT would. *)
CountsSnapshot(u) == TRUE

Counts(u) == member[u] = "owner"

(* Mutant: The owners are read without FOR UPDATE.                         *)
LockOwnerNever(c, u) ==
  /\ call[c].stage = "owners"
  /\ call[c].todo # {}
  /\ u = NextOwner(c)
  /\ call' = [call EXCEPT ![c] = [call[c] EXCEPT
       !.stage = IF call[c].todo = {u} THEN "target" ELSE "owners",
       !.todo = call[c].todo \ {u},
       !.counted = call[c].counted \cup (IF Counts(u) THEN {u} ELSE {})]]
  /\ UNCHANGED <<member, lock, invite, holder, gone>>

LockOwner(c, u) ==
  /\ call[c].stage = "owners"
  /\ call[c].todo # {}
  /\ u = NextOwner(c)
  /\ Free(c, u)
  /\ lock' = [lock EXCEPT ![u] = c]
  /\ call' = [call EXCEPT ![c] = [call[c] EXCEPT
       !.stage = IF call[c].todo = {u} THEN "target" ELSE "owners",
       !.todo = call[c].todo \ {u},
       !.counted = call[c].counted \cup (IF Counts(u) THEN {u} ELSE {})]]
  /\ UNCHANGED <<member, invite, holder, gone>>

(* The owner role would leave the only owner counted.                      *)
TakesOwnerRole(c) ==
  /\ member[call[c].on] = "owner"
  /\ call[c].role # "owner"

LastOwner(c) == TakesOwnerRole(c) /\ Cardinality(call[c].counted) <= 1

(* Mutant: The role change as an upsert.                                   *)
WriteMemberUpsert(c, t) ==
  /\ call[c].stage = "target"
  /\ t = call[c].on
  /\ Free(c, t)
  /\ ~LastOwner(c)

(* The target row is locked, checked and written, and the transaction      *)
(* commits.  No other transaction sees a state in between.                 *)
WriteMember(c, t) ==
  /\ call[c].stage = "target"
  /\ t = call[c].on
  /\ Free(c, t)
  /\ member[t] # None
  /\ ~LastOwner(c)

CommitRole(c, t) ==
  /\ call[c].op = "role"
  /\ WriteMember(c, t)
  /\ member' = [member EXCEPT ![t] = call[c].role]
  /\ End(c)
  /\ UNCHANGED <<invite, gone>>

(* The deleted row leaves every snapshot that has yet to lock it.          *)
CommitRemove(c, t) ==
  /\ call[c].op = "remove"
  /\ WriteMember(c, t)
  /\ member' = [member EXCEPT ![t] = None]
  /\ ReleaseRows(c)
  /\ ReleaseInvites(c)
  /\ call' = [d \in Calls |->
       IF d = c THEN Ended
       ELSE LET left == call[d].todo \ {t}
            IN  [call[d] EXCEPT
                  !.todo = left,
                  !.stage = IF @ = "owners" /\ left = {} THEN "target" ELSE @]]
  /\ UNCHANGED <<invite, gone>>

(* ErrNotFound and ErrLastOwner.                                           *)
RefuseManage(c, t) ==
  /\ call[c].stage = "target"
  /\ t = call[c].on
  /\ \/ member[t] = None
     \/ Free(c, t) /\ LastOwner(c)
  /\ Refuse(c)

-----------------------------------------------------------------------------
(* Invites.                                                                *)

(* Bound: a request is only made while an invite is left for it.           *)
InviteLeft == Cardinality({d \in Calls : call[d].stage = "insert"})
                < Cardinality({i \in Invites : invite[i].state = "unused"})

(* Mutant: domain.ValidRole in the place of InvitableRole.                 *)
StartCreateInviteAnyRole(c) ==
  /\ call[c].stage = "new"
  /\ InviteLeft
  /\ \E u, t \in Users, r \in Roles :
       /\ LiveManager(u)
       /\ call' = [call EXCEPT
            ![c] = [Request("insert", "invite", u, t, r) EXCEPT !.as = member[u]]]
  /\ UNCHANGED <<member, lock, invite, holder, gone>>

(* CreateInvite checks its caller's live role, then inserts.               *)
StartCreateInvite(c) ==
  /\ call[c].stage = "new"
  /\ InviteLeft
  /\ \E u, t \in Users, r \in InvitableRoles :
       /\ LiveManager(u)
       /\ call' = [call EXCEPT
            ![c] = [Request("insert", "invite", u, t, r) EXCEPT !.as = member[u]]]
  /\ UNCHANGED <<member, lock, invite, holder, gone>>

CreateInvite(c, i) ==
  /\ call[c].stage = "insert"
  /\ invite[i].state = "unused"
  /\ invite' = [invite EXCEPT ![i] =
       [state |-> "pending", by |-> call[c].by, to |-> call[c].on,
        role |-> call[c].role]]
  /\ End(c)
  /\ UNCHANGED <<member, gone>>

Expire(i) ==
  /\ invite[i].state = "pending"
  /\ invite' = [invite EXCEPT ![i].state = "expired"]
  /\ UNCHANGED <<member, lock, holder, call, gone>>

(* AcceptInvite's SELECT ... FOR UPDATE OF i begins: whether the inviter   *)
(* still manages the tenant comes from the statement's snapshot, even when *)
(* the statement then waits for the invite's row.                          *)
StartAcceptInvite(c) ==
  /\ call[c].stage = "new"
  /\ \E u \in Users \ gone, i \in Invites :
       /\ invite[i].state # "unused"
       /\ call' = [call EXCEPT
            ![c] = [Request("seat", "accept", u, i, None) EXCEPT
                     !.vouched = LiveManager(invite[i].by)]]
  /\ UNCHANGED <<member, lock, invite, holder, gone>>

Acceptable(c, i) ==
  /\ invite[i].state = "pending"
  /\ call[c].vouched
  /\ invite[i].to = call[c].by

LockInvite(c, i) ==
  /\ call[c].stage = "seat"
  /\ i = call[c].on
  /\ holder[i] = Nobody
  /\ \/ /\ Acceptable(c, i)
        /\ holder' = [holder EXCEPT ![i] = c]
        /\ Advance(c, "grant")
        /\ UNCHANGED <<member, lock, invite, gone>>
     \/ ~Acceptable(c, i) /\ Refuse(c)

(* INSERT ... ON CONFLICT DO NOTHING, then the invite is consumed.         *)
GrantSeat(c, i, u) ==
  /\ call[c].stage = "grant"
  /\ i = call[c].on
  /\ u = call[c].by
  /\ \/ /\ member[u] = None
        /\ member' = [member EXCEPT ![u] = invite[i].role]
        /\ invite' = [invite EXCEPT ![i].state = "accepted"]
        /\ End(c)
        /\ UNCHANGED gone
     \/ member[u] # None /\ Refuse(c)

StartRevokeInvite(c) ==
  /\ call[c].stage = "new"
  /\ \E u \in Users, i \in Invites :
       /\ LiveManager(u)
       /\ invite[i].state # "unused"
       /\ call' = [call EXCEPT
            ![c] = [Request("cancel", "revoke", u, i, None) EXCEPT !.as = member[u]]]
  /\ UNCHANGED <<member, lock, invite, holder, gone>>

(* Mutant: RevokeInvite without FOR UPDATE.                                *)
InviteFreeAlways(i) == TRUE

InviteFree(i) == holder[i] = Nobody

(* The invite's row is locked, checked and written in one transaction that *)
(* locks nothing else; revoking twice succeeds and changes nothing.        *)
RevokeInvite(c, i) ==
  /\ call[c].stage = "cancel"
  /\ i = call[c].on
  /\ InviteFree(i)
  /\ invite' = IF invite[i].state \in {"pending", "expired"}
               THEN [invite EXCEPT ![i].state = "revoked"]
               ELSE invite
  /\ End(c)
  /\ UNCHANGED <<member, gone>>

-----------------------------------------------------------------------------
(* The surroundings.                                                       *)

(* SoftDelete of the user module leaves the memberships alone.             *)
DeleteAccount(u) ==
  /\ u \in Leavers \ gone
  /\ gone' = gone \cup {u}
  /\ UNCHANGED <<member, lock, invite, holder, call>>

InTransaction(c) == call[c].stage \in {"owners", "target", "seat", "grant"}

(* A lost connection or a cancelled request rolls the transaction back.    *)
Fail(c) == InTransaction(c) /\ Refuse(c)

(* The call whose lock c waits for.                                        *)
WaitsFor(c) ==
  CASE call[c].stage = "owners" /\ call[c].todo # {} -> lock[NextOwner(c)]
    [] call[c].stage = "target" -> lock[call[c].on]
    [] call[c].stage = "seat"   -> holder[call[c].on]
    [] OTHER -> Nobody

Cycle(S) == /\ \A c \in S : WaitsFor(c) \in S \ {c}
            /\ \A c \in S : \E d \in S : WaitsFor(d) = c

Deadlocked(c) == \E S \in SUBSET Calls : c \in S /\ Cycle(S)

(* PostgreSQL breaks a deadlock by aborting one of the transactions.       *)
AbortDeadlocked(c) == Deadlocked(c) /\ Refuse(c)

-----------------------------------------------------------------------------
Start(c) ==
  \/ StartUpdateMemberRole(c)
  \/ StartRemoveMember(c)
  \/ StartCreateInvite(c)
  \/ StartAcceptInvite(c)
  \/ StartRevokeInvite(c)

Proceed(c) ==
  \/ CheckRank(c)
  \/ BeginManage(c)
  \/ \E u \in Users : LockOwner(c, u)
  \/ \E t \in Users : CommitRole(c, t)
  \/ \E t \in Users : CommitRemove(c, t)
  \/ \E t \in Users : RefuseManage(c, t)
  \/ \E i \in Invites : CreateInvite(c, i)
  \/ \E i \in Invites : LockInvite(c, i)
  \/ \E i \in Invites, u \in Users : GrantSeat(c, i, u)
  \/ \E i \in Invites : RevokeInvite(c, i)

Next ==
  \/ \E c \in Calls : Start(c) \/ Proceed(c) \/ Fail(c) \/ AbortDeadlocked(c)
  \/ \E i \in Invites : Expire(i)
  \/ \E u \in Users : DeleteAccount(u)

Spec == Init /\ [][Next]_vars

(* A request that has started is carried on by its goroutine, and the      *)
(* database breaks every deadlock.                                         *)
FairSpec ==
  Spec /\ \A c \in Calls : WF_vars(Proceed(c)) /\ WF_vars(AbortDeadlocked(c))

-----------------------------------------------------------------------------
(* Properties.                                                             *)

(* ErrLastOwner: however demotions and removals interleave, the tenant     *)
(* never loses its last owner.                                             *)
AlwaysAnOwner == \E u \in Users : member[u] = "owner"

(* The owners lockOwnersOrdered has counted are owners now, and their rows *)
(* are locked by the transaction that counted them.                        *)
CountIsLocked ==
  \A c \in Calls : \A u \in call[c].counted :
    member[u] = "owner" /\ lock[u] = c

(* Only a request made by an owner makes a member an owner: neither an     *)
(* admin's request nor an invite does.                                     *)
OwnersMadeByOwners ==
  [][\A u \in Users : member[u] # "owner" /\ member'[u] = "owner" =>
       \E c \in Calls : /\ call[c].op = "role" /\ call[c].on = u
                        /\ call[c].as = "owner"
                        /\ call'[c].stage = "ended"]_vars

(* AcceptInvite and RevokeInvite exclude each other and happen once: an    *)
(* invite that was accepted or revoked never changes again.                *)
InvitesCloseOnce ==
  [][\A i \in Invites : invite[i].state \in {"accepted", "revoked"} =>
       invite'[i] = invite[i]]_vars

(* Somebody joins only by an open invite made out to them, with the role   *)
(* it names, and the invite is used up in the same step: a role change of  *)
(* a member removed meanwhile does not bring them back.                    *)
MembersAreInvited ==
  [][\A u \in Users : member[u] = None /\ member'[u] # None =>
       \E i \in Invites : /\ invite[i].state \in {"pending", "expired"}
                          /\ invite'[i].state = "accepted"
                          /\ invite[i].to = u
                          /\ member'[u] = invite[i].role]_vars

(* Every request ends: no lock is leaked and every deadlock is broken.     *)
CallsEnd == \A c \in Calls : call[c].stage # "new" ~> call[c].stage = "ended"

(* A team never loses its last owner, since the owners a transaction counts
   stay locked until it ends (postgres_repository.go lockOwners). *)
TeamSound == TypeOK /\ CountIsLocked /\ AlwaysAnOwner

(* A request has its say once its caller's roles have been read, and wants *)
(* nothing any more when it has ended.                                     *)
HasSay(r) ==
  CASE r.op \in {"role", "remove"} -> r.stage # "rank"
    [] r.op = "accept"             -> r.stage = "grant"
    [] OTHER                       -> TRUE

WishOf(r) ==
  IF r.stage \in {"new", "ended"} \/ (r.op = "accept" /\ ~r.vouched)
  THEN [op |-> None]
  ELSE [op |-> r.op, by |-> r.by, on |-> r.on, role |-> r.role, cleared |-> HasSay(r)]

Promise == INSTANCE Team WITH
  team <- member,
  invites <- invite,
  wish <- [c \in Calls |-> WishOf(call[c])]

(* The owners' locks, the target's and the invite's make every change one  *)
(* step under the rules of that step: an owner is left whom nobody else is *)
(* about to remove, and no invite is used that was revoked meanwhile       *)
(* (lockOwnersOrdered, AcceptInvite, RevokeInvite).                        *)
ChangesAtOnce == Promise!Spec

=============================================================================
