-------------------------- MODULE MembershipProofs --------------------------
(***************************************************************************)
(* Proofs about Membership for every number of users, requests and invites. *)
(***************************************************************************)
EXTENDS Membership, FiniteSetTheorems, TLAPS

(* What a request is made of when it reaches each stage.                   *)
RequestInv ==
  \A c \in Calls :
    /\ call[c].stage \in {"rank", "begin", "owners", "target"} =>
         /\ call[c].on \in Users /\ call[c].op \in {"role", "remove"}
         /\ call[c].op = "role" => call[c].role \in Roles
         /\ call[c].op = "remove" => call[c].role = None
    /\ call[c].stage \in {"begin", "owners", "target"} /\ call[c].role = "owner" =>
         call[c].as = "owner"
    /\ call[c].stage = "insert" =>
         call[c].on \in Users /\ call[c].role \in InvitableRoles
    /\ call[c].stage \in {"seat", "grant", "cancel"} => call[c].on \in Invites

(* Only a transaction that is locking owners has counted any.              *)
CountInv ==
  \A c \in Calls : /\ IsFiniteSet(call[c].counted)
                   /\ call[c].counted # {} => call[c].stage \in {"owners", "target"}
                   /\ call[c].todo # {} => call[c].stage = "owners"

(* The invite an acceptance is about to consume is still open, made out to *)
(* the one who accepts, and locked.                                        *)
SeatInv ==
  \A c \in Calls : call[c].stage = "grant" =>
    LET i == call[c].on
    IN  /\ holder[i] = c
        /\ invite[i].state \in {"pending", "expired"}
        /\ invite[i].to = call[c].by
        /\ invite[i].role \in InvitableRoles

(* Every invite that was ever issued names a role that can be invited.     *)
InviteInv ==
  \A i \in Invites : invite[i].state # "unused" => invite[i].role \in InvitableRoles

Inv == TypeOK /\ RequestInv /\ CountInv /\ CountIsLocked /\ InviteInv /\ SeatInv

-----------------------------------------------------------------------------
LEMMA Records == Idle \in Requests /\ Ended \in Requests
BY DEF Idle, Ended, Request, Requests, Stages, Ops

LEMMA NewRequest ==
  ASSUME NEW stage \in Stages, NEW op \in Ops, NEW by \in Users,
         NEW on \in Users \cup Invites, NEW role \in Roles \cup {None}
  PROVE  Request(stage, op, by, on, role) \in Requests
BY DEF Request, Requests

LEMMA Updated ==
  ASSUME NEW r \in Requests
  PROVE  /\ \A s \in Stages : [r EXCEPT !.stage = s] \in Requests
         /\ \A a \in Roles : [r EXCEPT !.as = a] \in Requests
         /\ \A b \in BOOLEAN : [r EXCEPT !.vouched = b] \in Requests
         /\ \A s \in Stages, us \in SUBSET Users :
              [r EXCEPT !.stage = s, !.todo = us] \in Requests
         /\ \A s \in Stages, us \in SUBSET Users :
              [r EXCEPT !.todo = us, !.stage = s] \in Requests
         /\ \A s \in Stages, us, vs \in SUBSET Users :
              [r EXCEPT !.stage = s, !.todo = us, !.counted = vs] \in Requests
BY DEF Requests

LEMMA TypeStep == TypeOK /\ RequestInv /\ InviteInv /\ [Next]_vars => TypeOK'
<1> SUFFICES ASSUME TypeOK, RequestInv, InviteInv, [Next]_vars PROVE TypeOK'
    OBVIOUS
<1> USE Records DEF TypeOK
<1>1. ASSUME NEW c \in Calls, NEW r \in Requests
      PROVE  [call EXCEPT ![c] = r] \in [Calls -> Requests]
      BY <1>1
<1>2. ASSUME NEW c \in Calls, End(c)
      PROVE  /\ lock' \in [Users -> Calls \cup {Nobody}]
             /\ holder' \in [Invites -> Calls \cup {Nobody}]
             /\ call' \in [Calls -> Requests]
      BY <1>2 DEF End, ReleaseRows, ReleaseInvites
<1>3. ASSUME NEW c \in Calls, Refuse(c) PROVE TypeOK'
      BY <1>2, <1>3 DEF Refuse
<1>4. ASSUME NEW c \in Calls, NEW s \in Stages, Advance(c, s)
      PROVE  call' \in [Calls -> Requests]
  <2>1. [call[c] EXCEPT !.stage = s] \in Requests
        BY Updated
  <2> QED BY <1>1, <1>4, <2>1 DEF Advance
<1>5. ASSUME NEW c \in Calls, NEW op \in {"role", "remove"}, NEW u \in Users,
             NEW t \in Users, NEW r \in Roles \cup {None}, StartManage(c, op, u, t, r)
      PROVE  TypeOK'
  <2>1. member[u] \in Roles
        BY <1>5 DEF StartManage, LiveManager, Managers, Roles
  <2> DEFINE s == IF member[u] = "admin" THEN "rank" ELSE "begin"
  <2>2. Request(s, op, u, t, r) \in Requests
        BY NewRequest DEF Stages, Ops
  <2>3. [Request(s, op, u, t, r) EXCEPT !.as = member[u]] \in Requests
        BY <2>1, <2>2, Updated
  <2>4. call' \in [Calls -> Requests]
        BY <1>1, <1>5, <2>3 DEF StartManage
  <2> QED BY <1>5, <2>4 DEF StartManage
<1>6. ASSUME NEW c \in Calls, Start(c) PROVE TypeOK'
  <2>1. CASE StartUpdateMemberRole(c)
        BY <1>5, <2>1 DEF StartUpdateMemberRole
  <2>2. CASE StartRemoveMember(c)
        BY <1>5, <2>2 DEF StartRemoveMember
  <2>3. CASE StartCreateInvite(c)
    <3>1. PICK u \in Users, t \in Users, r \in InvitableRoles :
            /\ LiveManager(u)
            /\ call' = [call EXCEPT
                 ![c] = [Request("insert", "invite", u, t, r) EXCEPT !.as = member[u]]]
          BY <2>3 DEF StartCreateInvite
    <3>2. member[u] \in Roles
          BY <3>1 DEF LiveManager, Managers, Roles
    <3>3. Request("insert", "invite", u, t, r) \in Requests
          BY NewRequest DEF Stages, Ops, InvitableRoles
    <3>4. call' \in [Calls -> Requests]
          BY <1>1, <3>1, <3>2, <3>3, Updated
    <3> QED BY <2>3, <3>4 DEF StartCreateInvite
  <2>4. CASE StartAcceptInvite(c)
    <3>1. PICK u \in Users, i \in Invites :
            call' = [call EXCEPT
              ![c] = [Request("seat", "accept", u, i, None) EXCEPT
                       !.vouched = LiveManager(invite[i].by)]]
          BY <2>4 DEF StartAcceptInvite
    <3>2. LiveManager(invite[i].by) \in BOOLEAN
          BY DEF LiveManager
    <3>3. Request("seat", "accept", u, i, None) \in Requests
          BY NewRequest DEF Stages, Ops
    <3>4. call' \in [Calls -> Requests]
          BY <1>1, <3>1, <3>2, <3>3, Updated
    <3> QED BY <2>4, <3>4 DEF StartAcceptInvite
  <2>5. CASE StartRevokeInvite(c)
    <3>1. PICK u \in Users, i \in Invites :
            /\ LiveManager(u)
            /\ call' = [call EXCEPT
                 ![c] = [Request("cancel", "revoke", u, i, None) EXCEPT !.as = member[u]]]
          BY <2>5 DEF StartRevokeInvite
    <3>2. member[u] \in Roles
          BY <3>1 DEF LiveManager, Managers, Roles
    <3>3. Request("cancel", "revoke", u, i, None) \in Requests
          BY NewRequest DEF Stages, Ops
    <3>4. call' \in [Calls -> Requests]
          BY <1>1, <3>1, <3>2, <3>3, Updated
    <3> QED BY <2>5, <3>4 DEF StartRevokeInvite
  <2> QED BY <1>6, <2>1, <2>2, <2>3, <2>4, <2>5 DEF Start
<1>7. ASSUME NEW c \in Calls, Proceed(c) PROVE TypeOK'
  <2>1. CASE CheckRank(c)
        BY <1>3, <1>4, <2>1 DEF CheckRank, Stages
  <2>2. CASE BeginManage(c)
    <3> DEFINE owners == {u \in Users : member[u] = "owner"}
               s == IF owners = {} THEN "target" ELSE "owners"
    <3>1. [call[c] EXCEPT !.stage = s, !.todo = owners] \in Requests
          BY Updated DEF Stages
    <3>2. call' \in [Calls -> Requests]
          BY <1>1, <2>2, <3>1 DEF BeginManage
    <3> QED BY <2>2, <3>2 DEF BeginManage
  <2>3. ASSUME NEW u \in Users, LockOwner(c, u) PROVE TypeOK'
    <3> DEFINE s == IF call[c].todo = {u} THEN "target" ELSE "owners"
               left == call[c].todo \ {u}
               count == call[c].counted \cup (IF Counts(u) THEN {u} ELSE {})
    <3>1. /\ call[c].todo \in SUBSET Users
          /\ call[c].counted \in SUBSET Users
          BY DEF Requests
    <3>2. s \in Stages /\ left \in SUBSET Users /\ count \in SUBSET Users
          BY <3>1 DEF Stages
    <3>3. call' = [call EXCEPT ![c] =
            [call[c] EXCEPT !.stage = s, !.todo = left, !.counted = count]]
          BY <2>3 DEF LockOwner, Requests
    <3> HIDE DEF s, left, count
    <3>4. [call[c] EXCEPT !.stage = s, !.todo = left, !.counted = count] \in Requests
          BY <3>2, Updated
    <3>5. call' \in [Calls -> Requests]
          BY <1>1, <3>3, <3>4
    <3> QED BY <2>3, <3>5 DEF LockOwner
  <2>4. ASSUME NEW t \in Users, CommitRole(c, t) PROVE TypeOK'
    <3>1. call[c].role \in Roles \cup {None}
          BY DEF Requests
    <3>2. member' \in [Users -> Roles \cup {None}]
          BY <2>4, <3>1 DEF CommitRole
    <3> QED BY <1>2, <2>4, <3>2 DEF CommitRole
  <2>5. ASSUME NEW t \in Users, CommitRemove(c, t) PROVE TypeOK'
    <3>1. ASSUME NEW d \in Calls PROVE call'[d] \in Requests
      <4> DEFINE left == call[d].todo \ {t}
                 s == IF call[d].stage = "owners" /\ left = {} THEN "target"
                      ELSE call[d].stage
      <4>1. left \in SUBSET Users /\ s \in Stages
            BY DEF Requests, Stages
      <4>2. [call[d] EXCEPT !.todo = left, !.stage = s] \in Requests
            BY <4>1, Updated
      <4> QED BY <2>5, <4>2 DEF CommitRemove
    <3>2. call' \in [Calls -> Requests]
          BY <2>5, <3>1 DEF CommitRemove
    <3> QED BY <2>5, <3>2 DEF CommitRemove, ReleaseRows, ReleaseInvites
  <2>6. ASSUME NEW t \in Users, RefuseManage(c, t) PROVE TypeOK'
        BY <1>3, <2>6 DEF RefuseManage
  <2>7. ASSUME NEW i \in Invites, CreateInvite(c, i) PROVE TypeOK'
    <3>1. /\ call[c].by \in Users \cup {Nobody}
          /\ call[c].on \in Users /\ call[c].role \in InvitableRoles
          BY <2>7 DEF CreateInvite, Requests, RequestInv
    <3>2. invite' \in [Invites -> [state : InviteStates, by : Users \cup {Nobody},
                                   to : Users \cup {Nobody},
                                   role : InvitableRoles \cup {None}]]
          BY <2>7, <3>1 DEF CreateInvite, InviteStates
    <3> QED BY <1>2, <2>7, <3>2 DEF CreateInvite
  <2>8. ASSUME NEW i \in Invites, LockInvite(c, i) PROVE TypeOK'
        BY <1>3, <1>4, <2>8 DEF LockInvite, Stages
  <2>9. ASSUME NEW i \in Invites, NEW u \in Users, GrantSeat(c, i, u) PROVE TypeOK'
    <3>1. CASE member[u] # None
          BY <1>3, <2>9, <3>1 DEF GrantSeat
    <3>2. CASE member[u] = None
      <4>1. member' \in [Users -> Roles \cup {None}]
            BY <2>9, <3>2 DEF GrantSeat, InvitableRoles
      <4>2. invite' \in [Invites -> [state : InviteStates, by : Users \cup {Nobody},
                                     to : Users \cup {Nobody},
                                     role : InvitableRoles \cup {None}]]
            BY <2>9, <3>2 DEF GrantSeat, InviteStates
      <4> QED BY <1>2, <2>9, <3>2, <4>1, <4>2 DEF GrantSeat
    <3> QED BY <3>1, <3>2
  <2>10. ASSUME NEW i \in Invites, RevokeInvite(c, i) PROVE TypeOK'
    <3>1. invite' \in [Invites -> [state : InviteStates, by : Users \cup {Nobody},
                                   to : Users \cup {Nobody},
                                   role : InvitableRoles \cup {None}]]
          BY SMTT(30), <2>10 DEF RevokeInvite, InviteStates
    <3> QED BY <1>2, <2>10, <3>1 DEF RevokeInvite
  <2> QED BY <1>7, <2>1, <2>2, <2>3, <2>4, <2>5, <2>6, <2>7, <2>8, <2>9, <2>10
          DEF Proceed
<1>8. ASSUME NEW c \in Calls, Fail(c) \/ AbortDeadlocked(c) PROVE TypeOK'
      BY <1>3, <1>8 DEF Fail, AbortDeadlocked
<1>9. ASSUME NEW i \in Invites, Expire(i) PROVE TypeOK'
      BY <1>9 DEF Expire, InviteStates
<1>10. ASSUME NEW u \in Users, DeleteAccount(u) PROVE TypeOK'
      BY <1>10 DEF DeleteAccount
<1>11. CASE UNCHANGED vars
      BY <1>11 DEF vars
<1> QED BY <1>6, <1>7, <1>8, <1>9, <1>10, <1>11 DEF Next

-----------------------------------------------------------------------------
(* How one step moves a request d: it stays, it starts, it moves on, a     *)
(* deletion shortens its snapshot, or it ends.                             *)
LEMMA RequestStep ==
  TypeOK /\ RequestInv /\ [Next]_vars => RequestInv'
<1> SUFFICES ASSUME TypeOK, RequestInv, [Next]_vars PROVE RequestInv'
    OBVIOUS
<1> USE DEF TypeOK, RequestInv
<1>1. ASSUME NEW c \in Calls, call' = [call EXCEPT ![c] = Ended] PROVE RequestInv'
      BY <1>1 DEF Ended, Request
<1>2. ASSUME NEW c \in Calls, Refuse(c) PROVE RequestInv'
      BY <1>1, <1>2 DEF Refuse, End
<1>3. ASSUME NEW c \in Calls, NEW op \in {"role", "remove"}, NEW u \in Users,
             NEW t \in Users, NEW r \in Roles \cup {None}, op = "role" => r \in Roles,
             op = "remove" => r = None, StartManage(c, op, u, t, r)
      PROVE  RequestInv'
  <2> DEFINE s == IF member[u] = "admin" THEN "rank" ELSE "begin"
  <2>1. member[u] \in {"owner", "admin"}
        BY <1>3 DEF StartManage, LiveManager, Managers
  <2>2. call' = [call EXCEPT ![c] = [Request(s, op, u, t, r) EXCEPT !.as = member[u]]]
        BY <1>3 DEF StartManage
  <2> QED BY <1>3, <2>1, <2>2 DEF Request
<1>4. ASSUME NEW c \in Calls, Start(c) PROVE RequestInv'
  <2>1. CASE StartUpdateMemberRole(c)
        BY <1>3, <2>1 DEF StartUpdateMemberRole
  <2>2. CASE StartRemoveMember(c)
        BY <1>3, <2>2 DEF StartRemoveMember
  <2>3. CASE StartCreateInvite(c)
        BY <2>3 DEF StartCreateInvite, Request
  <2>4. CASE StartAcceptInvite(c)
        BY <2>4 DEF StartAcceptInvite, Request
  <2>5. CASE StartRevokeInvite(c)
        BY <2>5 DEF StartRevokeInvite, Request
  <2> QED BY <1>4, <2>1, <2>2, <2>3, <2>4, <2>5 DEF Start
<1>5. ASSUME NEW c \in Calls, Proceed(c) PROVE RequestInv'
  <2>1. CASE CheckRank(c)
    <3>1. CASE MayTouch(c)
      <4>1. call' = [call EXCEPT ![c] = [call[c] EXCEPT !.stage = "begin"]]
            BY <2>1, <3>1 DEF CheckRank, Advance
      <4>2. call[c].stage = "rank" /\ call[c].role # "owner"
            BY <2>1, <3>1 DEF CheckRank, MayTouch
      <4> QED BY <4>1, <4>2 DEF Requests
    <3>2. CASE ~MayTouch(c)
          BY <1>2, <2>1, <3>2 DEF CheckRank
    <3> QED BY <3>1, <3>2
  <2>2. CASE BeginManage(c)
        BY <2>2 DEF BeginManage
  <2>3. ASSUME NEW u \in Users, LockOwner(c, u) PROVE RequestInv'
        BY <2>3 DEF LockOwner
  <2>4. ASSUME NEW t \in Users, CommitRole(c, t) PROVE RequestInv'
        BY <1>1, <2>4 DEF CommitRole, End
  <2>5. ASSUME NEW t \in Users, CommitRemove(c, t) PROVE RequestInv'
    <3>1. ASSUME NEW d \in Calls
          PROVE  \/ call'[d] = Ended
                 \/ /\ call'[d].stage \in {call[d].stage} \cup
                         (IF call[d].stage = "owners" THEN {"target"} ELSE {})
                    /\ call'[d].on = call[d].on /\ call'[d].op = call[d].op
                    /\ call'[d].role = call[d].role /\ call'[d].as = call[d].as
          BY ZenonT(40), <2>5 DEF CommitRemove, Requests
    <3> QED BY <3>1 DEF Ended, Request
  <2>6. ASSUME NEW t \in Users, RefuseManage(c, t) PROVE RequestInv'
        BY <1>2, <2>6 DEF RefuseManage
  <2>7. ASSUME NEW i \in Invites, CreateInvite(c, i) PROVE RequestInv'
        BY <1>1, <2>7 DEF CreateInvite, End
  <2>8. ASSUME NEW i \in Invites, LockInvite(c, i) PROVE RequestInv'
    <3>1. CASE Acceptable(c, i)
      <4>1. call' = [call EXCEPT ![c] = [call[c] EXCEPT !.stage = "grant"]]
            BY <2>8, <3>1 DEF LockInvite, Advance
      <4>2. call[c].stage = "seat"
            BY <2>8 DEF LockInvite
      <4> QED BY <4>1, <4>2 DEF Requests
    <3>2. CASE ~Acceptable(c, i)
          BY <1>2, <2>8, <3>2 DEF LockInvite
    <3> QED BY <3>1, <3>2
  <2>9. ASSUME NEW i \in Invites, NEW u \in Users, GrantSeat(c, i, u) PROVE RequestInv'
        BY <1>1, <1>2, <2>9 DEF GrantSeat, End
  <2>10. ASSUME NEW i \in Invites, RevokeInvite(c, i) PROVE RequestInv'
        BY <1>1, <2>10 DEF RevokeInvite, End
  <2> QED BY <1>5, <2>1, <2>2, <2>3, <2>4, <2>5, <2>6, <2>7, <2>8, <2>9, <2>10
          DEF Proceed
<1>6. ASSUME NEW c \in Calls, Fail(c) \/ AbortDeadlocked(c) PROVE RequestInv'
      BY <1>2, <1>6 DEF Fail, AbortDeadlocked
<1>7. CASE UNCHANGED call
      BY <1>7
<1> QED BY <1>4, <1>5, <1>6, <1>7 DEF Next, Expire, DeleteAccount, vars

-----------------------------------------------------------------------------
(* What the requests of a step have counted and have left to lock.         *)
Kept(d) == /\ call'[d].counted = call[d].counted
           /\ call'[d].todo = call[d].todo
           /\ call'[d].stage = call[d].stage \/ call[d].stage \notin {"owners", "target"}

Cleared(d) == call'[d].counted = {} /\ call'[d].todo = {}

LEMMA CountMoves ==
  TypeOK /\ CountInv /\ [Next]_vars =>
    \A d \in Calls :
      \/ Kept(d)
      \/ Cleared(d)
      \/ BeginManage(d)
      \/ \E u \in Users : LockOwner(d, u)
      \/ \E c \in Calls, t \in Users :
           /\ CommitRemove(c, t) /\ c # d
           /\ call'[d].counted = call[d].counted
           /\ call'[d].todo = call[d].todo \ {t}
           /\ call'[d].stage = IF call[d].stage = "owners" /\ call'[d].todo = {}
                               THEN "target" ELSE call[d].stage
<1> SUFFICES ASSUME TypeOK, CountInv, [Next]_vars, NEW d \in Calls
             PROVE  \/ Kept(d) \/ Cleared(d) \/ BeginManage(d)
                    \/ \E u \in Users : LockOwner(d, u)
                    \/ \E c \in Calls, t \in Users :
                         /\ CommitRemove(c, t) /\ c # d
                         /\ call'[d].counted = call[d].counted
                         /\ call'[d].todo = call[d].todo \ {t}
                         /\ call'[d].stage =
                              IF call[d].stage = "owners" /\ call'[d].todo = {}
                              THEN "target" ELSE call[d].stage
    OBVIOUS
<1> USE DEF TypeOK
<1>1. ASSUME NEW c \in Calls, call' = [call EXCEPT ![c] = Ended]
      PROVE  Kept(d) \/ Cleared(d)
      BY <1>1 DEF Ended, Request, Kept, Cleared
<1>2. ASSUME NEW c \in Calls, Refuse(c) PROVE Kept(d) \/ Cleared(d)
      BY <1>1, <1>2 DEF Refuse, End
<1>3. ASSUME NEW c \in Calls, Start(c) PROVE Kept(d) \/ Cleared(d)
  <2>1. ASSUME d # c PROVE call'[d] = call[d]
        BY <1>3, <2>1 DEF Start, StartUpdateMemberRole, StartRemoveMember, StartManage,
                          StartCreateInvite, StartAcceptInvite, StartRevokeInvite
  <2> DEFINE Blank == call'[c].counted = {} /\ call'[c].todo = {}
  <2>2. ASSUME NEW op \in Ops, NEW u \in Users, NEW t \in Users,
               NEW r \in Roles \cup {None}, StartManage(c, op, u, t, r)
        PROVE  Blank
        BY <2>2 DEF StartManage, Request
  <2>3. ASSUME StartUpdateMemberRole(c) PROVE Blank
        BY <2>2, <2>3 DEF StartUpdateMemberRole, Ops
  <2>4. ASSUME StartRemoveMember(c) PROVE Blank
        BY <2>2, <2>4 DEF StartRemoveMember, Ops
  <2>5. ASSUME StartCreateInvite(c) PROVE Blank
        BY <2>5 DEF StartCreateInvite, Request
  <2>6. ASSUME StartAcceptInvite(c) PROVE Blank
        BY <2>6 DEF StartAcceptInvite, Request
  <2>7. ASSUME StartRevokeInvite(c) PROVE Blank
        BY <2>7 DEF StartRevokeInvite, Request
  <2>8. Blank
        BY <1>3, <2>3, <2>4, <2>5, <2>6, <2>7 DEF Start
  <2> QED BY <2>1, <2>8 DEF Kept, Cleared
<1>4. ASSUME NEW c \in Calls, NEW s \in Stages, Advance(c, s),
             call[c].stage \notin {"owners", "target"}
      PROVE  Kept(d)
      BY <1>4 DEF Advance, Kept, Requests
<1>5. ASSUME NEW c \in Calls, Proceed(c)
      PROVE  \/ Kept(d) \/ Cleared(d) \/ BeginManage(d)
             \/ \E u \in Users : LockOwner(d, u)
             \/ \E t \in Users :
                  /\ CommitRemove(c, t) /\ c # d
                  /\ call'[d].counted = call[d].counted
                  /\ call'[d].todo = call[d].todo \ {t}
                  /\ call'[d].stage =
                       IF call[d].stage = "owners" /\ call'[d].todo = {}
                       THEN "target" ELSE call[d].stage
  <2>1. CASE CheckRank(c)
        BY <1>2, <1>4, <2>1 DEF CheckRank, Stages
  <2>2. CASE BeginManage(c)
    <3>1. CASE d = c
          BY <2>2, <3>1
    <3>2. CASE d # c
          BY <2>2, <3>2 DEF BeginManage, Kept
    <3> QED BY <3>1, <3>2
  <2>3. ASSUME NEW u \in Users, LockOwner(c, u)
        PROVE  Kept(d) \/ \E v \in Users : LockOwner(d, v)
    <3>1. CASE d = c
          BY <2>3, <3>1
    <3>2. CASE d # c
          BY <2>3, <3>2 DEF LockOwner, Kept
    <3> QED BY <3>1, <3>2
  <2>4. ASSUME NEW t \in Users, CommitRole(c, t) PROVE Kept(d) \/ Cleared(d)
        BY <1>1, <2>4 DEF CommitRole, End
  <2>5. ASSUME NEW t \in Users, CommitRemove(c, t)
        PROVE  \/ Cleared(d)
               \/ /\ c # d
                  /\ call'[d].counted = call[d].counted
                  /\ call'[d].todo = call[d].todo \ {t}
                  /\ call'[d].stage =
                       IF call[d].stage = "owners" /\ call'[d].todo = {}
                       THEN "target" ELSE call[d].stage
    <3>1. CASE d = c
          BY <2>5, <3>1 DEF CommitRemove, Cleared, Ended, Request
    <3>2. CASE d # c
      <4>1. call[d] \in Requests
            OBVIOUS
      <4>2. call'[d] = [call[d] EXCEPT
              !.todo = call[d].todo \ {t},
              !.stage = IF call[d].stage = "owners" /\ call[d].todo \ {t} = {}
                        THEN "target" ELSE call[d].stage]
            BY <2>5, <3>2 DEF CommitRemove
      <4> QED BY <3>2, <4>1, <4>2 DEF Requests
    <3> QED BY <3>1, <3>2
  <2>6. ASSUME NEW t \in Users, RefuseManage(c, t) PROVE Kept(d) \/ Cleared(d)
        BY <1>2, <2>6 DEF RefuseManage
  <2>7. ASSUME NEW i \in Invites, CreateInvite(c, i) PROVE Kept(d) \/ Cleared(d)
        BY <1>1, <2>7 DEF CreateInvite, End
  <2>8. ASSUME NEW i \in Invites, LockInvite(c, i) PROVE Kept(d) \/ Cleared(d)
        BY <1>2, <1>4, <2>8 DEF LockInvite, Stages
  <2>9. ASSUME NEW i \in Invites, NEW u \in Users, GrantSeat(c, i, u)
        PROVE  Kept(d) \/ Cleared(d)
        BY <1>1, <1>2, <2>9 DEF GrantSeat, End
  <2>10. ASSUME NEW i \in Invites, RevokeInvite(c, i) PROVE Kept(d) \/ Cleared(d)
        BY <1>1, <2>10 DEF RevokeInvite, End
  <2> QED BY <1>5, <2>1, <2>2, <2>3, <2>4, <2>5, <2>6, <2>7, <2>8, <2>9, <2>10
          DEF Proceed
<1>6. ASSUME NEW c \in Calls, Fail(c) \/ AbortDeadlocked(c)
      PROVE  Kept(d) \/ Cleared(d)
      BY <1>2, <1>6 DEF Fail, AbortDeadlocked
<1>7. ASSUME UNCHANGED call PROVE Kept(d)
      BY <1>7 DEF Kept
<1> QED BY <1>3, <1>5, <1>6, <1>7 DEF Next, Expire, DeleteAccount, vars

LEMMA CountStep == TypeOK /\ CountInv /\ [Next]_vars => CountInv'
<1> SUFFICES ASSUME TypeOK, CountInv, [Next]_vars, NEW d \in Calls
             PROVE  /\ IsFiniteSet(call'[d].counted)
                    /\ call'[d].counted # {} => call'[d].stage \in {"owners", "target"}
                    /\ call'[d].todo # {} => call'[d].stage = "owners"
    BY DEF CountInv
<1> DEFINE Good == /\ IsFiniteSet(call'[d].counted)
                   /\ call'[d].counted # {} => call'[d].stage \in {"owners", "target"}
                   /\ call'[d].todo # {} => call'[d].stage = "owners"
<1>1. CASE Kept(d)
      BY <1>1 DEF Kept, CountInv
<1>2. CASE Cleared(d)
      BY <1>2, FS_EmptySet DEF Cleared
<1>3. CASE BeginManage(d)
  <2>1. call[d] \in Requests
        BY DEF TypeOK
  <2>2. PICK owners \in SUBSET Users :
          call'[d] = [call[d] EXCEPT
            !.stage = IF owners = {} THEN "target" ELSE "owners", !.todo = owners]
        BY <1>3 DEF BeginManage, TypeOK
  <2> QED BY <2>1, <2>2 DEF Requests, CountInv
<1>4. ASSUME NEW u \in Users, LockOwner(d, u) PROVE Good
  <2> DEFINE new == IF Counts(u) THEN {u} ELSE {}
  <2>1. call[d] \in Requests
        BY DEF TypeOK
  <2>2. call'[d] = [call[d] EXCEPT
          !.stage = IF call[d].todo = {u} THEN "target" ELSE "owners",
          !.todo = call[d].todo \ {u}, !.counted = call[d].counted \cup new]
        BY <1>4 DEF LockOwner, TypeOK
  <2>3. IsFiniteSet(new)
        BY FS_EmptySet, FS_Singleton
  <2>4. IsFiniteSet(call[d].counted \cup new)
        BY <2>3, FS_Union DEF CountInv
  <2> QED BY <2>1, <2>2, <2>4 DEF Requests
<1>5. ASSUME NEW c \in Calls, NEW t \in Users, CommitRemove(c, t),
             call'[d].counted = call[d].counted, call'[d].todo = call[d].todo \ {t},
             call'[d].stage = IF call[d].stage = "owners" /\ call'[d].todo = {}
                              THEN "target" ELSE call[d].stage
      PROVE  Good
      BY <1>5 DEF CountInv
<1> QED BY <1>1, <1>2, <1>3, <1>4, <1>5, CountMoves

-----------------------------------------------------------------------------
(* Who changes a membership, and who gives and takes its lock.             *)
Leaves(c) == call'[c] = Ended

GivesUp(c, u) == lock[u] = c /\ Leaves(c)

LEMMA RowMoves ==
  TypeOK /\ [Next]_vars =>
    \A u \in Users :
      /\ \/ member'[u] = member[u]
         \/ \E c \in Calls : CommitRole(c, u) \/ CommitRemove(c, u)
         \/ \E c \in Calls, i \in Invites : GrantSeat(c, i, u) /\ member[u] = None
      /\ \/ lock'[u] = lock[u]
         \/ \E c \in Calls : GivesUp(c, u)
         \/ \E c \in Calls : LockOwner(c, u)
<1> SUFFICES ASSUME TypeOK, [Next]_vars, NEW u \in Users
             PROVE  /\ \/ member'[u] = member[u]
                       \/ \E c \in Calls : CommitRole(c, u) \/ CommitRemove(c, u)
                       \/ \E c \in Calls, i \in Invites :
                            GrantSeat(c, i, u) /\ member[u] = None
                    /\ \/ lock'[u] = lock[u]
                       \/ \E c \in Calls : GivesUp(c, u)
                       \/ \E c \in Calls : LockOwner(c, u)
    OBVIOUS
<1> USE DEF TypeOK
<1>1. ASSUME NEW c \in Calls, End(c)
      PROVE  lock'[u] = lock[u] \/ GivesUp(c, u)
      BY <1>1 DEF End, ReleaseRows, Leaves, GivesUp
<1>2. ASSUME NEW c \in Calls, Refuse(c)
      PROVE  member' = member /\ (lock'[u] = lock[u] \/ GivesUp(c, u))
      BY <1>1, <1>2 DEF Refuse
<1>3. ASSUME NEW c \in Calls, Start(c) PROVE UNCHANGED <<member, lock>>
      BY <1>3 DEF Start, StartUpdateMemberRole, StartRemoveMember, StartManage,
                  StartCreateInvite, StartAcceptInvite, StartRevokeInvite
<1>4. ASSUME NEW c \in Calls, Proceed(c)
      PROVE  /\ \/ member'[u] = member[u]
                \/ CommitRole(c, u) \/ CommitRemove(c, u)
                \/ \E i \in Invites : GrantSeat(c, i, u) /\ member[u] = None
             /\ \/ lock'[u] = lock[u]
                \/ GivesUp(c, u)
                \/ LockOwner(c, u)
  <2>1. CASE CheckRank(c)
        BY <1>2, <2>1 DEF CheckRank
  <2>2. CASE BeginManage(c)
        BY <2>2 DEF BeginManage
  <2>3. ASSUME NEW v \in Users, LockOwner(c, v)
        PROVE  member' = member /\ (lock'[u] = lock[u] \/ LockOwner(c, u))
        BY <2>3 DEF LockOwner
  <2>4. ASSUME NEW t \in Users, CommitRole(c, t)
        PROVE  /\ member'[u] = member[u] \/ CommitRole(c, u)
               /\ lock'[u] = lock[u] \/ GivesUp(c, u)
    <3>1. member'[u] = member[u] \/ t = u
          BY <2>4 DEF CommitRole
    <3> QED BY <1>1, <2>4, <3>1 DEF CommitRole
  <2>5. ASSUME NEW t \in Users, CommitRemove(c, t)
        PROVE  /\ member'[u] = member[u] \/ CommitRemove(c, u)
               /\ lock'[u] = lock[u] \/ GivesUp(c, u)
    <3>1. member'[u] = member[u] \/ t = u
          BY <2>5 DEF CommitRemove
    <3>2. lock'[u] = lock[u] \/ GivesUp(c, u)
          BY <2>5 DEF CommitRemove, ReleaseRows, Leaves, GivesUp
    <3> QED BY <2>5, <3>1, <3>2
  <2>6. ASSUME NEW t \in Users, RefuseManage(c, t)
        PROVE  member' = member /\ (lock'[u] = lock[u] \/ GivesUp(c, u))
        BY <1>2, <2>6 DEF RefuseManage
  <2>7. ASSUME NEW i \in Invites, CreateInvite(c, i) \/ RevokeInvite(c, i)
        PROVE  member' = member /\ (lock'[u] = lock[u] \/ GivesUp(c, u))
        BY <1>1, <2>7 DEF CreateInvite, RevokeInvite
  <2>8. ASSUME NEW i \in Invites, LockInvite(c, i)
        PROVE  member' = member /\ (lock'[u] = lock[u] \/ GivesUp(c, u))
    <3>1. Refuse(c) \/ UNCHANGED <<member, lock>>
          BY <2>8 DEF LockInvite
    <3> QED BY <1>2, <3>1
  <2>9. ASSUME NEW i \in Invites, NEW v \in Users, GrantSeat(c, i, v)
        PROVE  /\ member'[u] = member[u] \/ (GrantSeat(c, i, u) /\ member[u] = None)
               /\ lock'[u] = lock[u] \/ GivesUp(c, u)
    <3>1. \/ Refuse(c)
          \/ /\ member[v] = None /\ End(c)
             /\ member' = [member EXCEPT ![v] = invite[i].role]
          BY <2>9 DEF GrantSeat
    <3>2. member'[u] = member[u] \/ (v = u /\ member[u] = None)
          BY <1>2, <3>1
    <3>3. lock'[u] = lock[u] \/ GivesUp(c, u)
          BY <1>1, <1>2, <3>1
    <3> QED BY <2>9, <3>2, <3>3
  <2> QED BY <1>4, <2>1, <2>2, <2>3, <2>4, <2>5, <2>6, <2>7, <2>8, <2>9
          DEF Proceed
<1>5. ASSUME NEW c \in Calls, Fail(c) \/ AbortDeadlocked(c)
      PROVE  member' = member /\ (lock'[u] = lock[u] \/ GivesUp(c, u))
      BY <1>2, <1>5 DEF Fail, AbortDeadlocked
<1>6. ASSUME UNCHANGED <<member, lock>>
      PROVE  member'[u] = member[u] /\ lock'[u] = lock[u]
      BY <1>6
<1> QED BY <1>3, <1>4, <1>5, <1>6 DEF Next, Expire, DeleteAccount, vars

LEMMA Departed ==
  ASSUME TypeOK, NEW c \in Calls, Leaves(c)
  PROVE  call'[c].counted = {} /\ call'[c].stage = "ended"
BY DEF Leaves, Ended, Request

LEMMA CommitsLeave ==
  ASSUME TypeOK, NEW c \in Calls, NEW t \in Users, CommitRole(c, t) \/ CommitRemove(c, t)
  PROVE  Leaves(c) /\ Free(c, t) /\ member[t] # None /\ ~LastOwner(c) /\ call[c].on = t
<1>1. CASE CommitRole(c, t)
      BY <1>1 DEF CommitRole, WriteMember, End, Leaves, TypeOK
<1>2. CASE CommitRemove(c, t)
      BY <1>2 DEF CommitRemove, WriteMember, Leaves, TypeOK
<1> QED BY <1>1, <1>2

(* An owner that was counted cannot be changed by anybody but the          *)
(* transaction that counted it, and that one ends with the change.         *)
LEMMA LockedStep ==
  TypeOK /\ CountInv /\ CountIsLocked /\ [Next]_vars => CountIsLocked'
<1> SUFFICES ASSUME TypeOK, CountInv, CountIsLocked, [Next]_vars,
                    NEW d \in Calls, NEW u \in call'[d].counted
             PROVE  member'[u] = "owner" /\ lock'[u] = d
    BY DEF CountIsLocked
<1> DEFINE New == u \in Users /\ LockOwner(d, u) /\ Counts(u)
<1>1. ~Leaves(d)
      BY Departed
<1>2. u \in call[d].counted \/ New
  <2>1. CASE Kept(d)
        BY <2>1 DEF Kept
  <2>2. CASE Cleared(d)
        BY <2>2 DEF Cleared
  <2>3. CASE BeginManage(d)
    <3>1. PICK s \in Stages, us \in SUBSET Users :
            call'[d] = [call[d] EXCEPT !.stage = s, !.todo = us]
          BY <2>3 DEF BeginManage, TypeOK, Stages
    <3> QED BY <3>1 DEF TypeOK, Requests
  <2>4. ASSUME NEW v \in Users, LockOwner(d, v) PROVE u \in call[d].counted \/ New
    <3>1. PICK s \in Stages, us \in SUBSET Users :
            call'[d] = [call[d] EXCEPT !.stage = s, !.todo = us,
              !.counted = call[d].counted \cup (IF Counts(v) THEN {v} ELSE {})]
          BY <2>4 DEF LockOwner, TypeOK, Stages, Requests
    <3>2. call'[d].counted = call[d].counted \cup (IF Counts(v) THEN {v} ELSE {})
          BY <3>1 DEF TypeOK, Requests
    <3> QED BY <2>4, <3>2
  <2> QED BY <2>1, <2>2, <2>3, <2>4, CountMoves
<1>3. CASE New
      BY <1>3 DEF LockOwner, Counts, TypeOK, Requests
<1>4. CASE u \in call[d].counted
  <2>1. u \in Users /\ d # Nobody /\ member[u] = "owner" /\ lock[u] = d
        BY <1>4, NobodyIsNobody DEF CountIsLocked, TypeOK, Requests
  <2>2. member'[u] = member[u]
    <3>1. ASSUME NEW c \in Calls, CommitRole(c, u) \/ CommitRemove(c, u) PROVE FALSE
      <4>1. c = d
            BY <2>1, <3>1, CommitsLeave DEF Free
      <4> QED BY <1>1, <2>1, <3>1, <4>1, CommitsLeave
    <3> QED BY <2>1, <3>1, RowMoves DEF None
  <2>3. lock'[u] = d
    <3>1. ASSUME NEW c \in Calls, GivesUp(c, u) PROVE FALSE
          BY <1>1, <2>1, <3>1 DEF GivesUp
    <3>2. ASSUME NEW c \in Calls, LockOwner(c, u) PROVE lock'[u] = d
          BY <2>1, <3>2 DEF LockOwner, Free, TypeOK
    <3> QED BY <2>1, <3>1, <3>2, RowMoves
  <2> QED BY <2>1, <2>2, <2>3
<1> QED BY <1>2, <1>3, <1>4

(* The transaction that takes the owner role from a member has locked      *)
(* another owner.                                                          *)
LEMMA OwnerStep ==
  /\ TypeOK /\ RequestInv /\ CountInv /\ CountIsLocked /\ AlwaysAnOwner
  /\ [Next]_vars
  => AlwaysAnOwner'
<1> SUFFICES ASSUME TypeOK, RequestInv, CountInv, CountIsLocked, [Next]_vars,
                    NEW o \in Users, member[o] = "owner", member'[o] # "owner"
             PROVE  \E u \in Users : member'[u] = "owner"
    BY DEF AlwaysAnOwner
<1>1. PICK c \in Calls : CommitRole(c, o) \/ CommitRemove(c, o)
      BY RowMoves DEF None
<1>2. call[c].on = o /\ ~LastOwner(c)
      BY <1>1, CommitsLeave
<1>3. call[c].role # "owner"
  <2>1. CASE CommitRole(c, o)
        BY <2>1 DEF CommitRole, TypeOK
  <2>2. CASE CommitRemove(c, o)
        BY <2>2 DEF CommitRemove, WriteMember, RequestInv, None
  <2> QED BY <1>1, <2>1, <2>2
<1>4. ~(Cardinality(call[c].counted) <= 1)
      BY <1>2, <1>3 DEF LastOwner, TakesOwnerRole
<1>5. PICK u \in call[c].counted : u # o
  <2> SUFFICES ASSUME call[c].counted \subseteq {o} PROVE FALSE
      OBVIOUS
  <2>1. IsFiniteSet({o}) /\ Cardinality({o}) = 1
        BY FS_Singleton
  <2>2. Cardinality(call[c].counted) <= Cardinality({o})
        BY <2>1, FS_Subset
  <2> QED BY <1>4, <2>1, <2>2
<1>6. u \in Users /\ member[u] = "owner"
      BY <1>5 DEF CountIsLocked, TypeOK, Requests
<1>7. member'[u] = member[u]
  <2>1. CASE CommitRole(c, o)
        BY <1>5, <1>6, <2>1 DEF CommitRole, TypeOK
  <2>2. CASE CommitRemove(c, o)
        BY <1>5, <1>6, <2>2 DEF CommitRemove, TypeOK
  <2> QED BY <1>1, <2>1, <2>2
<1> QED BY <1>6, <1>7

-----------------------------------------------------------------------------
(* Who changes an invite, and who gives and takes its lock.                *)
LEMMA InviteMoves ==
  TypeOK /\ [Next]_vars =>
    \A i \in Invites :
      /\ \/ invite'[i] = invite[i]
         \/ Expire(i)
         \/ \E c \in Calls : CreateInvite(c, i) \/ RevokeInvite(c, i)
         \/ \E c \in Calls, u \in Users : GrantSeat(c, i, u)
      /\ \/ holder'[i] = holder[i]
         \/ \E c \in Calls : holder[i] = c /\ Leaves(c)
         \/ \E c \in Calls : LockInvite(c, i) /\ holder[i] = Nobody /\ holder'[i] = c
<1> SUFFICES ASSUME TypeOK, [Next]_vars, NEW i \in Invites
             PROVE  /\ \/ invite'[i] = invite[i]
                       \/ Expire(i)
                       \/ \E c \in Calls : CreateInvite(c, i) \/ RevokeInvite(c, i)
                       \/ \E c \in Calls, u \in Users : GrantSeat(c, i, u)
                    /\ \/ holder'[i] = holder[i]
                       \/ \E c \in Calls : holder[i] = c /\ Leaves(c)
                       \/ \E c \in Calls :
                            LockInvite(c, i) /\ holder[i] = Nobody /\ holder'[i] = c
    OBVIOUS
<1> USE DEF TypeOK
<1> DEFINE Same(c) == holder'[i] = holder[i] \/ (holder[i] = c /\ Leaves(c))
<1>1. ASSUME NEW c \in Calls, End(c) PROVE Same(c)
      BY <1>1 DEF End, ReleaseInvites, Leaves
<1>2. ASSUME NEW c \in Calls, Refuse(c) PROVE invite' = invite /\ Same(c)
  <2>1. End(c) /\ invite' = invite
        BY <1>2 DEF Refuse
  <2> QED BY <1>1, <2>1
<1>3. ASSUME NEW c \in Calls, Start(c) PROVE UNCHANGED <<invite, holder>>
      BY <1>3 DEF Start, StartUpdateMemberRole, StartRemoveMember, StartManage,
                  StartCreateInvite, StartAcceptInvite, StartRevokeInvite
<1>4. ASSUME NEW c \in Calls, Proceed(c)
      PROVE  /\ \/ invite'[i] = invite[i]
                \/ CreateInvite(c, i) \/ RevokeInvite(c, i)
                \/ \E u \in Users : GrantSeat(c, i, u)
             /\ \/ Same(c)
                \/ LockInvite(c, i) /\ holder[i] = Nobody /\ holder'[i] = c
  <2> HIDE DEF Same
  <2>1. CASE CheckRank(c)
    <3>1. Refuse(c) \/ UNCHANGED <<invite, holder>>
          BY <2>1 DEF CheckRank
    <3> QED BY <1>2, <3>1 DEF Same
  <2>2. CASE BeginManage(c) \/ \E u \in Users : LockOwner(c, u)
    <3>1. UNCHANGED <<invite, holder>>
          BY <2>2 DEF BeginManage, LockOwner
    <3> QED BY <3>1 DEF Same
  <2>3. ASSUME NEW t \in Users, CommitRole(c, t) PROVE invite' = invite /\ Same(c)
        BY <1>1, <2>3 DEF CommitRole
  <2>4. ASSUME NEW t \in Users, CommitRemove(c, t) PROVE invite' = invite /\ Same(c)
        BY <2>4 DEF CommitRemove, ReleaseInvites, Leaves, Same
  <2>5. ASSUME NEW t \in Users, RefuseManage(c, t) PROVE invite' = invite /\ Same(c)
        BY <1>2, <2>5 DEF RefuseManage
  <2>6. ASSUME NEW j \in Invites, CreateInvite(c, j)
        PROVE  (invite'[i] = invite[i] \/ CreateInvite(c, i)) /\ Same(c)
    <3>1. invite'[i] = invite[i] \/ j = i
          BY <2>6 DEF CreateInvite
    <3>2. End(c)
          BY <2>6 DEF CreateInvite
    <3> QED BY <1>1, <2>6, <3>1, <3>2
  <2>7. ASSUME NEW j \in Invites, RevokeInvite(c, j)
        PROVE  (invite'[i] = invite[i] \/ RevokeInvite(c, i)) /\ Same(c)
    <3>1. invite'[i] = invite[i] \/ j = i
          BY <2>7 DEF RevokeInvite
    <3>2. End(c)
          BY <2>7 DEF RevokeInvite
    <3> QED BY <1>1, <2>7, <3>1, <3>2
  <2>8. ASSUME NEW j \in Invites, LockInvite(c, j)
        PROVE  /\ invite' = invite
               /\ \/ Same(c)
                  \/ LockInvite(c, i) /\ holder[i] = Nobody /\ holder'[i] = c
    <3>1. \/ Refuse(c)
          \/ /\ holder[j] = Nobody /\ holder' = [holder EXCEPT ![j] = c]
             /\ UNCHANGED invite
          BY <2>8 DEF LockInvite
    <3>2. CASE Refuse(c)
          BY <1>2, <3>2
    <3>3. CASE /\ holder[j] = Nobody /\ holder' = [holder EXCEPT ![j] = c]
               /\ UNCHANGED invite
      <4>1. CASE i = j
            BY <2>8, <3>3, <4>1
      <4>2. CASE i # j
            BY <3>3, <4>2 DEF Same
      <4> QED BY <4>1, <4>2
    <3> QED BY <3>1, <3>2, <3>3
  <2>9. ASSUME NEW j \in Invites, NEW u \in Users, GrantSeat(c, j, u)
        PROVE  (invite'[i] = invite[i] \/ GrantSeat(c, i, u)) /\ Same(c)
    <3>1. \/ Refuse(c)
          \/ End(c) /\ invite' = [invite EXCEPT ![j].state = "accepted"]
          BY <2>9 DEF GrantSeat
    <3>2. invite'[i] = invite[i] \/ j = i
          BY <1>2, <3>1
    <3>3. Same(c)
          BY <1>1, <1>2, <3>1
    <3> QED BY <2>9, <3>2, <3>3
  <2> QED BY <1>4, <2>1, <2>2, <2>3, <2>4, <2>5, <2>6, <2>7, <2>8, <2>9
          DEF Proceed
<1>5. ASSUME NEW c \in Calls, Fail(c) \/ AbortDeadlocked(c)
      PROVE  invite' = invite /\ Same(c)
  <2>1. Refuse(c)
        BY <1>5 DEF Fail, AbortDeadlocked
  <2> QED BY <1>2, <2>1
<1>6. ASSUME NEW j \in Invites, Expire(j)
      PROVE  (invite'[i] = invite[i] \/ Expire(i)) /\ holder' = holder
      BY <1>6 DEF Expire
<1>7. ASSUME UNCHANGED <<invite, holder>>
      PROVE  invite'[i] = invite[i] /\ holder'[i] = holder[i]
      BY <1>7
<1> QED BY <1>3, <1>4, <1>5, <1>6, <1>7 DEF Next, DeleteAccount, vars

(* An invite that changes was not closed, or was never issued.             *)
LEMMA OpenInvitesChange ==
  TypeOK /\ SeatInv /\ InviteInv /\ RequestInv /\ [Next]_vars =>
    \A i \in Invites : invite'[i] # invite[i] =>
      \/ /\ invite[i].state = "unused"
         /\ invite'[i].role \in InvitableRoles
      \/ /\ invite[i].state \in {"pending", "expired"}
         /\ invite'[i].to = invite[i].to /\ invite'[i].role = invite[i].role
         /\ \/ Expire(i) /\ invite'[i].state = "expired"
            \/ \E c \in Calls : RevokeInvite(c, i)
            \/ \E c \in Calls, u \in Users :
                 /\ GrantSeat(c, i, u) /\ member[u] = None
                 /\ invite'[i].state = "accepted"
<1> SUFFICES ASSUME TypeOK, SeatInv, InviteInv, RequestInv, [Next]_vars,
                    NEW i \in Invites, invite'[i] # invite[i]
             PROVE  \/ /\ invite[i].state = "unused"
                       /\ invite'[i].role \in InvitableRoles
                    \/ /\ invite[i].state \in {"pending", "expired"}
                       /\ invite'[i].to = invite[i].to
                       /\ invite'[i].role = invite[i].role
                       /\ \/ Expire(i) /\ invite'[i].state = "expired"
                          \/ \E c \in Calls : RevokeInvite(c, i)
                          \/ \E c \in Calls, u \in Users :
                               /\ GrantSeat(c, i, u) /\ member[u] = None
                               /\ invite'[i].state = "accepted"
    OBVIOUS
<1>1. CASE Expire(i)
      BY <1>1 DEF Expire, TypeOK
<1>2. ASSUME NEW c \in Calls, CreateInvite(c, i)
      PROVE  invite[i].state = "unused" /\ invite'[i].role \in InvitableRoles
  <2>1. /\ invite[i].state = "unused" /\ call[c].stage = "insert"
        /\ invite'[i].role = call[c].role
        BY <1>2 DEF CreateInvite, TypeOK
  <2> QED BY <2>1 DEF RequestInv
<1>3. ASSUME NEW c \in Calls, RevokeInvite(c, i)
      PROVE  /\ invite[i].state \in {"pending", "expired"}
             /\ invite'[i].to = invite[i].to /\ invite'[i].role = invite[i].role
      BY <1>3 DEF RevokeInvite, TypeOK
<1>4. ASSUME NEW c \in Calls, NEW u \in Users, GrantSeat(c, i, u)
      PROVE  /\ invite[i].state \in {"pending", "expired"} /\ member[u] = None
             /\ invite'[i].to = invite[i].to /\ invite'[i].role = invite[i].role
             /\ invite'[i].state = "accepted"
  <2>1. /\ call[c].stage = "grant" /\ call[c].on = i /\ member[u] = None
        /\ invite' = [invite EXCEPT ![i].state = "accepted"]
        BY <1>4 DEF GrantSeat, Refuse
  <2>2. invite[i].state \in {"pending", "expired"}
        BY <2>1 DEF SeatInv
  <2> QED BY <2>1, <2>2 DEF TypeOK
<1> QED BY <1>1, <1>2, <1>3, <1>4, InviteMoves

LEMMA InviteStep ==
  TypeOK /\ SeatInv /\ InviteInv /\ RequestInv /\ [Next]_vars => InviteInv'
<1> SUFFICES ASSUME TypeOK, SeatInv, InviteInv, RequestInv, [Next]_vars,
                    NEW i \in Invites, invite'[i].state # "unused"
             PROVE  invite'[i].role \in InvitableRoles
    BY DEF InviteInv
<1>1. CASE invite'[i] = invite[i]
      BY <1>1 DEF InviteInv
<1>2. CASE invite'[i] # invite[i]
      BY <1>2, OpenInvitesChange DEF InviteInv
<1> QED BY <1>1, <1>2

LEMMA SeatMoves ==
  TypeOK /\ [Next]_vars =>
    \A d \in Calls : call'[d].stage = "grant" =>
      /\ call'[d].on = call[d].on /\ call'[d].by = call[d].by
      /\ \/ call[d].stage = "grant"
         \/ \E i \in Invites : /\ LockInvite(d, i) /\ Acceptable(d, i)
                               /\ i = call[d].on
<1> SUFFICES ASSUME TypeOK, [Next]_vars, NEW d \in Calls, call'[d].stage = "grant"
             PROVE  /\ call'[d].on = call[d].on /\ call'[d].by = call[d].by
                    /\ \/ call[d].stage = "grant"
                       \/ \E i \in Invites : /\ LockInvite(d, i) /\ Acceptable(d, i)
                                             /\ i = call[d].on
    OBVIOUS
<1> USE DEF TypeOK
<1> DEFINE Stays == /\ call'[d].on = call[d].on /\ call'[d].by = call[d].by
                    /\ call[d].stage = "grant"
<1>1. ASSUME NEW c \in Calls, NEW r, call' = [call EXCEPT ![c] = r], r.stage # "grant"
      PROVE  Stays
      BY <1>1
<1>2. ASSUME NEW c \in Calls, End(c) \/ Refuse(c) PROVE Stays
  <2>1. call' = [call EXCEPT ![c] = Ended] /\ Ended.stage # "grant"
        BY <1>2 DEF Refuse, End, Ended, Request
  <2> QED BY <1>1, <2>1
<1>3. ASSUME NEW c \in Calls, Start(c) PROVE Stays
  <2>1. ASSUME NEW op, NEW u \in Users, NEW t, NEW r, StartManage(c, op, u, t, r)
        PROVE  Stays
        BY <2>1 DEF StartManage, Request
  <2>2. ASSUME StartUpdateMemberRole(c) \/ StartRemoveMember(c) PROVE Stays
        BY <2>1, <2>2 DEF StartUpdateMemberRole, StartRemoveMember
  <2>3. ASSUME StartCreateInvite(c) PROVE Stays
        BY <2>3 DEF StartCreateInvite, Request
  <2>4. ASSUME StartAcceptInvite(c) PROVE Stays
        BY <2>4 DEF StartAcceptInvite, Request
  <2>5. ASSUME StartRevokeInvite(c) PROVE Stays
        BY <2>5 DEF StartRevokeInvite, Request
  <2> QED BY <1>3, <2>2, <2>3, <2>4, <2>5 DEF Start
<1>4. ASSUME NEW c \in Calls, NEW s \in Stages, s # "grant", Advance(c, s) PROVE Stays
  <2>1. call[c] \in Requests
        OBVIOUS
  <2> QED BY <1>1, <1>4, <2>1 DEF Advance, Requests
<1>5. ASSUME NEW c \in Calls, Proceed(c)
      PROVE  \/ Stays
             \/ /\ call'[d].on = call[d].on /\ call'[d].by = call[d].by
                /\ \E i \in Invites : LockInvite(d, i) /\ Acceptable(d, i) /\ i = call[d].on
  <2>1. CASE CheckRank(c)
    <3>1. Refuse(c) \/ Advance(c, "begin")
          BY <2>1 DEF CheckRank
    <3> QED BY <1>2, <1>4, <3>1 DEF Stages
  <2>2. CASE BeginManage(c)
    <3>1. PICK s \in {"target", "owners"}, us \in SUBSET Users :
            call' = [call EXCEPT ![c] = [call[c] EXCEPT !.stage = s, !.todo = us]]
          BY <2>2 DEF BeginManage
    <3>2. call[c] \in Requests
          OBVIOUS
    <3>3. [call[c] EXCEPT !.stage = s, !.todo = us].stage # "grant"
          BY <3>2 DEF Requests
    <3> QED BY <1>1, <3>1, <3>3
  <2>3. ASSUME NEW u \in Users, LockOwner(c, u) PROVE Stays
    <3>1. PICK s \in {"target", "owners"}, us, vs \in SUBSET Users :
            call' = [call EXCEPT ![c] =
              [call[c] EXCEPT !.stage = s, !.todo = us, !.counted = vs]]
          BY <2>3 DEF LockOwner, Requests
    <3>2. call[c] \in Requests
          OBVIOUS
    <3>3. [call[c] EXCEPT !.stage = s, !.todo = us, !.counted = vs].stage # "grant"
          BY <3>2 DEF Requests
    <3> QED BY <1>1, <3>1, <3>3
  <2>4. ASSUME NEW t \in Users, CommitRole(c, t) PROVE Stays
        BY <1>2, <2>4 DEF CommitRole
  <2>5. ASSUME NEW t \in Users, CommitRemove(c, t) PROVE Stays
    <3>1. CASE d = c
          BY <2>5, <3>1 DEF CommitRemove, Ended, Request
    <3>2. CASE d # c
      <4>1. call'[d] = [call[d] EXCEPT
              !.todo = call[d].todo \ {t},
              !.stage = IF call[d].stage = "owners" /\ call[d].todo \ {t} = {}
                        THEN "target" ELSE call[d].stage]
            BY <2>5, <3>2 DEF CommitRemove
      <4>2. call[d] \in Requests
            OBVIOUS
      <4> QED BY <4>1, <4>2 DEF Requests
    <3> QED BY <3>1, <3>2
  <2>6. ASSUME NEW t \in Users, RefuseManage(c, t) PROVE Stays
        BY <1>2, <2>6 DEF RefuseManage
  <2>7. ASSUME NEW i \in Invites, CreateInvite(c, i) \/ RevokeInvite(c, i) PROVE Stays
        BY <1>2, <2>7 DEF CreateInvite, RevokeInvite
  <2>8. ASSUME NEW i \in Invites, LockInvite(c, i)
        PROVE  \/ Stays
               \/ /\ call'[d].on = call[d].on /\ call'[d].by = call[d].by
                  /\ LockInvite(d, i) /\ Acceptable(d, i) /\ i = call[d].on
    <3>1. CASE Refuse(c)
          BY <1>2, <3>1
    <3>2. CASE Acceptable(c, i) /\ Advance(c, "grant") /\ i = call[c].on
      <4>1. call[d] \in Requests
            OBVIOUS
      <4>2. /\ call'[d].on = call[d].on /\ call'[d].by = call[d].by
            /\ d # c => call'[d] = call[d]
            BY <3>2, <4>1 DEF Advance, Requests
      <4> QED BY <2>8, <3>2, <4>2
    <3> QED BY <2>8, <3>1, <3>2 DEF LockInvite
  <2>9. ASSUME NEW i \in Invites, NEW u \in Users, GrantSeat(c, i, u) PROVE Stays
        BY <1>2, <2>9 DEF GrantSeat
  <2> QED BY <1>5, <2>1, <2>2, <2>3, <2>4, <2>5, <2>6, <2>7, <2>8, <2>9
          DEF Proceed
<1>6. ASSUME NEW c \in Calls, Fail(c) \/ AbortDeadlocked(c) PROVE Stays
      BY <1>2, <1>6 DEF Fail, AbortDeadlocked
<1>7. ASSUME UNCHANGED call PROVE Stays
      BY <1>7
<1> QED BY <1>3, <1>5, <1>6, <1>7 DEF Next, Expire, DeleteAccount, vars

(* An acceptance that has checked its invite holds it: nobody revokes,     *)
(* expires into a closed state or accepts it before the seat is granted.   *)
LEMMA SeatStep ==
  /\ TypeOK /\ RequestInv /\ InviteInv /\ SeatInv /\ [Next]_vars
  /\ RequestInv'
  => SeatInv'
<1> SUFFICES ASSUME TypeOK, RequestInv, InviteInv, SeatInv, [Next]_vars,
                    RequestInv', NEW d \in Calls, call'[d].stage = "grant"
             PROVE  /\ holder'[call'[d].on] = d
                    /\ invite'[call'[d].on].state \in {"pending", "expired"}
                    /\ invite'[call'[d].on].to = call'[d].by
                    /\ invite'[call'[d].on].role \in InvitableRoles
    BY DEF SeatInv
<1> DEFINE i == call[d].on
<1>1. i \in Invites /\ call'[d].on = i /\ call'[d].by = call[d].by
      BY SeatMoves DEF RequestInv
<1>2. ~Leaves(d)
      BY Departed
<1>3. d # Nobody
      BY NobodyIsNobody
<1>4. CASE call[d].stage = "grant"
  <2>1. /\ holder[i] = d /\ invite[i].state \in {"pending", "expired"}
        /\ invite[i].to = call[d].by /\ invite[i].role \in InvitableRoles
        BY <1>4 DEF SeatInv
  <2>2. holder'[i] = d
        BY <1>1, <1>2, <1>3, <2>1, InviteMoves
  <2>3. ASSUME NEW c \in Calls, RevokeInvite(c, i) PROVE FALSE
        BY <1>3, <2>1, <2>3 DEF RevokeInvite, InviteFree
  <2>4. ASSUME NEW c \in Calls, NEW u \in Users, GrantSeat(c, i, u), member[u] = None
        PROVE  FALSE
    <3>1. call[c].stage = "grant" /\ call[c].on = i /\ End(c)
          BY <2>4 DEF GrantSeat
    <3>2. c = d
          BY <2>1, <3>1 DEF SeatInv
    <3> QED BY <1>2, <3>1, <3>2 DEF End, Leaves, TypeOK
  <2>5. CASE invite'[i] = invite[i]
        BY <1>1, <2>1, <2>2, <2>5
  <2>6. CASE invite'[i] # invite[i]
    <3>1. /\ invite'[i].to = invite[i].to /\ invite'[i].role = invite[i].role
          /\ invite'[i].state = "expired"
          BY <1>1, <2>1, <2>3, <2>4, <2>6, OpenInvitesChange
    <3> QED BY <1>1, <2>1, <2>2, <3>1
  <2> QED BY <2>5, <2>6
<1>5. CASE LockInvite(d, i) /\ Acceptable(d, i)
  <2>1. invite[i].state = "pending" /\ invite[i].to = call[d].by
        BY <1>5 DEF Acceptable
  <2>2. invite[i].role \in InvitableRoles
        BY <1>1, <2>1 DEF InviteInv
  <2>3. holder' = [holder EXCEPT ![i] = d] /\ invite' = invite
        BY <1>5 DEF LockInvite
  <2> QED BY <1>1, <2>1, <2>2, <2>3 DEF TypeOK
<1> QED BY <1>4, <1>5, SeatMoves

-----------------------------------------------------------------------------
LEMMA InitInv == Init => Inv /\ AlwaysAnOwner
<1> SUFFICES ASSUME Init PROVE Inv /\ AlwaysAnOwner
    OBVIOUS
<1> USE DEF Init
<1>1. PICK m \in Rosters : member = m
      OBVIOUS
<1>2. member \in [Users -> Roles \cup {None}] /\ AlwaysAnOwner
      BY <1>1, ProvisionedWithOwner DEF AlwaysAnOwner
<1>3. ASSUME NEW i \in Invites
      PROVE  /\ invite[i] \in [state : InviteStates, by : Users \cup {Nobody},
                               to : Users \cup {Nobody},
                               role : InvitableRoles \cup {None}]
             /\ invite[i].state # "unused" => invite[i].role \in InvitableRoles
  <2>1. CASE invite[i] \in Sent
    <3>1. invite[i] \in [state : {"pending"}, by : Users, to : Users,
                         role : InvitableRoles]
          BY <2>1, SentIsPending
    <3> QED BY <3>1 DEF InviteStates
  <2>2. CASE invite[i] = NoInvite
        BY <2>2 DEF NoInvite, InviteStates
  <2> QED BY <2>1, <2>2
<1>4. TypeOK
      BY <1>2, <1>3, Records DEF TypeOK
<1>5. \A c \in Calls : /\ call[c].stage = "new" /\ call[c].counted = {}
                       /\ call[c].todo = {}
      BY DEF Idle, Request
<1>6. RequestInv /\ CountInv /\ CountIsLocked /\ SeatInv
      BY <1>5, FS_EmptySet DEF RequestInv, CountInv, CountIsLocked, SeatInv
<1>7. InviteInv
      BY <1>3 DEF InviteInv
<1> QED BY <1>2, <1>4, <1>6, <1>7 DEF Inv

LEMMA InvStep == Inv /\ [Next]_vars => Inv'
<1> SUFFICES ASSUME Inv, [Next]_vars PROVE Inv'
    OBVIOUS
<1>1. TypeOK' BY TypeStep DEF Inv
<1>2. RequestInv' BY RequestStep DEF Inv
<1>3. CountInv' BY CountStep DEF Inv
<1>4. CountIsLocked' BY LockedStep DEF Inv
<1>5. InviteInv' BY InviteStep DEF Inv
<1>6. SeatInv' BY <1>2, SeatStep DEF Inv
<1> QED BY <1>1, <1>2, <1>3, <1>4, <1>5, <1>6 DEF Inv

LEMMA Invariant == Spec => []Inv
<1>1. Init => Inv
      BY InitInv
<1> QED BY <1>1, InvStep, PTL DEF Spec

(* Every variable keeps its type, with any number of requests in flight.   *)
THEOREM TypeCorrect == Spec => []TypeOK
<1>1. Inv => TypeOK
      BY DEF Inv
<1> QED BY <1>1, Invariant, PTL

(* The owners lockOwnersOrdered has counted stay owners, and locked, until *)
(* the transaction that counted them ends.                                 *)
THEOREM CountedOwnersStayLocked == Spec => []CountIsLocked
<1>1. Inv => CountIsLocked
      BY DEF Inv
<1> QED BY <1>1, Invariant, PTL

(* ErrLastOwner holds up: no interleaving of demotions, removals and       *)
(* acceptances leaves the tenant without an owner.                         *)
THEOREM OwnersRemain == Spec => []AlwaysAnOwner
<1>1. Init => AlwaysAnOwner
      BY InitInv
<1>2. Inv /\ AlwaysAnOwner /\ [Next]_vars => AlwaysAnOwner'
      BY OwnerStep DEF Inv
<1> QED BY <1>1, <1>2, Invariant, PTL DEF Spec

(* Ownership is only ever given by an owner: UpdateMemberRole refuses the  *)
(* admin, and no invite carries the role.                                  *)
THEOREM OwnershipFromOwners == Spec => OwnersMadeByOwners
<1> DEFINE Step == \A u \in Users : member[u] # "owner" /\ member'[u] = "owner" =>
                     \E c \in Calls : /\ call[c].op = "role" /\ call[c].on = u
                                      /\ call[c].as = "owner"
                                      /\ call'[c].stage = "ended"
<1>1. Inv /\ [Next]_vars => Step
  <2> SUFFICES ASSUME Inv, [Next]_vars, NEW u \in Users,
                      member[u] # "owner", member'[u] = "owner"
               PROVE  \E c \in Calls : /\ call[c].op = "role" /\ call[c].on = u
                                       /\ call[c].as = "owner"
                                       /\ call'[c].stage = "ended"
      OBVIOUS
  <2> USE DEF Inv
  <2>1. ASSUME NEW c \in Calls, CommitRole(c, u)
        PROVE  /\ call[c].op = "role" /\ call[c].on = u /\ call[c].as = "owner"
               /\ call'[c].stage = "ended"
    <3>1. call[c].op = "role" /\ call[c].stage = "target" /\ call[c].role = "owner"
          BY <2>1 DEF CommitRole, WriteMember, TypeOK
    <3>2. call[c].on = u /\ call'[c].stage = "ended"
          BY <2>1, CommitsLeave, Departed
    <3> QED BY <3>1, <3>2 DEF RequestInv
  <2>2. ASSUME NEW c \in Calls, CommitRemove(c, u) PROVE FALSE
        BY <2>2 DEF CommitRemove, TypeOK, None
  <2>3. ASSUME NEW c \in Calls, NEW i \in Invites, GrantSeat(c, i, u), member[u] = None
        PROVE  FALSE
    <3>1. call[c].stage = "grant" /\ call[c].on = i /\ member'[u] = invite[i].role
          BY <2>3 DEF GrantSeat, TypeOK
    <3> QED BY <3>1 DEF SeatInv, InvitableRoles
  <2> QED BY <2>1, <2>2, <2>3, RowMoves
<1> QED BY <1>1, Invariant, PTL DEF Spec, OwnersMadeByOwners

(* AcceptInvite and RevokeInvite exclude each other: the first to close an *)
(* invite is the last to change it.                                        *)
THEOREM ClosedInvitesStay == Spec => InvitesCloseOnce
<1> DEFINE Step == \A i \in Invites : invite[i].state \in {"accepted", "revoked"} =>
                     invite'[i] = invite[i]
<1>1. Inv /\ [Next]_vars => Step
      BY OpenInvitesChange DEF Inv
<1> QED BY <1>1, Invariant, PTL DEF Spec, InvitesCloseOnce

(* A membership appears only with the invite it consumes: neither a role   *)
(* change of a member removed meanwhile nor a second acceptance makes one. *)
THEOREM EveryMemberWasInvited == Spec => MembersAreInvited
<1> DEFINE Step == \A u \in Users : member[u] = None /\ member'[u] # None =>
                     \E i \in Invites : /\ invite[i].state \in {"pending", "expired"}
                                        /\ invite'[i].state = "accepted"
                                        /\ invite[i].to = u
                                        /\ member'[u] = invite[i].role
<1>1. Inv /\ [Next]_vars => Step
  <2> SUFFICES ASSUME Inv, [Next]_vars, NEW u \in Users,
                      member[u] = None, member'[u] # None
               PROVE  \E i \in Invites : /\ invite[i].state \in {"pending", "expired"}
                                         /\ invite'[i].state = "accepted"
                                         /\ invite[i].to = u
                                         /\ member'[u] = invite[i].role
      OBVIOUS
  <2> USE DEF Inv
  <2>1. PICK c \in Calls, i \in Invites : GrantSeat(c, i, u)
        BY RowMoves, CommitsLeave
  <2>2. /\ call[c].stage = "grant" /\ call[c].on = i /\ call[c].by = u
        /\ member' = [member EXCEPT ![u] = invite[i].role]
        /\ invite' = [invite EXCEPT ![i].state = "accepted"]
        BY <2>1 DEF GrantSeat
  <2>3. invite[i].state \in {"pending", "expired"} /\ invite[i].to = u
        BY <2>2 DEF SeatInv
  <2> QED BY <2>2, <2>3 DEF TypeOK
<1> QED BY <1>1, Invariant, PTL DEF Spec, MembersAreInvited

(* What the runs check of a team, for any number of users, requests and     *)
(* invites: an owner remains (postgres_repository.go lockOwners).           *)
THEOREM TeamIsSound == Spec => []TeamSound
BY TypeCorrect, CountedOwnersStayLocked, OwnersRemain, PTL DEF TeamSound

-----------------------------------------------------------------------------
(* What a request may be about at each stage, and invites not yet sent.    *)
Asks(r) ==
  /\ r.stage = "insert" => r.op = "invite"
  /\ r.stage \in {"seat", "grant"} => r.op = "accept"
  /\ r.stage = "grant" => r.vouched
  /\ r.stage = "cancel" => r.op = "revoke"

WishInv ==
  /\ \A c \in Calls : Asks(call[c])
  /\ \A i \in Invites : invite[i].state = "unused" => invite[i] = NoInvite

(* How the requests of a step change: one arrives, one goes on, one has    *)
(* locked its invite, or one ends while others may lose a row to lock.     *)
Arrives(c, r) ==
  /\ call[c].stage = "new" /\ call'[c] = r
  /\ \A d \in Calls \ {c} : call'[d] = call[d]

GoesOn(c) ==
  /\ call[c].stage \in {"rank", "begin", "owners"}
  /\ call'[c].stage \in {"begin", "owners", "target"}
  /\ call'[c].op = call[c].op /\ call'[c].by = call[c].by /\ call'[c].on = call[c].on
  /\ call'[c].role = call[c].role
  /\ \A d \in Calls \ {c} : call'[d] = call[d]

Ends(c) == /\ call'[c] = Ended
           /\ \A d \in Calls \ {c} : /\ call'[d].op = call[d].op /\ call'[d].by = call[d].by
                                     /\ call'[d].on = call[d].on /\ call'[d].role = call[d].role
                                     /\ call'[d].vouched = call[d].vouched
                                     /\ \/ call'[d].stage = call[d].stage
                                        \/ call[d].stage = "owners" /\ call'[d].stage = "target"

(* Going on and ending leave alone what the others want.                   *)
LEMMA EndsAlone ==
  ASSUME TypeOK, NEW c \in Calls,
         \/ Refuse(c) \/ End(c) \/ \E t \in Users : CommitRole(c, t) \/ CommitRemove(c, t)
  PROVE  Ends(c)
<1> USE DEF TypeOK
<1>1. ASSUME End(c) PROVE Ends(c)
      BY <1>1 DEF End, Ends
<1>2. ASSUME NEW t \in Users, CommitRemove(c, t) PROVE Ends(c)
  <2>1. call' = [d \in Calls |->
          IF d = c THEN Ended
          ELSE LET left == call[d].todo \ {t}
               IN  [call[d] EXCEPT !.todo = left,
                      !.stage = IF @ = "owners" /\ left = {} THEN "target" ELSE @]]
        BY <1>2 DEF CommitRemove
  <2>2. call'[c] = Ended
        BY <2>1
  <2>3. ASSUME NEW d \in Calls \ {c}
        PROVE  /\ call'[d].op = call[d].op /\ call'[d].by = call[d].by
               /\ call'[d].on = call[d].on /\ call'[d].role = call[d].role
               /\ call'[d].vouched = call[d].vouched
               /\ \/ call'[d].stage = call[d].stage
                  \/ call[d].stage = "owners" /\ call'[d].stage = "target"
    <3>1. PICK left : call'[d] = [call[d] EXCEPT !.todo = left,
                        !.stage = IF @ = "owners" /\ left = {} THEN "target" ELSE @]
          BY <2>1
    <3>2. call[d] \in Requests
          OBVIOUS
    <3> QED BY <3>1, <3>2 DEF Requests
  <2> QED BY <2>2, <2>3 DEF Ends
<1> QED BY <1>1, <1>2 DEF Refuse, CommitRole

LEMMA GoesOnAlone ==
  ASSUME TypeOK, NEW c \in Calls,
         \/ CheckRank(c) /\ MayTouch(c)
         \/ BeginManage(c) \/ \E u \in Users : LockOwner(c, u)
  PROVE  GoesOn(c)
<1> USE DEF TypeOK
<1>1. call[c] \in Requests
      OBVIOUS
<1>2. CASE CheckRank(c) /\ MayTouch(c)
      BY <1>1, <1>2 DEF CheckRank, Advance, GoesOn, Requests
<1>3. CASE BeginManage(c)
  <2>1. PICK owners : call' = [call EXCEPT ![c] = [call[c] EXCEPT
           !.stage = IF owners = {} THEN "target" ELSE "owners", !.todo = owners]]
        BY <1>3 DEF BeginManage
  <2> QED BY <1>1, <1>3, <2>1 DEF BeginManage, GoesOn, Requests
<1>4. ASSUME NEW u \in Users, LockOwner(c, u) PROVE GoesOn(c)
  <2>1. PICK stage \in {"owners", "target"} : \E todo, counted :
          call' = [call EXCEPT ![c] = [call[c] EXCEPT
                     !.stage = stage, !.todo = todo, !.counted = counted]]
        BY <1>4 DEF LockOwner
  <2>2. call[c].stage = "owners"
        BY <1>4 DEF LockOwner
  <2> QED BY <1>1, <2>1, <2>2 DEF GoesOn, Requests
<1> QED BY <1>2, <1>3, <1>4

(* What the abstract requests see of each of these.                        *)
LEMMA WishEnds ==
  ASSUME TypeOK, NEW c \in Calls, Ends(c)
  PROVE  [d \in Calls |-> WishOf(call[d])]'
           = [[d \in Calls |-> WishOf(call[d])] EXCEPT ![c] = Promise!NoWish]
<1>1. WishOf(Ended) = [op |-> None]
      BY DEF WishOf, Ended, Request
<1>2. \A d \in Calls \ {c} : WishOf(call'[d]) = WishOf(call[d])
  <2> SUFFICES ASSUME NEW d \in Calls \ {c} PROVE WishOf(call'[d]) = WishOf(call[d])
      OBVIOUS
  <2>1. HasSay(call'[d]) = HasSay(call[d])
        BY DEF Ends, HasSay
  <2> QED BY <2>1 DEF Ends, WishOf
<1>3. WishOf(call'[c]) = Promise!NoWish
      BY <1>1 DEF Ends, Promise!NoWish
<1> QED BY <1>2, <1>3

LEMMA WishStays ==
  ASSUME TypeOK, RequestInv, NEW c \in Calls, GoesOn(c), call[c].stage # "rank"
  PROVE  [d \in Calls |-> WishOf(call[d])]' = [d \in Calls |-> WishOf(call[d])]
<1>1. call[c].op \in {"role", "remove"}
      BY DEF GoesOn, RequestInv
<1>2. WishOf(call'[c]) = WishOf(call[c])
  <2>1. HasSay(call'[c]) /\ HasSay(call[c])
        BY <1>1 DEF GoesOn, HasSay
  <2> QED BY <1>1, <2>1 DEF GoesOn, WishOf, HasSay
<1>3. \A d \in Calls \ {c} : WishOf(call'[d]) = WishOf(call[d])
      BY DEF GoesOn
<1> QED BY <1>2, <1>3

LEMMA WithdrawStep ==
  ASSUME TypeOK, NEW c \in Calls, Refuse(c)
  PROVE  Promise!Next \/ UNCHANGED Promise!vars
<1> DEFINE wish == [d \in Calls |-> WishOf(call[d])]
<1>1. wish' = [wish EXCEPT ![c] = Promise!NoWish]
      BY WishEnds, EndsAlone
<1>2. UNCHANGED <<member, invite>>
      BY DEF Refuse
<1>3. CASE wish[c] = Promise!NoWish
  <2>1. wish' = wish
        BY <1>1, <1>3
  <2> QED BY <1>2, <2>1 DEF Promise!vars
<1>4. CASE wish[c] # Promise!NoWish
  <2>1. Promise!Withdraw(c)
        BY <1>1, <1>2, <1>4 DEF Promise!Withdraw, Promise!Granted
  <2> QED BY <2>1 DEF Promise!Next
<1> QED BY <1>3, <1>4

(* A member's role or membership changes as the abstract rules allow: the  *)
(* owners counted are locked, so one of them is left.                      *)
LEMMA ChangeStep ==
  ASSUME Inv, AlwaysAnOwner, NEW c \in Calls, NEW t \in Users,
         CommitRole(c, t) \/ CommitRemove(c, t)
  PROVE  Promise!Next
<1> DEFINE wish == [d \in Calls |-> WishOf(call[d])]
<1>1. /\ call[c].stage = "target" /\ call[c].on = t /\ ~LastOwner(c) /\ member[t] # None
      /\ UNCHANGED invite
      BY CommitsLeave DEF CommitRole, CommitRemove, WriteMember, Inv
<1>2. call[c].op \in {"role", "remove"} /\ (call[c].op = "remove" => call[c].role = None)
      BY <1>1 DEF Inv, RequestInv
<1>3. wish[c] = [op |-> call[c].op, by |-> call[c].by, on |-> t, role |-> call[c].role,
                 cleared |-> TRUE]
      BY <1>1, <1>2 DEF WishOf, HasSay
<1>4. member' = [member EXCEPT ![t] = call[c].role]
      BY <1>2 DEF CommitRole, CommitRemove
<1>5. wish' = [wish EXCEPT ![c] = Promise!NoWish]
      BY WishEnds, EndsAlone DEF Inv
<1>6. call[c].role = "owner" \/ Promise!Owners \ {t} # {}
  <2>1. CASE member[t] # "owner"
        BY <2>1 DEF AlwaysAnOwner, Promise!Owners
  <2>2. CASE member[t] = "owner" /\ call[c].role # "owner"
    <3>1. ~(Cardinality(call[c].counted) <= 1)
          BY <1>1, <2>2 DEF LastOwner, TakesOwnerRole
    <3>2. PICK u \in call[c].counted : u # t
      <4> SUFFICES ASSUME call[c].counted \subseteq {t} PROVE FALSE
          OBVIOUS
      <4>1. IsFiniteSet({t}) /\ Cardinality({t}) = 1
            BY FS_Singleton
      <4>2. Cardinality(call[c].counted) <= Cardinality({t})
            BY <4>1, FS_Subset
      <4> QED BY <3>1, <4>1, <4>2
    <3>3. u \in Users /\ member[u] = "owner"
          BY <3>2 DEF Inv, CountIsLocked, TypeOK, Requests
    <3> QED BY <3>2, <3>3 DEF Promise!Owners
  <2> QED BY <2>1, <2>2
<1>7. Promise!Change(c)
  <2>1. /\ wish[c].op \in {"role", "remove"} /\ wish[c].cleared
        /\ wish[c].on = t /\ wish[c].role = call[c].role
        BY <1>2, <1>3
  <2>2. Promise!Granted(c)
        BY <1>5 DEF Promise!Granted
  <2> QED BY <1>1, <1>4, <1>6, <2>1, <2>2 DEF Promise!Change
<1> QED BY <1>7 DEF Promise!Next

-----------------------------------------------------------------------------
LEMMA ArrivingRequest ==
  ASSUME NEW stage, NEW op, NEW by, NEW on, NEW role
  PROVE  /\ Request(stage, op, by, on, role).stage = stage
         /\ Request(stage, op, by, on, role).op = op
         /\ Request(stage, op, by, on, role).by = by
         /\ Request(stage, op, by, on, role).on = on
         /\ Request(stage, op, by, on, role).role = role
         /\ \A a : LET r == [Request(stage, op, by, on, role) EXCEPT !.as = a]
                   IN  r.stage = stage /\ r.op = op /\ r.by = by /\ r.on = on /\ r.role = role
         /\ \A v : LET r == [Request(stage, op, by, on, role) EXCEPT !.vouched = v]
                   IN  /\ r.stage = stage /\ r.op = op /\ r.by = by /\ r.on = on /\ r.role = role
                       /\ r.vouched = v
BY DEF Request

(* A request that arrives is one of five.                                  *)
Manage(r, u) ==
  /\ LiveManager(u) /\ r.by = u /\ r.on \in Users \ {u}
  /\ \/ r.op = "role" /\ r.role \in Roles
     \/ r.op = "remove" /\ r.role = None
  /\ r.stage = IF member[u] = "admin" THEN "rank" ELSE "begin"

Other(r, u) ==
  /\ r.by = u
  /\ \/ /\ r.op = "invite" /\ r.stage = "insert" /\ LiveManager(u)
        /\ r.on \in Users /\ r.role \in InvitableRoles
     \/ /\ r.op = "revoke" /\ r.stage = "cancel" /\ LiveManager(u)
        /\ r.on \in Invites /\ r.role = None
     \/ /\ r.op = "accept" /\ r.stage = "seat" /\ r.role = None
        /\ r.on \in Invites /\ invite[r.on].state # "unused"
        /\ r.vouched = LiveManager(invite[r.on].by)

LEMMA Arrivals ==
  ASSUME TypeOK, NEW c \in Calls, Start(c)
  PROVE  /\ \E u \in Users : \E r : Arrives(c, r) /\ (Manage(r, u) \/ Other(r, u))
         /\ UNCHANGED <<member, invite>>
<1> USE DEF TypeOK
<1> DEFINE Goal == \E u \in Users : \E r : Arrives(c, r) /\ (Manage(r, u) \/ Other(r, u))
<1>0. ASSUME NEW r, call[c].stage = "new", call' = [call EXCEPT ![c] = r] PROVE Arrives(c, r)
      BY <1>0 DEF Arrives
<1>1. ASSUME NEW u \in Users, NEW t \in Users, NEW op \in {"role", "remove"},
             NEW role \in Roles \cup {None}, StartManage(c, op, u, t, role),
             op = "role" => role \in Roles, op = "remove" => role = None
      PROVE  Goal
  <2>1. PICK stage : stage = IF member[u] = "admin" THEN "rank" ELSE "begin"
        OBVIOUS
  <2>2. PICK r : r = [Request(stage, op, u, t, role) EXCEPT !.as = member[u]]
        OBVIOUS
  <2>3. /\ call[c].stage = "new" /\ LiveManager(u) /\ t # u
        /\ call' = [call EXCEPT ![c] = r]
        BY <1>1, <2>1, <2>2 DEF StartManage
  <2>4. r.stage = stage /\ r.op = op /\ r.by = u /\ r.on = t /\ r.role = role
        BY <2>2, ArrivingRequest
  <2>5. Manage(r, u)
        BY <1>1, <2>1, <2>3, <2>4 DEF Manage
  <2>6. Arrives(c, r)
        BY <1>0, <2>3
  <2> QED BY <2>5, <2>6
<1>2. ASSUME StartUpdateMemberRole(c) PROVE Goal
  <2>1. PICK u \in Users, t \in Users, role \in Roles : StartManage(c, "role", u, t, role)
        BY <1>2 DEF StartUpdateMemberRole
  <2> HIDE DEF Goal
  <2> QED BY <1>1, <2>1
<1>3. ASSUME StartRemoveMember(c) PROVE Goal
  <2>1. PICK u \in Users, t \in Users : StartManage(c, "remove", u, t, None)
        BY <1>3 DEF StartRemoveMember
  <2> HIDE DEF Goal
  <2> QED BY <1>1, <2>1
<1>4. ASSUME StartCreateInvite(c) PROVE Goal
  <2>1. PICK u \in Users, t \in Users, role \in InvitableRoles :
          /\ LiveManager(u)
          /\ call' = [call EXCEPT ![c] =
               [Request("insert", "invite", u, t, role) EXCEPT !.as = member[u]]]
        BY <1>4 DEF StartCreateInvite
  <2>2. PICK r : r = [Request("insert", "invite", u, t, role) EXCEPT !.as = member[u]]
        OBVIOUS
  <2>3. r.stage = "insert" /\ r.op = "invite" /\ r.by = u /\ r.on = t /\ r.role = role
        BY <2>2, ArrivingRequest
  <2>4. Other(r, u)
        BY <2>1, <2>3 DEF Other
  <2>5. call[c].stage = "new" /\ call' = [call EXCEPT ![c] = r]
        BY <1>4, <2>1, <2>2 DEF StartCreateInvite
  <2>6. Arrives(c, r)
        BY <1>0, <2>5
  <2> QED BY <2>4, <2>6
<1>5. ASSUME StartRevokeInvite(c) PROVE Goal
  <2>1. PICK u \in Users, i \in Invites :
          /\ LiveManager(u)
          /\ call' = [call EXCEPT ![c] =
               [Request("cancel", "revoke", u, i, None) EXCEPT !.as = member[u]]]
        BY <1>5 DEF StartRevokeInvite
  <2>2. PICK r : r = [Request("cancel", "revoke", u, i, None) EXCEPT !.as = member[u]]
        OBVIOUS
  <2>3. r.stage = "cancel" /\ r.op = "revoke" /\ r.by = u /\ r.on = i /\ r.role = None
        BY <2>2, ArrivingRequest
  <2>4. Other(r, u)
        BY <2>1, <2>3 DEF Other
  <2>5. call[c].stage = "new" /\ call' = [call EXCEPT ![c] = r]
        BY <1>5, <2>1, <2>2 DEF StartRevokeInvite
  <2>6. Arrives(c, r)
        BY <1>0, <2>5
  <2> QED BY <2>4, <2>6
<1>6. ASSUME StartAcceptInvite(c) PROVE Goal
  <2>1. PICK u \in Users, i \in Invites :
          /\ invite[i].state # "unused"
          /\ call' = [call EXCEPT ![c] = [Request("seat", "accept", u, i, None) EXCEPT
                                            !.vouched = LiveManager(invite[i].by)]]
        BY <1>6 DEF StartAcceptInvite
  <2>2. PICK r : r = [Request("seat", "accept", u, i, None) EXCEPT
                        !.vouched = LiveManager(invite[i].by)]
        OBVIOUS
  <2>3. /\ r.stage = "seat" /\ r.op = "accept" /\ r.by = u /\ r.on = i /\ r.role = None
        /\ r.vouched = LiveManager(invite[i].by)
        BY <2>2, ArrivingRequest
  <2>4. Other(r, u)
        BY <2>1, <2>3 DEF Other
  <2>5. call[c].stage = "new" /\ call' = [call EXCEPT ![c] = r]
        BY <1>6, <2>1, <2>2 DEF StartAcceptInvite
  <2>6. Arrives(c, r)
        BY <1>0, <2>5
  <2> QED BY <2>4, <2>6
<1>7. UNCHANGED <<member, invite>>
      BY DEF Start, StartUpdateMemberRole, StartRemoveMember, StartManage,
             StartCreateInvite, StartAcceptInvite, StartRevokeInvite
<1> QED BY <1>2, <1>3, <1>4, <1>5, <1>6, <1>7 DEF Start

(* A request whose invite is locked has its say.                           *)
LEMMA InviteLocked ==
  ASSUME TypeOK, NEW c \in Calls, NEW i \in Invites, LockInvite(c, i)
  PROVE  \/ Refuse(c)
         \/ /\ Acceptable(c, i) /\ call[c].stage = "seat" /\ i = call[c].on
            /\ call'[c].stage = "grant" /\ call'[c].vouched = call[c].vouched
            /\ call'[c].op = call[c].op /\ call'[c].by = call[c].by
            /\ call'[c].on = call[c].on /\ call'[c].role = call[c].role
            /\ \A d \in Calls \ {c} : call'[d] = call[d]
            /\ UNCHANGED <<member, invite>>
<1>1. call[c] \in Requests
      BY DEF TypeOK
<1> QED BY <1>1 DEF LockInvite, Advance, TypeOK, Requests

(* Requests keep to what they may be about.                                *)
LEMMA WishInvStep == Inv /\ WishInv /\ [Next]_vars => WishInv'
<1> SUFFICES ASSUME Inv, WishInv, [Next]_vars PROVE WishInv'
    OBVIOUS
<1> USE DEF Inv
<1> DEFINE Goal == \A d \in Calls : Asks(call'[d])
<1>1. ASSUME NEW c \in Calls, Ends(c) PROVE Goal
  <2> SUFFICES ASSUME NEW d \in Calls PROVE Asks(call'[d])
      OBVIOUS
  <2>1. CASE d = c
        BY <1>1, <2>1 DEF Ends, Asks, Ended, Request
  <2>2. CASE d # c
        BY <1>1, <2>2 DEF Ends, Asks, WishInv
  <2> QED BY <2>1, <2>2
<1>2. ASSUME NEW c \in Calls, GoesOn(c) PROVE Goal
  <2> SUFFICES ASSUME NEW d \in Calls PROVE Asks(call'[d])
      OBVIOUS
  <2>1. CASE d = c
        BY <1>2, <2>1 DEF GoesOn, Asks
  <2>2. CASE d # c
        BY <1>2, <2>2 DEF GoesOn, WishInv
  <2> QED BY <2>1, <2>2
<1>3. ASSUME NEW c \in Calls, Start(c) PROVE Goal
  <2>1. PICK u, r : u \in Users /\ Arrives(c, r) /\ (Manage(r, u) \/ Other(r, u))
        BY <1>3, Arrivals
  <2>2. Asks(r)
        BY <2>1 DEF Manage, Other, Asks
  <2> QED BY <2>1, <2>2 DEF Arrives, WishInv
<1>4. ASSUME NEW c \in Calls, NEW i \in Invites, LockInvite(c, i) PROVE Goal
  <2>1. CASE Refuse(c)
        BY <1>1, <2>1, EndsAlone
  <2>2. CASE /\ Acceptable(c, i) /\ call[c].stage = "seat"
             /\ call'[c].stage = "grant" /\ call'[c].vouched = call[c].vouched
             /\ call'[c].op = call[c].op
             /\ \A d \in Calls \ {c} : call'[d] = call[d]
    <3>1. Asks(call'[c])
          BY <2>2 DEF Acceptable, Asks, WishInv
    <3> QED BY <2>2, <3>1 DEF WishInv
  <2> QED BY <1>4, <2>1, <2>2, InviteLocked
<1>5. ASSUME NEW c \in Calls,
             \/ Fail(c) \/ AbortDeadlocked(c) \/ (\E t \in Users : RefuseManage(c, t))
             \/ (\E i \in Invites : CreateInvite(c, i) \/ RevokeInvite(c, i))
             \/ (\E i \in Invites, u \in Users : GrantSeat(c, i, u))
             \/ CheckRank(c) /\ ~MayTouch(c)
      PROVE  Refuse(c) \/ End(c)
      BY <1>5 DEF Fail, AbortDeadlocked, RefuseManage, CreateInvite, RevokeInvite, GrantSeat,
                  CheckRank
<1>6. ASSUME call' = call PROVE Goal
      BY <1>6 DEF WishInv
<1>7. Goal
  <2> HIDE DEF Goal
  <2>1. ASSUME NEW c \in Calls, Proceed(c) PROVE Goal
        BY <1>1, <1>2, <1>4, <1>5, <2>1, EndsAlone, GoesOnAlone DEF Proceed
  <2>2. ASSUME NEW c \in Calls, Fail(c) \/ AbortDeadlocked(c) PROVE Goal
        BY <1>1, <1>5, <2>2, EndsAlone
  <2> QED BY <1>3, <1>6, <2>1, <2>2 DEF Next, Expire, DeleteAccount, vars
<1>8. ASSUME NEW i \in Invites, invite'[i].state = "unused" PROVE invite'[i] = NoInvite
  <2>1. CASE invite'[i] = invite[i]
        BY <1>8, <2>1 DEF WishInv
  <2>2. CASE invite'[i] # invite[i]
    <3>1. ASSUME NEW c \in Calls, RevokeInvite(c, i) PROVE FALSE
          BY <1>8, <2>2, <3>1 DEF RevokeInvite, TypeOK
    <3>2. ASSUME NEW c \in Calls, CreateInvite(c, i) PROVE FALSE
          BY <1>8, <3>2 DEF CreateInvite, TypeOK
    <3>3. ASSUME NEW c \in Calls, NEW u \in Users, GrantSeat(c, i, u) PROVE FALSE
          BY <1>8, <2>2, <3>3 DEF GrantSeat, Refuse, TypeOK
    <3>4. ASSUME Expire(i) PROVE FALSE
          BY <1>8, <3>4 DEF Expire, TypeOK
    <3> QED BY <2>2, <3>1, <3>2, <3>3, <3>4, InviteMoves
  <2> QED BY <2>1, <2>2
<1> QED BY <1>7, <1>8 DEF WishInv

-----------------------------------------------------------------------------
(* Each action as a step of the promise.                                   *)
LEMMA AskStep ==
  ASSUME Inv, WishInv, NEW c \in Calls, Start(c)
  PROVE  Promise!Next \/ UNCHANGED Promise!vars
<1> DEFINE wish == [d \in Calls |-> WishOf(call[d])]
<1>0. PICK u \in Users : \E r : Arrives(c, r) /\ (Manage(r, u) \/ Other(r, u))
      BY Arrivals DEF Inv
<1>1. PICK r : Arrives(c, r) /\ (Manage(r, u) \/ Other(r, u))
      BY <1>0
<1>2. UNCHANGED <<member, invite>>
      BY Arrivals DEF Inv
<1>3. WishOf(call[c]) = Promise!NoWish
      BY <1>1 DEF Arrives, WishOf, Promise!NoWish
<1>4. PICK w : w = WishOf(r)
      OBVIOUS
<1>5. wish'[c] = w /\ wish' = [wish EXCEPT ![c] = wish'[c]] /\ wish[c] = Promise!NoWish
  <2>1. \A d \in Calls : wish'[d] = WishOf(call'[d])
        OBVIOUS
  <2>2. wish'[c] = w /\ \A d \in Calls \ {c} : wish'[d] = wish[d]
        BY <1>1, <1>4, <2>1 DEF Arrives
  <2> QED BY <1>3, <2>2
<1>6. ASSUME NEW wishes, w \in wishes PROVE Promise!Ask(c, wishes)
      BY <1>2, <1>5, <1>6 DEF Promise!Ask
<1>7. LiveManager(u) <=> Promise!Manages(u)
      BY DEF LiveManager, Managers, Promise!Manages
<1>8. CASE Manage(r, u)
  <2>1. w = [op |-> r.op, by |-> u, on |-> r.on, role |-> r.role,
             cleared |-> member[u] = "owner"]
        BY <1>4, <1>8 DEF Manage, WishOf, HasSay, LiveManager, Managers
  <2>2. CASE r.op = "role" /\ r.role \in Roles
    <3>1. w \in Promise!Wishes("role", u, Users \ {u}, Promise!Roles, member[u] = "owner")
          BY <1>8, <2>1, <2>2 DEF Manage, Promise!Wishes, Promise!Roles, Roles
    <3>2. Promise!Ask(c, Promise!Wishes("role", u, Users \ {u}, Promise!Roles, member[u] = "owner"))
          BY <1>2, <1>5, <3>1 DEF Promise!Ask
    <3>3. Promise!AskAsManager(c, u)
          BY <1>5, <1>7, <1>8, <3>2 DEF Manage, Promise!AskAsManager
    <3> QED BY <3>3 DEF Promise!Next
  <2>3. CASE r.op = "remove" /\ r.role = None
    <3>1. w \in Promise!Wishes("remove", u, Users \ {u}, {None}, member[u] = "owner")
          BY <1>8, <2>1, <2>3 DEF Manage, Promise!Wishes
    <3>2. Promise!Ask(c, Promise!Wishes("remove", u, Users \ {u}, {None}, member[u] = "owner"))
          BY <1>2, <1>5, <3>1 DEF Promise!Ask
    <3>3. Promise!AskAsManager(c, u)
          BY <1>5, <1>7, <1>8, <3>2 DEF Manage, Promise!AskAsManager
    <3> QED BY <3>3 DEF Promise!Next
  <2> QED BY <1>8, <2>2, <2>3 DEF Manage
<1>9. CASE Other(r, u)
  <2>1. CASE /\ r.op = "invite" /\ r.stage = "insert" /\ LiveManager(u)
             /\ r.on \in Users /\ r.role \in InvitableRoles
    <3>1. w = [op |-> "invite", by |-> u, on |-> r.on, role |-> r.role, cleared |-> TRUE]
          BY <1>4, <1>9, <2>1 DEF Other, WishOf, HasSay
    <3>2. w \in Promise!Wishes("invite", u, Users, Promise!Roles \ {"owner"}, TRUE)
          BY <2>1, <3>1 DEF Promise!Wishes, Promise!Roles, InvitableRoles, Roles
    <3>3. Promise!Ask(c, Promise!Wishes("invite", u, Users, Promise!Roles \ {"owner"}, TRUE))
          BY <1>2, <1>5, <3>2 DEF Promise!Ask
    <3>4. Promise!AskAsManager(c, u)
          BY <1>5, <1>7, <2>1, <3>3 DEF Promise!AskAsManager
    <3> QED BY <3>4 DEF Promise!Next
  <2>2. CASE /\ r.op = "revoke" /\ r.stage = "cancel" /\ LiveManager(u)
             /\ r.on \in Invites /\ r.role = None
    <3>1. w = [op |-> "revoke", by |-> u, on |-> r.on, role |-> None, cleared |-> TRUE]
          BY <1>4, <1>9, <2>2 DEF Other, WishOf, HasSay
    <3>2. w \in Promise!Wishes("revoke", u, Invites, {None}, TRUE)
          BY <2>2, <3>1 DEF Promise!Wishes
    <3>3. Promise!Ask(c, Promise!Wishes("revoke", u, Invites, {None}, TRUE))
          BY <1>2, <1>5, <3>2 DEF Promise!Ask
    <3>4. Promise!AskAsManager(c, u)
          BY <1>5, <1>7, <2>2, <3>3 DEF Promise!AskAsManager
    <3> QED BY <3>4 DEF Promise!Next
  <2>3. CASE /\ r.op = "accept" /\ r.stage = "seat" /\ r.role = None
             /\ r.on \in Invites /\ invite[r.on].state # "unused"
             /\ r.vouched = LiveManager(invite[r.on].by)
    <3>1. CASE ~LiveManager(invite[r.on].by)
      <4>1. w = Promise!NoWish
            BY <1>4, <2>3, <3>1 DEF WishOf, Promise!NoWish
      <4>2. wish' = wish
            BY <1>5, <4>1
      <4> QED BY <1>2, <4>2 DEF Promise!vars
    <3>2. CASE LiveManager(invite[r.on].by)
      <4> DEFINE open == {i \in Invites : invite[i] # NoInvite /\ Promise!Manages(invite[i].by)}
      <4>1. invite[r.on] # NoInvite
            BY <2>3 DEF NoInvite
      <4>2. r.on \in open
            BY <2>3, <3>2, <4>1 DEF Promise!Manages, LiveManager, Managers
      <4>3. w = [op |-> "accept", by |-> u, on |-> r.on, role |-> None, cleared |-> FALSE]
            BY <1>4, <1>9, <2>3, <3>2 DEF Other, WishOf, HasSay
      <4>4. w \in Promise!Wishes("accept", u, open, {None}, FALSE)
        <5> HIDE DEF open
        <5> QED BY <4>2, <4>3 DEF Promise!Wishes
      <4>5. Promise!Ask(c, Promise!Wishes("accept", u, open, {None}, FALSE))
            BY <1>2, <1>5, <4>4 DEF Promise!Ask
      <4>6. Promise!AskToJoin(c, u)
            BY <1>5, <4>5 DEF Promise!AskToJoin
      <4> QED BY <4>6 DEF Promise!Next
    <3> QED BY <3>1, <3>2
  <2> QED BY <1>9, <2>1, <2>2, <2>3 DEF Other
<1> QED BY <1>1, <1>8, <1>9

(* Of a wish, clearing it changes the one field (Service: the rank check   *)
(* is all that separates the request from its transaction).                *)
LEMMA OneFieldSet ==
  ASSUME NEW op, NEW by, NEW on, NEW role, NEW was, NEW is, NEW old, NEW new,
         old = [op |-> op, by |-> by, on |-> on, role |-> role, cleared |-> was],
         new = [op |-> op, by |-> by, on |-> on, role |-> role, cleared |-> is]
  PROVE  new = [old EXCEPT !.cleared = is]
OBVIOUS

LEMMA ClearStep ==
  ASSUME Inv, WishInv, NEW c \in Calls,
         CheckRank(c) \/ \E i \in Invites : LockInvite(c, i)
  PROVE  Promise!Next \/ UNCHANGED Promise!vars
<1> DEFINE wish == [d \in Calls |-> WishOf(call[d])]
<1>1. CASE Refuse(c)
      BY <1>1, WithdrawStep DEF Inv
<1>2. ASSUME call'[c].op = call[c].op, call'[c].by = call[c].by, call'[c].on = call[c].on,
             call'[c].role = call[c].role, \A d \in Calls \ {c} : call'[d] = call[d],
             WishOf(call[c]) = [op |-> call[c].op, by |-> call[c].by, on |-> call[c].on,
                                role |-> call[c].role, cleared |-> FALSE],
             WishOf(call'[c]) = [op |-> call[c].op, by |-> call[c].by, on |-> call[c].on,
                                 role |-> call[c].role, cleared |-> TRUE]
      PROVE  /\ wish' = [wish EXCEPT ![c].cleared = TRUE] /\ wish[c] # Promise!NoWish
             /\ ~wish[c].cleared /\ wish[c].op = call[c].op /\ wish[c].on = call[c].on
             /\ wish[c].role = call[c].role /\ wish[c].by = call[c].by
  <2>1. \A d \in Calls : wish[d] = WishOf(call[d]) /\ wish'[d] = WishOf(call'[d])
        OBVIOUS
  <2>2. ~wish[c].cleared /\ wish[c].op = call[c].op /\ wish[c].on = call[c].on
        /\ wish[c].role = call[c].role /\ wish[c].by = call[c].by
        BY <1>2, <2>1
  <2>3. wish[c] # Promise!NoWish
    <3>1. DOMAIN wish[c] # DOMAIN Promise!NoWish
          BY <1>2, <2>1 DEF Promise!NoWish
    <3> QED BY <3>1
  <2>4. wish'[c] = [wish[c] EXCEPT !.cleared = TRUE]
    <3>1. PICK op, by, on, role, was, is, old, new :
            /\ old = wish[c] /\ new = wish'[c] /\ is = TRUE
            /\ old = [op |-> op, by |-> by, on |-> on, role |-> role, cleared |-> was]
            /\ new = [op |-> op, by |-> by, on |-> on, role |-> role, cleared |-> is]
          BY <1>2, <2>1
    <3>2. /\ old = [op |-> op, by |-> by, on |-> on, role |-> role, cleared |-> was]
          /\ new = [op |-> op, by |-> by, on |-> on, role |-> role, cleared |-> is]
          BY <3>1
    <3>3. new = [old EXCEPT !.cleared = is]
          BY <3>2, OneFieldSet
    <3> QED BY <3>1, <3>3
  <2>5. \A d \in Calls \ {c} : wish'[d] = wish[d]
        BY <1>2, <2>1
  <2> QED BY <2>2, <2>3, <2>4, <2>5
<1>3. CASE CheckRank(c) /\ MayTouch(c)
  <2>1. GoesOn(c) /\ call[c].stage = "rank" /\ call'[c].stage = "begin"
        BY <1>3, GoesOnAlone DEF CheckRank, Advance, Inv, TypeOK, Requests
  <2>2. call[c].op \in {"role", "remove"}
        BY <2>1 DEF Inv, RequestInv
  <2>3. /\ WishOf(call[c]) = [op |-> call[c].op, by |-> call[c].by, on |-> call[c].on,
                              role |-> call[c].role, cleared |-> FALSE]
        /\ WishOf(call'[c]) = [op |-> call[c].op, by |-> call[c].by, on |-> call[c].on,
                               role |-> call[c].role, cleared |-> TRUE]
        BY <2>1, <2>2 DEF GoesOn, WishOf, HasSay
  <2>4. /\ wish' = [wish EXCEPT ![c].cleared = TRUE] /\ wish[c] # Promise!NoWish
        /\ ~wish[c].cleared /\ wish[c].op = call[c].op /\ wish[c].on = call[c].on
        /\ wish[c].role = call[c].role
        BY <1>2, <2>1, <2>3 DEF GoesOn
  <2>5. UNCHANGED <<member, invite>>
        BY <1>3 DEF CheckRank, Advance, Refuse
  <2>6. Promise!Clear(c)
        BY <1>3, <2>2, <2>4, <2>5 DEF Promise!Clear, MayTouch
  <2> QED BY <2>6 DEF Promise!Next
<1>4. ASSUME NEW i \in Invites, Acceptable(c, i), call[c].stage = "seat", i = call[c].on,
             call'[c].stage = "grant", call'[c].vouched = call[c].vouched,
             call'[c].op = call[c].op, call'[c].by = call[c].by, call'[c].on = call[c].on,
             call'[c].role = call[c].role, \A d \in Calls \ {c} : call'[d] = call[d],
             UNCHANGED <<member, invite>>
      PROVE  Promise!Next
  <2>1. call[c].op = "accept" /\ call[c].vouched
        BY <1>4 DEF WishInv, Asks, Acceptable
  <2>2. /\ WishOf(call[c]) = [op |-> call[c].op, by |-> call[c].by, on |-> call[c].on,
                              role |-> call[c].role, cleared |-> FALSE]
        /\ WishOf(call'[c]) = [op |-> call[c].op, by |-> call[c].by, on |-> call[c].on,
                               role |-> call[c].role, cleared |-> TRUE]
        BY <1>4, <2>1 DEF WishOf, HasSay
  <2>3. /\ wish' = [wish EXCEPT ![c].cleared = TRUE] /\ wish[c] # Promise!NoWish
        /\ ~wish[c].cleared /\ wish[c].op = call[c].op /\ wish[c].on = call[c].on
        /\ wish[c].by = call[c].by
        BY <1>2, <1>4, <2>2
  <2>4. Promise!Clear(c)
        BY <1>4, <2>1, <2>3 DEF Promise!Clear, Promise!Wants, Acceptable
  <2> QED BY <2>4 DEF Promise!Next
<1>5. CASE CheckRank(c)
      BY <1>1, <1>3, <1>5 DEF CheckRank
<1>6. ASSUME NEW i \in Invites, LockInvite(c, i)
      PROVE  Promise!Next \/ UNCHANGED Promise!vars
      BY <1>1, <1>4, <1>6, InviteLocked DEF Inv
<1> QED BY <1>5, <1>6

LEMMA InviteSteps ==
  ASSUME Inv, WishInv, NEW c \in Calls, NEW i \in Invites,
         CreateInvite(c, i) \/ RevokeInvite(c, i) \/ \E u \in Users : GrantSeat(c, i, u)
  PROVE  Promise!Next \/ UNCHANGED Promise!vars
<1> DEFINE wish == [d \in Calls |-> WishOf(call[d])]
<1>1. ASSUME End(c) PROVE Promise!Granted(c)
      BY <1>1, WishEnds, EndsAlone DEF Promise!Granted, Inv
<1>2. CASE CreateInvite(c, i)
  <2>1. /\ wish[c].op = "invite" /\ wish[c].by = call[c].by /\ wish[c].on = call[c].on
        /\ wish[c].role = call[c].role
        BY <1>2 DEF CreateInvite, WishInv, Asks, WishOf
  <2>2. invite[i] = NoInvite /\ Promise!Granted(c)
        BY <1>1, <1>2 DEF CreateInvite, WishInv
  <2>3. Promise!Send(c, i)
        BY <1>2, <2>1, <2>2 DEF CreateInvite, Promise!Send, Promise!Wants
  <2> QED BY <2>3 DEF Promise!Next
<1>3. CASE RevokeInvite(c, i)
  <2>1. wish[c].op = "revoke" /\ wish[c].on = i
        BY <1>3 DEF RevokeInvite, WishInv, Asks, WishOf
  <2>2. Promise!Granted(c)
        BY <1>1, <1>3 DEF RevokeInvite
  <2>3. CASE invite[i] # NoInvite
    <3>1. Promise!Revoke(c, i)
          BY <1>3, <2>1, <2>2, <2>3 DEF RevokeInvite, Promise!Revoke, Promise!Wants
    <3> QED BY <3>1 DEF Promise!Next
  <2>4. CASE invite[i] = NoInvite
    <3>1. Refuse(c)
          BY <1>3, <2>4 DEF RevokeInvite, NoInvite, Refuse
    <3> QED BY <3>1, WithdrawStep DEF Inv
  <2> QED BY <2>3, <2>4
<1>4. ASSUME NEW u \in Users, GrantSeat(c, i, u)
      PROVE  Promise!Next \/ UNCHANGED Promise!vars
  <2>1. call[c].stage = "grant" /\ call[c].on = i /\ call[c].by = u
        BY <1>4 DEF GrantSeat
  <2>2. CASE Refuse(c)
        BY <2>2, WithdrawStep DEF Inv
  <2>3. CASE /\ member[u] = None /\ member' = [member EXCEPT ![u] = invite[i].role]
             /\ invite' = [invite EXCEPT ![i].state = "accepted"] /\ End(c)
    <3>1. invite[i].state \in {"pending", "expired"} /\ invite[i].to = u
          BY <2>1 DEF Inv, SeatInv
    <3>2. wish[c].op = "accept" /\ wish[c].cleared /\ wish[c].on = i /\ wish[c].by = u
          BY <2>1 DEF WishInv, Asks, WishOf, HasSay
    <3>3. Promise!Granted(c)
          BY <1>1, <2>3
    <3>4. Promise!Join(c, i, u)
          BY <2>3, <3>1, <3>2, <3>3 DEF Promise!Join, Promise!Wants
    <3> QED BY <3>4 DEF Promise!Next
  <2> QED BY <1>4, <2>2, <2>3 DEF GrantSeat
<1> QED BY <1>2, <1>3, <1>4

(* Every request takes effect in one step under the rules of that step:    *)
(* what the ordered owner locks, the target's and the invite's amount to   *)
(* (lockOwnersOrdered, UpdateMemberRole, RemoveMember, AcceptInvite).      *)
THEOREM TeamRefinement == Spec => ChangesAtOnce
<1>1. Init => Promise!Init
  <2> SUFFICES ASSUME Init PROVE Promise!Init
      OBVIOUS
  <2>1. AlwaysAnOwner
        BY InitInv
  <2>2. ASSUME NEW i \in Invites PROVE invite[i] = NoInvite \/ invite[i].state = "pending"
        BY SentIsPending DEF Init
  <2>3. \A c \in Calls : WishOf(call[c]) = Promise!NoWish
        BY DEF Init, Idle, Request, WishOf, Promise!NoWish
  <2>4. [c \in Calls |-> WishOf(call[c])] = [c \in Calls |-> Promise!NoWish]
        BY <2>3
  <2> QED BY <2>1, <2>2, <2>4 DEF Promise!Init, AlwaysAnOwner
<1>2. Init => WishInv
  <2> SUFFICES ASSUME Init PROVE WishInv
      OBVIOUS
  <2>1. \A c \in Calls : Asks(call[c])
        BY DEF Init, Idle, Request, Asks
  <2>2. \A i \in Invites : invite[i].state = "unused" => invite[i] = NoInvite
        BY SentIsPending DEF Init
  <2> QED BY <2>1, <2>2 DEF WishInv
<1>3. Inv /\ WishInv /\ AlwaysAnOwner /\ [Next]_vars => [Promise!Next]_(Promise!vars)
  <2> SUFFICES ASSUME Inv, WishInv, AlwaysAnOwner, [Next]_vars
               PROVE  Promise!Next \/ UNCHANGED Promise!vars
      OBVIOUS
  <2> DEFINE Goal == Promise!Next \/ UNCHANGED Promise!vars
  <2>1. ASSUME NEW c \in Calls, Refuse(c) PROVE Goal
        BY <2>1, WithdrawStep DEF Inv
  <2>2. ASSUME NEW c \in Calls, BeginManage(c) \/ \E u \in Users : LockOwner(c, u) PROVE Goal
    <3>1. GoesOn(c) /\ call[c].stage # "rank"
          BY <2>2, GoesOnAlone DEF BeginManage, LockOwner, Inv
    <3>2. UNCHANGED <<member, invite>>
          BY <2>2 DEF BeginManage, LockOwner
    <3> QED BY <3>1, <3>2, WishStays DEF Promise!vars, Inv
  <2>3. ASSUME NEW c \in Calls, Proceed(c) PROVE Goal
    <3> HIDE DEF Goal
    <3>1. CASE \E t \in Users : CommitRole(c, t) \/ CommitRemove(c, t)
          BY <3>1, ChangeStep DEF Goal
    <3>2. CASE CheckRank(c) \/ \E i \in Invites : LockInvite(c, i)
          BY <3>2, ClearStep DEF Goal
    <3>3. CASE \E i \in Invites : CreateInvite(c, i) \/ RevokeInvite(c, i)
                 \/ \E u \in Users : GrantSeat(c, i, u)
          BY <3>3, InviteSteps DEF Goal
    <3>4. CASE \E t \in Users : RefuseManage(c, t)
          BY <2>1, <3>4 DEF RefuseManage
    <3> QED BY <2>2, <2>3, <3>1, <3>2, <3>3, <3>4 DEF Proceed
  <2>4. ASSUME NEW i \in Invites, Expire(i) PROVE Goal
    <3>1. Promise!Expire(i)
          BY <2>4 DEF Expire, Promise!Expire
    <3> QED BY <3>1 DEF Promise!Next
  <2>5. ASSUME UNCHANGED <<member, invite, call>> PROVE Goal
        BY <2>5 DEF Promise!vars
  <2>6. ASSUME NEW c \in Calls, Start(c) PROVE Goal
        BY <2>6, AskStep
  <2> HIDE DEF Goal
  <2>7. Goal
        BY <2>1, <2>3, <2>4, <2>5, <2>6 DEF Next, Fail, AbortDeadlocked, DeleteAccount, vars
  <2> QED BY <2>7 DEF Goal
<1> QED BY <1>1, <1>2, <1>3, WishInvStep, Invariant, OwnersRemain, PTL
        DEF Spec, ChangesAtOnce, Promise!Spec

=============================================================================
