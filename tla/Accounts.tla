------------------------------ MODULE Accounts ------------------------------
(***************************************************************************)
(* One account: its registration, its sessions, its profile, its deletion, *)
(* the events it publishes and the credentials it mints for agents.        *)
(*                                                                         *)
(* No request runs in one transaction.  Each reads the account, checks     *)
(* what it read, and writes in statements of their own; deleting the       *)
(* account writes the status, revokes the sessions and publishes the event *)
(* one after another.  Registration alone commits as a whole.              *)
(***************************************************************************)
EXTENDS Integers, Sequences, FiniteSets

CONSTANTS
  Tenants,    \* tenants the account may belong to
  Requests,   \* requests that are served at the same time
  Agents,     \* agent credentials
  None,       \* no tenant, no token
  MaxTokens,  \* bound on refresh tokens
  MaxEvents,  \* bound on events
  MaxFaults   \* bound on failed statements and crashes

ASSUME AccountsAssumption ==
  /\ None \notin Tenants \cup Agents \cup Nat
  /\ MaxTokens \in Nat /\ MaxEvents \in Nat \ {0} /\ MaxFaults \in Nat

VARIABLES
  account,  \* the row of users, with status_version
  members,  \* tenants with a membership of the account
  tokens,   \* refresh_tokens, in the order they were stored
  agents,   \* agent_credentials
  request,  \* what each request has read and does next
  events,   \* rows of the outbox, in the order they were committed
  faults,   \* statements that failed so far
  twice     \* history: tokens that two requests found, or that a failure spared

accountVars == <<account, members, tokens, agents, request, events, faults, twice>>

-----------------------------------------------------------------------------
TokenIds == 1..MaxTokens
Kinds == {"created", "updated", "deleted"}

NoAccount == [status |-> "none", prefs |-> "old", version |-> 0]
NoRequest == [op |-> "none", stage |-> "idle", tenant |-> None, token |-> None,
              copy |-> NoAccount, stale |-> FALSE, agent |-> None]

AccountsInit ==
  /\ account = NoAccount
  /\ members = {}
  /\ tokens = <<>>
  /\ agents = [a \in Agents |-> "none"]
  /\ request = [q \in Requests |-> NoRequest]
  /\ events = <<>>
  /\ faults = 0
  /\ twice = {}

Idle(q) == request[q].stage = "idle"
At(q, op, stage) == request[q].op = op /\ request[q].stage = stage
Exists == account.status # "none"

Go(q, next) == request' = [request EXCEPT ![q] = next]
Begin(q, op, stage) == Go(q, [NoRequest EXCEPT !.op = op, !.stage = stage])
Move(q, stage) == Go(q, [request[q] EXCEPT !.stage = stage])
Answer(q) == Go(q, NoRequest)
OnlyRequests == UNCHANGED <<account, members, tokens, agents, events, faults, twice>>

(* What others rely on has changed under those who read it.                *)
Overtaken(S) ==
  [q \in Requests |-> [request[q] EXCEPT !.stale = @ \/ (~Idle(q) /\ q \in S)]]

-----------------------------------------------------------------------------
(* Registering: one e-mail address, with or without an idempotency key.    *)

UserIDByKey(q) ==
  /\ Idle(q)
  /\ IF Exists THEN Answer(q) ELSE Begin(q, "register", "unique")
  /\ OnlyRequests

AssertUnique(q) ==
  /\ At(q, "register", "unique")
  /\ IF account.status \in {"none", "deleted"} THEN Move(q, "create") ELSE Answer(q)
  /\ OnlyRequests

(* The unique index spans deleted accounts too.  User, credentials, tenant *)
(* and event are one transaction.                                          *)
Create(q) ==
  /\ At(q, "register", "create")
  /\ Answer(q)
  /\ IF Exists THEN UNCHANGED <<account, members, events>>
     ELSE /\ account' = [status |-> "active", prefs |-> "old", version |-> 1]
          /\ \E t \in Tenants : members' = {t}
          /\ events' = Append(events, [kind |-> "created", version |-> 1])
  /\ UNCHANGED <<tokens, agents, faults, twice>>

-----------------------------------------------------------------------------
(* Sessions.                                                               *)

Live(t) == t \in 1..Len(tokens) /\ tokens[t].live

Login(q) ==
  /\ Idle(q) /\ account.status = "active"
  /\ Begin(q, "login", "memberships")
  /\ OnlyRequests

(* The token of another request that has found it and not revoked it yet.  *)
Found(t) == \E p \in Requests : request[p].token = t /\ request[p].stage \in {"memberships", "revoke"}

(* Mutant: a revoked token is found as well.                               *)
FindAnyRefresh(q, t) ==
  /\ Idle(q) /\ t \in 1..Len(tokens)
  /\ Go(q, [NoRequest EXCEPT !.op = "refresh", !.token = t, !.tenant = tokens[t].tenant,
              !.stage = IF tokens[t].tenant = None THEN "memberships" ELSE "revoke"])
  /\ twice' = IF Found(t) THEN twice \cup {t} ELSE twice
  /\ UNCHANGED <<account, members, tokens, agents, events, faults>>

FindValidRefresh(q, t) ==
  /\ Idle(q) /\ Live(t)
  /\ Go(q, [NoRequest EXCEPT !.op = "refresh", !.token = t, !.tenant = tokens[t].tenant,
              !.stage = IF tokens[t].tenant = None THEN "memberships" ELSE "revoke"])
  /\ twice' = IF Found(t) THEN twice \cup {t} ELSE twice
  /\ UNCHANGED <<account, members, tokens, agents, events, faults>>

(* The first membership, when there is one.                                *)
MembershipsForUser(q) ==
  /\ request[q].stage = "memberships"
  /\ \E t \in IF members = {} THEN {None} ELSE members :
       Go(q, [request[q] EXCEPT !.tenant = t,
                !.stage = IF request[q].op = "refresh" THEN "revoke" ELSE "status"])
  /\ OnlyRequests

Revoked(S) == [t \in 1..Len(tokens) |-> [tokens[t] EXCEPT !.live = @ /\ t \notin S]]

RevokeRefreshToken(q) ==
  /\ At(q, "refresh", "revoke")
  /\ tokens' = Revoked({request[q].token})
  /\ Move(q, "status")
  /\ UNCHANGED <<account, members, agents, events, faults, twice>>

(* The error is dropped: the token stays good.                             *)
RevocationFails(q) ==
  /\ At(q, "refresh", "revoke") /\ faults < MaxFaults
  /\ twice' = twice \cup {request[q].token}
  /\ faults' = faults + 1
  /\ Move(q, "status")
  /\ UNCHANGED <<account, members, tokens, agents, events>>

(* The caller's access token is proof enough, for as long as it lives.     *)
SwitchTenant(q, t) ==
  /\ Idle(q) /\ Len(tokens) > 0
  /\ Go(q, [NoRequest EXCEPT !.op = "switch", !.tenant = t, !.stage = "status"])
  /\ OnlyRequests

Logout(t) ==
  /\ Live(t)
  /\ tokens' = Revoked({t})
  /\ UNCHANGED <<account, members, agents, request, events, faults, twice>>

(* issueTokens: the status, the membership, and the new token.             *)
(* Mutant: a refresh is spared the question.                               *)
CheckStatusAtLogin(q) ==
  /\ request[q].stage = "status"
  /\ IF account.status = "active" \/ request[q].op = "refresh"
     THEN Move(q, "membership") ELSE Answer(q)
  /\ OnlyRequests

CheckStatus(q) ==
  /\ request[q].stage = "status"
  /\ IF account.status = "active" THEN Move(q, "membership") ELSE Answer(q)
  /\ OnlyRequests

CheckMembership(q) ==
  /\ request[q].stage = "membership"
  /\ IF request[q].tenant \in members \cup {None} THEN Move(q, "store") ELSE Answer(q)
  /\ OnlyRequests

StoreRefreshToken(q) ==
  /\ request[q].stage = "store" /\ Len(tokens) < MaxTokens
  /\ tokens' = Append(tokens, [live |-> TRUE, tenant |-> request[q].tenant,
                               parent |-> request[q].token])
  /\ Answer(q)
  /\ UNCHANGED <<account, members, agents, events, faults, twice>>

-----------------------------------------------------------------------------
(* Memberships come and go; the revocation that follows is best effort.    *)

AddMember(t) ==
  /\ Exists /\ t \notin members
  /\ members' = members \cup {t}
  /\ UNCHANGED <<account, tokens, agents, request, events, faults, twice>>

RemoveMember(t) ==
  /\ t \in members
  /\ members' = members \ {t}
  /\ request' = Overtaken({q \in Requests : request[q].stage = "store" /\ request[q].tenant = t})
  /\ UNCHANGED <<account, tokens, agents, events, faults, twice>>

RevokeAllForUserInTenant(t) ==
  /\ t \notin members
  /\ \E i \in 1..Len(tokens) : Live(i) /\ tokens[i].tenant = t
  /\ tokens' = Revoked({i \in 1..Len(tokens) : tokens[i].tenant = t})
  /\ UNCHANGED <<account, members, agents, request, events, faults, twice>>

-----------------------------------------------------------------------------
(* The profile, the preferences, and the end of the account.               *)

(* Mutant: the account that was read may be a deleted one.                 *)
ReadAnyAccount(q, op) ==
  /\ Idle(q) /\ Exists
  /\ Go(q, [NoRequest EXCEPT !.op = op, !.stage = "write", !.copy = account])
  /\ OnlyRequests

(* ByID and guardMutable.                                                  *)
ReadAccount(q, op) ==
  /\ Idle(q) /\ account.status = "active"
  /\ Go(q, [NoRequest EXCEPT !.op = op, !.stage = "write", !.copy = account])
  /\ OnlyRequests

Written(q) == [Overtaken({p \in Requests : At(p, "profile", "write")})
                 EXCEPT ![q] = [request[q] EXCEPT !.stage = "publish"]]

(* UpdateUser names every column but the version: the status goes back to  *)
(* what it was when it was read.                                           *)
Update(q) ==
  /\ At(q, "profile", "write")
  /\ account' = [request[q].copy EXCEPT !.version = account.version]
  /\ request' = Written(q)
  /\ UNCHANGED <<members, tokens, agents, events, faults, twice>>

UpdatePreferences(q, prefs) ==
  /\ At(q, "preferences", "write")
  /\ IF account.status = "deleted" THEN Answer(q) /\ OnlyRequests
     ELSE /\ account' = [account EXCEPT !.prefs = prefs]
          /\ request' = Written(q)
          /\ UNCHANGED <<members, tokens, agents, events, faults, twice>>

(* Delete, and SoftDelete's own read.                                      *)
ReadForDelete(q) ==
  /\ Idle(q) /\ account.status = "active"
  /\ Begin(q, "delete", "write")
  /\ OnlyRequests

(* Mutant: the row itself goes.                                            *)
HardDelete(q) ==
  /\ At(q, "delete", "write")
  /\ account' = NoAccount
  /\ Move(q, "sessions")
  /\ UNCHANGED <<members, tokens, agents, events, faults, twice>>

SoftDelete(q) ==
  /\ At(q, "delete", "write")
  /\ IF account.status = "deleted" THEN Answer(q) /\ OnlyRequests
     ELSE /\ account' = [account EXCEPT !.status = "deleted"]
          /\ request' = [Overtaken(Requests)
                           EXCEPT ![q] = [request[q] EXCEPT !.stage = "sessions"]]
          /\ UNCHANGED <<members, tokens, agents, events, faults, twice>>

RevokeAllForUser(q) ==
  /\ At(q, "delete", "sessions")
  /\ tokens' = Revoked(1..Len(tokens))
  /\ Move(q, "publish")
  /\ UNCHANGED <<account, members, agents, events, faults, twice>>

EventOf(op) == IF op = "delete" THEN "deleted" ELSE "updated"

Announce(q, version) ==
  /\ request[q].stage = "publish" /\ Len(events) < MaxEvents
  /\ account' = [account EXCEPT !.version = version]
  /\ events' = Append(events, [kind |-> EventOf(request[q].op), version |-> version])
  /\ Answer(q)
  /\ UNCHANGED <<members, tokens, agents, faults, twice>>

(* Mutant: the version is the one that was read, plus one.                 *)
PublishReadVersion(q) == Announce(q, request[q].copy.version + 1)

(* Mutant: the version of a deleted account is not bumped.                 *)
PublishUndeleted(q) ==
  IF account.status = "deleted" /\ request[q].stage = "publish"
  THEN Answer(q) /\ OnlyRequests ELSE Announce(q, account.version + 1)

(* publishUserEvent bumps the version under the row's lock.                *)
Publish(q) == Announce(q, account.version + 1)

(* A statement fails, or the process dies: what was written stays.         *)
Abandon(q) ==
  /\ request[q].stage \in {"sessions", "publish", "store"} /\ faults < MaxFaults
  /\ faults' = faults + 1
  /\ Answer(q)
  /\ UNCHANGED <<account, members, tokens, agents, events, twice>>

-----------------------------------------------------------------------------
(* Credentials of agents: signed, then recorded, and good while recorded.  *)

Issue(q, a) ==
  /\ Idle(q) /\ Len(tokens) > 0 /\ agents[a] = "none"
  /\ Go(q, [NoRequest EXCEPT !.op = "issue", !.stage = "insert", !.agent = a])
  /\ OnlyRequests

(* The foreign key asks for a row of users, and a deleted account has one. *)
InsertAgent(q) ==
  /\ At(q, "issue", "insert")
  /\ agents' = [agents EXCEPT ![request[q].agent] = "active"]
  /\ Answer(q)
  /\ UNCHANGED <<account, members, tokens, events, faults, twice>>

RevokeAgent(a) ==
  /\ agents[a] = "active"
  /\ agents' = [agents EXCEPT ![a] = "revoked"]
  /\ UNCHANGED <<account, members, tokens, request, events, faults, twice>>

-----------------------------------------------------------------------------
RequestStep(q) ==
  \/ UserIDByKey(q)
  \/ AssertUnique(q)
  \/ Create(q)
  \/ Login(q)
  \/ \E t \in TokenIds : FindValidRefresh(q, t)
  \/ MembershipsForUser(q)
  \/ RevokeRefreshToken(q)
  \/ RevocationFails(q)
  \/ \E t \in Tenants : SwitchTenant(q, t)
  \/ CheckStatus(q)
  \/ CheckMembership(q)
  \/ StoreRefreshToken(q)
  \/ \E op \in {"profile", "preferences"} : ReadAccount(q, op)
  \/ Update(q)
  \/ UpdatePreferences(q, "new")
  \/ ReadForDelete(q)
  \/ SoftDelete(q)
  \/ RevokeAllForUser(q)
  \/ Publish(q)
  \/ Abandon(q)
  \/ \E a \in Agents : Issue(q, a)
  \/ InsertAgent(q)

AccountsNext ==
  \/ \E q \in Requests : RequestStep(q)
  \/ \E t \in TokenIds : Logout(t)
  \/ \E t \in Tenants : AddMember(t) \/ RemoveMember(t) \/ RevokeAllForUserInTenant(t)
  \/ \E a \in Agents : RevokeAgent(a)

AccountsSpec == AccountsInit /\ [][AccountsNext]_accountVars

-----------------------------------------------------------------------------
(* Type invariant of the account, its sessions and the requests on it.     *)
AccountsTypeOK ==
  /\ account \in [status : {"none", "active", "deleted"}, prefs : {"old", "new"}, version : 0..MaxEvents]
  /\ members \subseteq Tenants
  /\ Len(tokens) <= MaxTokens
  /\ \A t \in 1..Len(tokens) :
       /\ tokens[t].live \in BOOLEAN /\ tokens[t].tenant \in Tenants \cup {None}
       /\ tokens[t].parent \in (1..(t - 1)) \cup {None}
  /\ agents \in [Agents -> {"none", "active", "revoked"}]
  /\ \A e \in 1..Len(events) : events[e].kind \in Kinds
  /\ account.status = "none" => account = NoAccount /\ tokens = <<>> /\ events = <<>>
  /\ faults \in 0..MaxFaults /\ twice \subseteq TokenIds

(* However rotations, logouts and switches interleave, a refresh token     *)
(* yields one successor, unless two requests found it before either        *)
(* revoked it, or the revocation failed.                                   *)
RotationYieldsOne ==
  \A t \in 1..Len(tokens) :
    t \notin twice => Cardinality({s \in 1..Len(tokens) : tokens[s].parent = t}) <= 1

(* A session begins for an active account and a membership that stands,    *)
(* unless deletion or removal overtook the request that asked.             *)
SessionsAreEarned ==
  [][\A q \in Requests :
       request[q].stage = "store" /\ Len(tokens') > Len(tokens) /\ request'[q].stage = "idle"
         => \/ request[q].stale
            \/ account.status = "active" /\ request[q].tenant \in members \cup {None}]_accountVars

(* The versions consumers order by grow from event to event, and the last  *)
(* one is the account's.                                                   *)
VersionsOrderEvents ==
  /\ \A e \in 1..Len(events) : events[e].version = e
  /\ account.version = Len(events)

(* A deletion is announced, unless a statement failed or a request is      *)
(* still about to.                                                         *)
DeletionIsAnnounced ==
  account.status = "deleted" /\ faults = 0
    => \/ \E e \in 1..Len(events) : events[e].kind = "deleted"
       \/ \E q \in Requests : request[q].op = "delete"

(* A profile update leaves the status and the preferences alone, unless    *)
(* someone else changed them after it had read the account.                *)
ProfileKeepsTheRest ==
  [][\A q \in Requests :
       At(q, "profile", "write") /\ request'[q].stage = "publish" /\ ~request[q].stale
         => account'.status = "active" /\ account'.prefs = account.prefs]_accountVars

(* The events tell the account's story in the order of its versions, its
   deletion included (postgres_user_repository.go publishUserEvent). *)
AccountsSound == AccountsTypeOK /\ VersionsOrderEvents /\ DeletionIsAnnounced

=============================================================================
