---------------------------- MODULE AccountsProofs ----------------------------
(***************************************************************************)
(* Proofs about Accounts for every number of tenants, of agents and of     *)
(* requests served at the same time, and for every bound on the tokens,    *)
(* the events and the faults.                                              *)
(***************************************************************************)
EXTENDS Accounts, FiniteSetTheorems, TLAPS

Row == [status : {"none", "active", "deleted"}, prefs : {"old", "new"}, version : 0..MaxEvents]
Token == [live : BOOLEAN, tenant : Tenants \cup {None}, parent : TokenIds \cup {None}]
Event == [kind : Kinds, version : Nat]
Ops == {"none", "register", "login", "refresh", "switch", "profile", "preferences", "delete",
        "issue"}
Stages == {"idle", "unique", "create", "memberships", "revoke", "status", "membership", "store",
           "write", "publish", "sessions", "insert"}
Request == [op : Ops, stage : Stages, tenant : Tenants \cup {None}, token : TokenIds \cup {None},
            copy : Row, stale : BOOLEAN, agent : Agents \cup {None}]

FormInv ==
  /\ account \in Row
  /\ members \subseteq Tenants
  /\ tokens \in Seq(Token) /\ Len(tokens) <= MaxTokens
  /\ agents \in [Agents -> {"none", "active", "revoked"}]
  /\ request \in [Requests -> Request]
  /\ events \in Seq(Event) /\ Len(events) <= MaxEvents
  /\ faults \in 0..MaxFaults /\ twice \subseteq TokenIds

(* Whoever is past the door found an account, and it never goes again.     *)
StartInv ==
  /\ ~Exists => account = NoAccount /\ tokens = <<>> /\ events = <<>>
  /\ \A q \in Requests :
       /\ request[q].stage \notin {"idle", "unique", "create"} => Exists
       /\ At(q, "profile", "write") => request[q].copy.status = "active"

(* The account's version counts its events.                                *)
VersionInv == VersionsOrderEvents

(* A deletion under way is announced by the request that wrote it.         *)
DeletionInv ==
  account.status = "deleted" /\ faults = 0
    => \/ \E e \in 1..Len(events) : events[e].kind = "deleted"
       \/ \E q \in Requests : request[q].op = "delete" /\ request[q].stage \in {"sessions", "publish"}

(* What a request has checked still stands, or the request is stale.       *)
SessionInv ==
  \A q \in Requests : ~request[q].stale =>
    /\ request[q].stage \in {"membership", "store"} => account.status = "active"
    /\ request[q].stage = "store" => request[q].tenant \in members \cup {None}

ProfileInv ==
  \A q \in Requests : At(q, "profile", "write") /\ ~request[q].stale =>
    account.status = "active" /\ account.prefs = request[q].copy.prefs

(* The successors of a token, and the requests that carry it.              *)
Heirs(t) == {s \in 1..Len(tokens) : tokens[s].parent = t}
Holders(t) == {q \in Requests : request[q].token = t}

(* A token is in one pair of hands: live, in those of the one request that *)
(* found it and has yet to revoke it, or passed on.                        *)
LineInv ==
  /\ \A s \in 1..Len(tokens) : tokens[s].parent # None => tokens[s].parent \in 1..(s - 1)
  /\ \A q \in Requests :
       /\ request[q].token # None => /\ request[q].token \in 1..Len(tokens)
                                     /\ request[q].op = "refresh" /\ ~Idle(q)
       /\ request[q].op = "refresh" => request[q].token # None

OneHand(t) ==
  /\ \A s1, s2 \in Heirs(t) : s1 = s2
  /\ \A q1, q2 \in Holders(t) : q1 = q2
  /\ Heirs(t) = {} \/ Holders(t) = {}
  /\ Live(t) => /\ Heirs(t) = {}
                /\ \A q \in Holders(t) : request[q].stage \in {"memberships", "revoke"}

RotationInv == \A t \in TokenIds \ twice : OneHand(t)

AccountsInv == /\ FormInv /\ StartInv /\ VersionInv /\ DeletionInv /\ SessionInv /\ ProfileInv
               /\ LineInv /\ RotationInv

-----------------------------------------------------------------------------
LEMMA Rests == NoAccount \in Row /\ NoRequest \in Request
BY AccountsAssumption DEF NoAccount, Row, NoRequest, Request, Ops, Stages

LEMMA RequestFields ==
  ASSUME NEW r \in Request, NEW stage \in Stages, NEW t \in Tenants \cup {None}
  PROVE  /\ [r EXCEPT !.stage = stage] \in Request
         /\ [r EXCEPT !.tenant = t, !.stage = stage] \in Request
         /\ \A op \in Ops : [r EXCEPT !.op = op, !.stage = stage] \in Request
         /\ \A op \in Ops : [r EXCEPT !.op = op, !.tenant = t, !.stage = stage] \in Request
         /\ \A op \in Ops, c \in Row : [r EXCEPT !.op = op, !.stage = stage, !.copy = c] \in Request
         /\ \A op \in Ops, a \in Agents : [r EXCEPT !.op = op, !.stage = stage, !.agent = a] \in Request
         /\ \A op \in Ops, k \in TokenIds :
              [r EXCEPT !.op = op, !.token = k, !.tenant = t, !.stage = stage] \in Request
BY DEF Request

LEMMA StaleForm ==
  ASSUME NEW r \in Request, NEW b \in BOOLEAN PROVE [r EXCEPT !.stale = b] \in Request
BY DEF Request

(* Being overtaken makes a request stale, and nothing else.                *)
LEMMA OvertakenForm ==
  ASSUME NEW S, request \in [Requests -> Request]
  PROVE  \A q \in Requests : \E b \in BOOLEAN :
           /\ Overtaken(S)[q] = [request[q] EXCEPT !.stale = b]
           /\ request[q].stale => b
           /\ q \in S /\ ~Idle(q) => b
<1> SUFFICES ASSUME NEW q \in Requests
             PROVE  \E b \in BOOLEAN : /\ Overtaken(S)[q] = [request[q] EXCEPT !.stale = b]
                                       /\ request[q].stale => b
                                       /\ q \in S /\ ~Idle(q) => b
  OBVIOUS
<1>1. Overtaken(S)[q] = [request[q] EXCEPT !.stale = request[q].stale \/ (~Idle(q) /\ q \in S)]
  BY DEF Overtaken
<1>2. CASE request[q].stale \/ (~Idle(q) /\ q \in S)
  <2>1. (request[q].stale \/ (~Idle(q) /\ q \in S)) = TRUE
    BY <1>2, Zenon
  <2> QED BY <1>1, <2>1
<1>3. CASE ~(request[q].stale \/ (~Idle(q) /\ q \in S))
  <2>1. (request[q].stale \/ (~Idle(q) /\ q \in S)) = FALSE
    BY <1>3, Z3
  <2> QED BY <1>1, <1>3, <2>1
<1> QED BY <1>2, <1>3

(* Revoking tokens ends their lives, and nothing else.                     *)
LEMMA RevokedForm ==
  ASSUME NEW S, tokens \in Seq(Token)
  PROVE  /\ Revoked(S) \in Seq(Token) /\ Len(Revoked(S)) = Len(tokens)
         /\ \A t \in 1..Len(tokens) :
              /\ Revoked(S)[t].parent = tokens[t].parent
              /\ Revoked(S)[t].live => tokens[t].live /\ t \notin S
<1>1. ASSUME NEW t \in 1..Len(tokens)
      PROVE  \E b \in BOOLEAN : /\ Revoked(S)[t] = [tokens[t] EXCEPT !.live = b]
                                /\ b => tokens[t].live /\ t \notin S
  <2>1. Revoked(S)[t] = [tokens[t] EXCEPT !.live = tokens[t].live /\ t \notin S]
    BY DEF Revoked
  <2>2. CASE tokens[t].live /\ t \notin S
    <3>1. (tokens[t].live /\ t \notin S) = TRUE
      BY <2>2, Zenon
    <3> QED BY <2>1, <2>2, <3>1
  <2>3. CASE ~(tokens[t].live /\ t \notin S)
    <3>1. (tokens[t].live /\ t \notin S) = FALSE
      BY <2>3, Z3
    <3> QED BY <2>1, <3>1
  <2> QED BY <2>2, <2>3
<1>2. \A t \in 1..Len(tokens) : tokens[t] \in Token
  OBVIOUS
<1>3. \A t \in 1..Len(tokens) :
        /\ Revoked(S)[t] \in Token /\ Revoked(S)[t].parent = tokens[t].parent
        /\ Revoked(S)[t].live => tokens[t].live /\ t \notin S
  <2> SUFFICES ASSUME NEW t \in 1..Len(tokens)
               PROVE  /\ Revoked(S)[t] \in Token /\ Revoked(S)[t].parent = tokens[t].parent
                      /\ Revoked(S)[t].live => tokens[t].live /\ t \notin S
    OBVIOUS
  <2>1. PICK b \in BOOLEAN : /\ Revoked(S)[t] = [tokens[t] EXCEPT !.live = b]
                             /\ b => tokens[t].live /\ t \notin S
    BY <1>1
  <2> QED BY <1>2, <2>1 DEF Token
<1>4. Revoked(S) = [t \in 1..Len(tokens) |-> Revoked(S)[t]] /\ Len(tokens) \in Nat
  BY DEF Revoked
<1>5. Revoked(S) \in [1..Len(tokens) -> Token]
  BY <1>3, <1>4
<1>6. Revoked(S) \in Seq(Token) /\ Len(Revoked(S)) = Len(tokens)
  BY <1>4, <1>5
<1> QED BY <1>3, <1>6

(* What a step does to the other requests: nothing, or it makes some stale. *)
LEMMA StepForm ==
  ASSUME FormInv, NEW q \in Requests, RequestStep(q)
  PROVE  \E r \in Request :
           \/ request' = [request EXCEPT ![q] = r]
           \/ \E S : request' = [Overtaken(S) EXCEPT ![q] = r]
<1> DEFINE Goal == \E r \in Request :
                     \/ request' = [request EXCEPT ![q] = r]
                     \/ \E S : request' = [Overtaken(S) EXCEPT ![q] = r]
<1>0. /\ request[q] \in Request /\ NoRequest \in Request /\ account \in Row
      /\ \A stage \in Stages : [request[q] EXCEPT !.stage = stage] \in Request
      /\ \A op \in Ops, stage \in Stages : [NoRequest EXCEPT !.op = op, !.stage = stage] \in Request
      /\ None \in Tenants \cup {None} /\ members \subseteq Tenants
  BY Rests, RequestFields DEF FormInv
<1>00. /\ "unique" \in Stages /\ "create" \in Stages /\ "memberships" \in Stages
       /\ "revoke" \in Stages /\ "status" \in Stages /\ "membership" \in Stages
       /\ "store" \in Stages /\ "write" \in Stages /\ "publish" \in Stages
       /\ "sessions" \in Stages /\ "insert" \in Stages
       /\ "register" \in Ops /\ "login" \in Ops /\ "refresh" \in Ops
       /\ "switch" \in Ops /\ "profile" \in Ops /\ "preferences" \in Ops
       /\ "delete" \in Ops /\ "issue" \in Ops
  BY DEF Stages, Ops
<1>1. ASSUME NEW r \in Request, Go(q, r) PROVE Goal
  BY <1>1 DEF Go
<1>2. ASSUME Answer(q) PROVE Goal
  BY <1>0, <1>1, <1>2 DEF Answer
<1>3. ASSUME NEW stage \in Stages, Move(q, stage) PROVE Goal
  BY <1>0, <1>1, <1>3 DEF Move
<1>4. ASSUME NEW op \in Ops, NEW stage \in Stages, Begin(q, op, stage) PROVE Goal
  BY <1>0, <1>1, <1>4 DEF Begin
<1> SUFFICES Goal
  OBVIOUS
<1> HIDE DEF Goal
<1>5. CASE UserIDByKey(q) \/ AssertUnique(q) \/ Create(q) \/ Login(q)
  BY <1>00, <1>2, <1>3, <1>4, <1>5 DEF UserIDByKey, AssertUnique, Create, Login
<1>6. ASSUME NEW t \in TokenIds, FindValidRefresh(q, t) PROVE Goal
  <2>1. t \in 1..Len(tokens)
    BY <1>6 DEF FindValidRefresh, Live
  <2>2. tokens[t] \in Token
    BY <2>1 DEF FormInv
  <2>3. tokens[t].tenant \in Tenants \cup {None} /\ "refresh" \in Ops
    BY <1>00, <2>2 DEF Token
  <2> DEFINE stage == IF tokens[t].tenant = None THEN "memberships" ELSE "revoke"
  <2>4. stage \in Stages
    BY <1>00
  <2>5. [NoRequest EXCEPT !.op = "refresh", !.token = t, !.tenant = tokens[t].tenant,
                          !.stage = stage] \in Request
    BY <1>0, <2>3, <2>4, RequestFields
  <2> QED BY <1>1, <1>6, <2>5 DEF FindValidRefresh
<1>7. CASE MembershipsForUser(q)
  <2>1. PICK t \in Tenants \cup {None} :
          Go(q, [request[q] EXCEPT !.tenant = t,
                   !.stage = IF request[q].op = "refresh" THEN "revoke" ELSE "status"])
    BY <1>0, <1>7 DEF MembershipsForUser
  <2> DEFINE stage == IF request[q].op = "refresh" THEN "revoke" ELSE "status"
  <2>2. stage \in Stages
    BY <1>00
  <2>3. [request[q] EXCEPT !.tenant = t, !.stage = stage] \in Request
    BY <1>0, <2>2, RequestFields
  <2> QED BY <1>1, <2>1, <2>3
<1>8. CASE RevokeRefreshToken(q) \/ RevocationFails(q)
  BY <1>00, <1>3, <1>8 DEF RevokeRefreshToken, RevocationFails
<1>9. ASSUME NEW t \in Tenants, SwitchTenant(q, t) PROVE Goal
  <2>1. [NoRequest EXCEPT !.op = "switch", !.tenant = t, !.stage = "status"] \in Request
    BY <1>0, <1>00, RequestFields
  <2> QED BY <1>1, <1>9, <2>1 DEF SwitchTenant
<1>10. CASE CheckStatus(q) \/ CheckMembership(q) \/ StoreRefreshToken(q)
  BY <1>00, <1>2, <1>3, <1>10 DEF CheckStatus, CheckMembership, StoreRefreshToken
<1>11. ASSUME NEW op \in {"profile", "preferences"}, ReadAccount(q, op) PROVE Goal
  <2>1. [NoRequest EXCEPT !.op = op, !.stage = "write", !.copy = account] \in Request
    BY <1>0, <1>00, RequestFields
  <2> QED BY <1>1, <1>11, <2>1 DEF ReadAccount
<1>12. ASSUME \/ request' = Written(q)
              \/ request' = [Overtaken(Requests) EXCEPT ![q] = [request[q] EXCEPT !.stage = "sessions"]]
       PROVE  Goal
  <2>1. \E r \in Request : \E S : request' = [Overtaken(S) EXCEPT ![q] = r]
    BY <1>0, <1>00, <1>12 DEF Written
  <2> QED BY <2>1 DEF Goal
<1>13. CASE Update(q) \/ UpdatePreferences(q, "new") \/ ReadForDelete(q) \/ SoftDelete(q)
  BY <1>00, <1>2, <1>4, <1>12, <1>13 DEF Update, UpdatePreferences, ReadForDelete, SoftDelete
<1>14. CASE RevokeAllForUser(q) \/ Publish(q) \/ Abandon(q) \/ InsertAgent(q)
  BY <1>00, <1>2, <1>3, <1>14 DEF RevokeAllForUser, Publish, Announce, Abandon, InsertAgent
<1>15. ASSUME NEW a \in Agents, Issue(q, a) PROVE Goal
  <2>1. [NoRequest EXCEPT !.op = "issue", !.stage = "insert", !.agent = a] \in Request
    BY <1>0, <1>00, RequestFields
  <2> QED BY <1>1, <1>15, <2>1 DEF Issue
<1> QED
  BY <1>5, <1>6, <1>7, <1>8, <1>9, <1>10, <1>11, <1>13, <1>14, <1>15 DEF RequestStep

LEMMA OthersForm ==
  ASSUME FormInv, NEW q \in Requests, RequestStep(q)
  PROVE  /\ request' \in [Requests -> Request]
         /\ \A p \in Requests \ {q} : \E b \in BOOLEAN :
              request'[p] = [request[p] EXCEPT !.stale = b] /\ (request[p].stale => b)
<1>0. request \in [Requests -> Request]
  BY DEF FormInv
<1>1. PICK r \in Request : \/ request' = [request EXCEPT ![q] = r]
                           \/ \E S : request' = [Overtaken(S) EXCEPT ![q] = r]
  BY StepForm
<1>2. CASE request' = [request EXCEPT ![q] = r]
  <2>1. \A p \in Requests \ {q} : request'[p] = [request[p] EXCEPT !.stale = request[p].stale]
                                  /\ request[p].stale \in BOOLEAN
    BY <1>0, <1>2 DEF Request
  <2> QED BY <1>0, <1>2, <2>1
<1>3. ASSUME NEW S, request' = [Overtaken(S) EXCEPT ![q] = r]
      PROVE  /\ request' \in [Requests -> Request]
             /\ \A p \in Requests \ {q} : \E b \in BOOLEAN :
                  request'[p] = [request[p] EXCEPT !.stale = b] /\ (request[p].stale => b)
  <2>0. \A p \in Requests : \E b \in BOOLEAN :
          Overtaken(S)[p] = [request[p] EXCEPT !.stale = b] /\ (request[p].stale => b)
    BY <1>0, OvertakenForm
  <2>1. ASSUME NEW p \in Requests PROVE Overtaken(S)[p] \in Request
    <3>1. PICK b \in BOOLEAN : Overtaken(S)[p] = [request[p] EXCEPT !.stale = b]
      BY <2>0
    <3> QED BY <1>0, <3>1, StaleForm
  <2>2. Overtaken(S) \in [Requests -> Request]
    BY <2>1 DEF Overtaken
  <2>3. \A p \in Requests \ {q} : request'[p] = Overtaken(S)[p]
    BY <1>3, <2>2
  <2> QED BY <1>0, <1>3, <2>0, <2>2, <2>3
<1> QED BY <1>1, <1>2, <1>3

-----------------------------------------------------------------------------
(* Everything but the requests: well typed, empty before registration, and *)
(* the versions in step with the events.                                   *)
World ==
  /\ account \in Row /\ members \subseteq Tenants
  /\ tokens \in Seq(Token) /\ Len(tokens) <= MaxTokens
  /\ agents \in [Agents -> {"none", "active", "revoked"}]
  /\ events \in Seq(Event) /\ Len(events) <= MaxEvents
  /\ faults \in 0..MaxFaults /\ twice \subseteq TokenIds
  /\ ~Exists => account = NoAccount /\ tokens = <<>> /\ events = <<>>
  /\ VersionsOrderEvents

LEMMA WorldIs == FormInv /\ StartInv /\ VersionInv => World
BY DEF FormInv, StartInv, VersionInv, World

(* One event more, of the next version.                                    *)
LEMMA Announced ==
  ASSUME World, Len(events) < MaxEvents, NEW kind \in Kinds, NEW v, v = account.version + 1,
         events' = Append(events, [kind |-> kind, version |-> v]), account'.version = v
  PROVE  /\ events' \in Seq(Event) /\ Len(events') <= MaxEvents /\ VersionsOrderEvents'
         /\ v \in 0..MaxEvents
<1>1. Len(events) \in Nat /\ account.version = Len(events) /\ MaxEvents \in Nat
  BY AccountsAssumption DEF World, VersionsOrderEvents
<1>2. v \in Nat /\ v \in 0..MaxEvents /\ v = Len(events) + 1
  BY <1>1
<1>3. events \in Seq(Event) /\ [kind |-> kind, version |-> v] \in Event
  BY <1>2 DEF World, Event
<1>4. events' \in Seq(Event) /\ Len(events') = Len(events) + 1
  BY <1>3
<1>5. \A e \in 1..Len(events') :
        events'[e] = IF e <= Len(events) THEN events[e] ELSE [kind |-> kind, version |-> v]
  BY <1>1, <1>3, <1>4
<1>6. VersionsOrderEvents'
  BY <1>1, <1>2, <1>4, <1>5 DEF World, VersionsOrderEvents
<1> QED BY <1>1, <1>2, <1>4, <1>6

(* What a request may do to the world.                                     *)
LEMMA WorldKept ==
  ASSUME FormInv, StartInv, LineInv, World, NEW q \in Requests, RequestStep(q)
  PROVE  World' /\ (Exists => Exists')
<1> DEFINE Goal == World' /\ (Exists => Exists')
<1>0. request[q] \in Request /\ account \in Row /\ tokens \in Seq(Token)
  BY DEF FormInv
<1>1. ASSUME OnlyRequests PROVE Goal
  BY <1>1 DEF OnlyRequests, VersionsOrderEvents, Exists, World
<1>2. CASE Create(q)
  <2>1. CASE Exists
    BY <1>2, <2>1 DEF Create, VersionsOrderEvents, Exists, World
  <2>2. CASE ~Exists
    <3>1. /\ account' = [status |-> "active", prefs |-> "old", version |-> 1]
          /\ events' = Append(events, [kind |-> "created", version |-> 1])
          /\ members' \subseteq Tenants /\ UNCHANGED <<tokens, agents, faults, twice>>
      BY <1>2, <2>2 DEF Create
    <3>2. events = <<>> /\ account.version = 0 /\ 1 = account.version + 1 /\ "created" \in Kinds
      BY <2>2 DEF World, NoAccount, Kinds
    <3>3. Len(events) < MaxEvents /\ account'.version = 1
      BY <3>1, <3>2, AccountsAssumption
    <3>4. events' \in Seq(Event) /\ Len(events') <= MaxEvents /\ VersionsOrderEvents'
          /\ 1 \in 0..MaxEvents
      BY <3>1, <3>2, <3>3, Announced
    <3> QED BY <2>2, <3>1, <3>4 DEF World, Row, Exists
  <2> QED BY <2>1, <2>2
<1>3. ASSUME NEW t \in TokenIds, FindValidRefresh(q, t) PROVE Goal
  BY <1>3 DEF FindValidRefresh, World, VersionsOrderEvents, Exists
<1>4. ASSUME NEW S, tokens' = Revoked(S), UNCHANGED <<account, members, agents, events, faults, twice>>
      PROVE  Goal
  <2>1. tokens' \in Seq(Token) /\ Len(tokens') = Len(tokens)
    BY <1>0, <1>4, RevokedForm
  <2>2. ~Exists => tokens' = <<>>
    <3>1. \A s \in Seq(Token) : Len(s) = 0 => s = <<>>
      OBVIOUS
    <3> QED BY <1>0, <2>1, <3>1 DEF World
  <2> QED BY <1>4, <2>1, <2>2 DEF World, VersionsOrderEvents, Exists
<1>5. CASE RevokeRefreshToken(q) \/ RevokeAllForUser(q)
  BY <1>4, <1>5 DEF RevokeRefreshToken, RevokeAllForUser
<1>6. CASE RevocationFails(q)
  <2>1. request[q].token \in TokenIds
    BY <1>0, <1>6 DEF RevocationFails, At, LineInv, Request
  <2>2. faults' \in 0..MaxFaults
    BY <1>6, AccountsAssumption DEF RevocationFails, World
  <2> QED BY <1>6, <2>1, <2>2 DEF RevocationFails, World, VersionsOrderEvents, Exists
<1>7. CASE StoreRefreshToken(q)
  <2>1. Exists /\ UNCHANGED <<account, members, agents, events, faults, twice>>
    BY <1>7 DEF StoreRefreshToken, StartInv
  <2>2. [live |-> TRUE, tenant |-> request[q].tenant, parent |-> request[q].token] \in Token
    BY <1>0 DEF Request, Token
  <2>3. tokens' \in Seq(Token) /\ Len(tokens') <= MaxTokens
    BY <1>0, <1>7, <2>2, AccountsAssumption DEF StoreRefreshToken
  <2> QED BY <2>1, <2>3 DEF World, VersionsOrderEvents, Exists
<1>8. CASE Update(q)
  <2>1. /\ account' = [request[q].copy EXCEPT !.version = account.version]
        /\ request[q].copy \in Row /\ request[q].copy.status = "active"
        /\ Exists /\ UNCHANGED <<members, tokens, agents, events, faults, twice>>
    BY <1>0, <1>8 DEF Update, At, StartInv, Request
  <2>2. account' \in Row /\ Exists' /\ account'.version = account.version
    BY <1>0, <2>1 DEF Row, Exists
  <2> QED BY <2>1, <2>2 DEF World, VersionsOrderEvents
<1>9. ASSUME account' \in Row, account'.version = account.version, account'.status # "none",
             UNCHANGED <<members, tokens, agents, events, faults, twice>>
      PROVE  Goal
  BY <1>9 DEF World, VersionsOrderEvents, Exists
<1>10. CASE UpdatePreferences(q, "new")
  <2>1. Exists
    BY <1>10 DEF UpdatePreferences, At, StartInv
  <2>2. CASE account.status = "deleted"
    BY <1>1, <1>10, <2>2 DEF UpdatePreferences
  <2>3. CASE account.status # "deleted"
    <3>1. account' \in Row /\ account'.version = account.version /\ account'.status # "none"
      BY <1>0, <1>10, <2>1, <2>3 DEF UpdatePreferences, Row, Exists
    <3> QED BY <1>9, <1>10, <2>3, <3>1 DEF UpdatePreferences
  <2> QED BY <2>2, <2>3
<1>11. CASE SoftDelete(q)
  <2>1. CASE account.status = "deleted"
    BY <1>1, <1>11, <2>1 DEF SoftDelete
  <2>2. CASE account.status # "deleted"
    <3>1. account' \in Row /\ account'.version = account.version /\ account'.status # "none"
      BY <1>0, <1>11, <2>2 DEF SoftDelete, Row
    <3> QED BY <1>9, <1>11, <2>2, <3>1 DEF SoftDelete
  <2> QED BY <2>1, <2>2
<1>12. CASE Publish(q)
  <2>1. /\ account' = [account EXCEPT !.version = account.version + 1] /\ Exists
        /\ Len(events) < MaxEvents
        /\ events' = Append(events, [kind |-> EventOf(request[q].op), version |-> account.version + 1])
        /\ UNCHANGED <<members, tokens, agents, faults, twice>>
    BY <1>12 DEF Publish, Announce, StartInv
  <2>2. EventOf(request[q].op) \in Kinds /\ account'.version = account.version + 1
    BY <1>0, <2>1 DEF EventOf, Kinds, Row
  <2>3. events' \in Seq(Event) /\ Len(events') <= MaxEvents /\ VersionsOrderEvents'
        /\ account.version + 1 \in 0..MaxEvents
    BY <2>1, <2>2, Announced
  <2>4. account' \in Row /\ Exists'
    BY <1>0, <2>1, <2>3 DEF Row, Exists
  <2> QED BY <2>1, <2>3, <2>4 DEF World
<1>13. CASE Abandon(q) \/ InsertAgent(q)
  <2>1. faults' \in 0..MaxFaults /\ agents' \in [Agents -> {"none", "active", "revoked"}]
        /\ UNCHANGED <<account, members, tokens, events, twice>>
    BY <1>13, AccountsAssumption DEF Abandon, InsertAgent, World
  <2> QED BY <2>1 DEF World, VersionsOrderEvents, Exists
<1>14. CASE OnlyRequests
  BY <1>1, <1>14
<1> QED BY <1>2, <1>3, <1>5, <1>6, <1>7, <1>8, <1>10, <1>11, <1>12, <1>13, <1>14
        DEF RequestStep, UserIDByKey, AssertUnique, Login, MembershipsForUser, SwitchTenant,
            CheckStatus, CheckMembership, ReadAccount, ReadForDelete, Issue

(* Logouts, memberships and agents' credentials.                           *)
OtherStep ==
  \/ \E t \in TokenIds : Logout(t)
  \/ \E t \in Tenants : AddMember(t) \/ RemoveMember(t) \/ RevokeAllForUserInTenant(t)
  \/ \E a \in Agents : RevokeAgent(a)

LEMMA OtherWorldKept ==
  ASSUME FormInv, World, OtherStep
  PROVE  /\ World' /\ account' = account /\ events' = events /\ faults' = faults /\ twice' = twice
         /\ tokens' = tokens \/ \E S : tokens' = Revoked(S)
<1> DEFINE Goal == /\ World' /\ account' = account /\ events' = events
                   /\ faults' = faults /\ twice' = twice
                   /\ tokens' = tokens \/ \E S : tokens' = Revoked(S)
<1>1. ASSUME NEW S, tokens' = Revoked(S), Exists,
             UNCHANGED <<account, members, agents, events, faults, twice>>
      PROVE  Goal
  <2>1. tokens' \in Seq(Token) /\ Len(tokens') = Len(tokens)
    BY <1>1, RevokedForm DEF World
  <2> QED BY <1>1, <2>1 DEF World, VersionsOrderEvents, Exists
<1>2. ASSUME NEW i \in 1..Len(tokens) PROVE Exists
  BY <1>2 DEF World
<1>3. ASSUME NEW t \in TokenIds, Logout(t) PROVE Goal
  BY <1>1, <1>2, <1>3 DEF Logout, Live
<1>4. ASSUME NEW t \in Tenants, RevokeAllForUserInTenant(t) PROVE Goal
  BY <1>1, <1>2, <1>4 DEF RevokeAllForUserInTenant
<1>5. ASSUME NEW t \in Tenants, AddMember(t) \/ RemoveMember(t) PROVE Goal
  BY <1>5 DEF AddMember, RemoveMember, World, VersionsOrderEvents, Exists
<1>6. ASSUME NEW a \in Agents, RevokeAgent(a) PROVE Goal
  BY <1>6 DEF RevokeAgent, World, VersionsOrderEvents, Exists
<1> QED BY <1>3, <1>4, <1>5, <1>6 DEF OtherStep

(* A request that stored nothing yet learns of a removal by being stale.   *)
LEMMA OtherForm ==
  ASSUME FormInv, OtherStep
  PROVE  /\ request' \in [Requests -> Request]
         /\ \A p \in Requests : \E b \in BOOLEAN :
              /\ request'[p] = [request[p] EXCEPT !.stale = b]
              /\ request[p].stale => b
              /\ request[p].stage = "store" /\ request[p].tenant \in members \cup {None} /\ ~b
                   => request[p].tenant \in members' \cup {None}
<1>0. request \in [Requests -> Request]
  BY DEF FormInv
<1> DEFINE Fine(p, r) == \E b \in BOOLEAN :
              /\ r = [request[p] EXCEPT !.stale = b]
              /\ request[p].stale => b
              /\ request[p].stage = "store" /\ request[p].tenant \in members \cup {None} /\ ~b
                   => request[p].tenant \in members' \cup {None}
<1>1. ASSUME request' = request, members \subseteq members'
      PROVE  \A p \in Requests : Fine(p, request'[p])
  <2>1. \A p \in Requests : request'[p] = [request[p] EXCEPT !.stale = request[p].stale]
                            /\ request[p].stale \in BOOLEAN
    BY <1>0, <1>1 DEF Request
  <2> QED BY <1>1, <2>1
<1>2. ASSUME NEW t \in Tenants, RemoveMember(t) PROVE \A p \in Requests : Fine(p, request'[p])
  <2> SUFFICES ASSUME NEW p \in Requests PROVE Fine(p, request'[p])
    OBVIOUS
  <2> DEFINE S == {r \in Requests : request[r].stage = "store" /\ request[r].tenant = t}
  <2>1. request' = Overtaken(S) /\ members' = members \ {t}
    BY <1>2 DEF RemoveMember
  <2>2. PICK b \in BOOLEAN : /\ Overtaken(S)[p] = [request[p] EXCEPT !.stale = b]
                             /\ request[p].stale => b
                             /\ p \in S /\ ~Idle(p) => b
    BY <1>0, OvertakenForm
  <2>3. request[p].stage = "store" /\ request[p].tenant \in members \cup {None} /\ ~b
          => request[p].tenant \in members' \cup {None}
    BY <2>1, <2>2 DEF Idle
  <2> QED BY <2>1, <2>2, <2>3
<1>3. \A p \in Requests : Fine(p, request'[p])
  BY <1>1, <1>2 DEF OtherStep, Logout, AddMember, RevokeAllForUserInTenant, RevokeAgent
<1>4. request' = [p \in Requests |-> request'[p]]
  BY <1>0 DEF OtherStep, Logout, AddMember, RemoveMember, RevokeAllForUserInTenant, RevokeAgent,
              Overtaken
<1>5. \A p \in Requests : request'[p] \in Request
  <2> SUFFICES ASSUME NEW p \in Requests PROVE request'[p] \in Request
    OBVIOUS
  <2>1. PICK b \in BOOLEAN : request'[p] = [request[p] EXCEPT !.stale = b]
    BY <1>3
  <2> QED BY <1>0, <2>1, StaleForm
<1> QED BY <1>3, <1>4, <1>5

(* How the account changes, and who learns of it.                          *)
LEMMA AccountEffect ==
  ASSUME FormInv, StartInv, World, NEW q \in Requests, RequestStep(q)
  PROVE  \/ account'.status = account.status /\ account'.prefs = account.prefs /\ members' = members
         \/ ~Exists
         \/ /\ Exists /\ members' = members /\ account'.status \in {"active", account.status}
            /\ \A p \in Requests \ {q} : At(p, "profile", "write") => request'[p].stale
         \/ /\ Exists /\ members' = members
            /\ \A p \in Requests \ {q} : ~Idle(p) => request'[p].stale
<1>0. request \in [Requests -> Request] /\ account \in Row
  BY DEF FormInv
<1>1. ASSUME NEW S, NEW r, request' = [Overtaken(S) EXCEPT ![q] = r]
      PROVE  \A p \in Requests \ {q} : p \in S /\ ~Idle(p) => request'[p].stale
  <2> SUFFICES ASSUME NEW p \in Requests \ {q}, p \in S, ~Idle(p) PROVE request'[p].stale
    OBVIOUS
  <2>1. request'[p] = Overtaken(S)[p]
    BY <1>1 DEF Overtaken
  <2>2. Overtaken(S)[p] = [request[p] EXCEPT !.stale = TRUE]
    BY <1>0, OvertakenForm
  <2> QED BY <1>0, <2>1, <2>2 DEF Request
<1>2. ASSUME request' = Written(q)
      PROVE  \A p \in Requests \ {q} : At(p, "profile", "write") => request'[p].stale
  <2>1. \A p \in Requests : At(p, "profile", "write")
                              => p \in {x \in Requests : At(x, "profile", "write")} /\ ~Idle(p)
    BY DEF At, Idle
  <2> QED BY <1>1, <1>2, <2>1 DEF Written
<1>3. CASE Update(q)
  <2>1. Exists /\ account'.status = "active" /\ members' = members
    BY <1>0, <1>3 DEF Update, At, StartInv, Request, Row
  <2> QED BY <1>2, <1>3, <2>1 DEF Update
<1>4. CASE UpdatePreferences(q, "new")
  BY <1>0, <1>2, <1>4 DEF UpdatePreferences, OnlyRequests, Row, At, StartInv
<1>5. CASE SoftDelete(q)
  BY <1>1, <1>5 DEF SoftDelete, OnlyRequests, At, StartInv
<1>6. CASE Publish(q)
  BY <1>0, <1>6 DEF Publish, Announce, Row
<1>7. CASE Create(q)
  BY <1>7 DEF Create
<1>8. CASE UNCHANGED <<account, members>>
  BY <1>8
<1> QED BY <1>3, <1>4, <1>5, <1>6, <1>7, <1>8
        DEF RequestStep, OnlyRequests, UserIDByKey, AssertUnique, Login, FindValidRefresh,
            MembershipsForUser, RevokeRefreshToken, RevocationFails, SwitchTenant, CheckStatus,
            CheckMembership, StoreRefreshToken, ReadAccount, ReadForDelete, RevokeAllForUser,
            Abandon, Issue, InsertAgent

(* Tokens are added one by one, and never change but to be revoked.        *)
LEMMA TokensEffect ==
  ASSUME FormInv, World, NEW q \in Requests, RequestStep(q)
  PROVE  /\ tokens' = tokens \/ (\E S : tokens' = Revoked(S)) \/ StoreRefreshToken(q)
         /\ Len(tokens) \in Nat /\ Len(tokens') \in Nat /\ Len(tokens) <= Len(tokens')
<1>1. tokens' = tokens \/ (\E S : tokens' = Revoked(S)) \/ StoreRefreshToken(q)
  BY DEF RequestStep, OnlyRequests, UserIDByKey, AssertUnique, Login, FindValidRefresh,
         MembershipsForUser, RevokeRefreshToken, RevocationFails, SwitchTenant, CheckStatus,
         CheckMembership, ReadAccount, ReadForDelete, RevokeAllForUser, Abandon, Issue,
         InsertAgent, Create, Update, UpdatePreferences, SoftDelete, Publish, Announce
<1>2. CASE StoreRefreshToken(q)
  <2>1. [live |-> TRUE, tenant |-> request[q].tenant, parent |-> request[q].token] \in Token
    BY DEF FormInv, Request, Token
  <2>2. Len(tokens') = Len(tokens) + 1 /\ Len(tokens) \in Nat
    BY <1>2, <2>1 DEF StoreRefreshToken, World
  <2> QED BY <1>2, <2>2
<1>3. ASSUME NEW S, tokens' = Revoked(S) PROVE Len(tokens') = Len(tokens)
  BY <1>3, RevokedForm DEF World
<1>4. Len(tokens) \in Nat
  BY DEF World
<1> QED BY <1>1, <1>2, <1>3, <1>4

(* What holds of one request.                                              *)
Sound(p) ==
  /\ request[p].stage \notin {"idle", "unique", "create"} => Exists
  /\ At(p, "profile", "write") => request[p].copy.status = "active"
  /\ ~request[p].stale =>
       /\ request[p].stage \in {"membership", "store"} => account.status = "active"
       /\ request[p].stage = "store" => request[p].tenant \in members \cup {None}
       /\ At(p, "profile", "write") =>
            account.status = "active" /\ account.prefs = request[p].copy.prefs
  /\ request[p].token # None =>
       request[p].token \in 1..Len(tokens) /\ request[p].op = "refresh" /\ ~Idle(p)
  /\ request[p].op = "refresh" => request[p].token # None

LEMMA SoundIs ==
  /\ StartInv /\ SessionInv /\ ProfileInv /\ LineInv => \A p \in Requests : Sound(p)
  /\ (\A p \in Requests : Sound(p)) => SessionInv /\ ProfileInv
BY DEF StartInv, SessionInv, ProfileInv, LineInv, Sound

LEMMA OthersSound ==
  ASSUME FormInv, StartInv, LineInv, World, NEW q \in Requests, RequestStep(q),
         NEW p \in Requests \ {q}, Sound(p)
  PROVE  Sound(p)'
<1>1. PICK b \in BOOLEAN : request'[p] = [request[p] EXCEPT !.stale = b] /\ (request[p].stale => b)
  BY OthersForm
<1>2. /\ request'[p].stage = request[p].stage /\ request'[p].op = request[p].op
      /\ request'[p].tenant = request[p].tenant /\ request'[p].token = request[p].token
      /\ request'[p].copy = request[p].copy
      /\ request[p].stale => request'[p].stale
  BY <1>1 DEF FormInv, Request
<1>3. Exists => Exists'
  BY WorldKept
<1>4. Len(tokens) \in Nat /\ Len(tokens') \in Nat /\ Len(tokens) <= Len(tokens')
  BY TokensEffect
<1>5. /\ request'[p].token # None =>
           request'[p].token \in 1..Len(tokens') /\ request'[p].op = "refresh" /\ ~Idle(p)'
      /\ request'[p].op = "refresh" => request'[p].token # None
  BY <1>2, <1>4 DEF Sound, Idle
<1>6. /\ request'[p].stage \notin {"idle", "unique", "create"} => Exists'
      /\ At(p, "profile", "write")' => request'[p].copy.status = "active"
  BY <1>2, <1>3 DEF Sound, At
<1>7. SUFFICES ASSUME ~request'[p].stale
               PROVE  /\ request'[p].stage \in {"membership", "store"} => account'.status = "active"
                      /\ request'[p].stage = "store" => request'[p].tenant \in members' \cup {None}
                      /\ At(p, "profile", "write")' =>
                           account'.status = "active" /\ account'.prefs = request'[p].copy.prefs
  BY <1>5, <1>6 DEF Sound
<1>8. CASE account'.status = account.status /\ account'.prefs = account.prefs /\ members' = members
  BY <1>2, <1>7, <1>8 DEF Sound, At
<1>9. CASE ~Exists
  BY <1>2, <1>9 DEF Sound, At
<1>10. CASE /\ members' = members /\ account'.status \in {"active", account.status}
            /\ At(p, "profile", "write") => request'[p].stale
  BY <1>2, <1>7, <1>10 DEF Sound, At
<1>11. CASE ~Idle(p) => request'[p].stale
  BY <1>2, <1>7, <1>11 DEF At, Idle
<1> QED BY <1>8, <1>9, <1>10, <1>11, AccountEffect

LEMMA OtherSound ==
  ASSUME FormInv, World, OtherStep, NEW p \in Requests, Sound(p)
  PROVE  Sound(p)'
<1>1. PICK b \in BOOLEAN :
        /\ request'[p] = [request[p] EXCEPT !.stale = b]
        /\ request[p].stale => b
        /\ request[p].stage = "store" /\ request[p].tenant \in members \cup {None} /\ ~b
             => request[p].tenant \in members' \cup {None}
  BY OtherForm
<1>2. /\ request'[p].stage = request[p].stage /\ request'[p].op = request[p].op
      /\ request'[p].tenant = request[p].tenant /\ request'[p].token = request[p].token
      /\ request'[p].copy = request[p].copy /\ request'[p].stale = b
  BY <1>1 DEF FormInv, Request
<1>3. Len(tokens') = Len(tokens) /\ account' = account
  BY OtherWorldKept, RevokedForm DEF World
<1> QED BY <1>1, <1>2, <1>3 DEF Sound, Idle, At, Exists

LEMMA OwnSound ==
  ASSUME FormInv, StartInv, LineInv, World, NEW q \in Requests, RequestStep(q), Sound(q)
  PROVE  Sound(q)'
<1>0. request \in [Requests -> Request] /\ request[q] \in Request /\ account \in Row
  BY DEF FormInv
<1>1. /\ NoRequest.stage = "idle" /\ NoRequest.op = "none" /\ NoRequest.token = None
      /\ NoRequest.stale = FALSE
  BY DEF NoRequest
<1>2. ASSUME Answer(q) PROVE Sound(q)'
  BY <1>0, <1>1, <1>2 DEF Answer, Go, Sound, At, Idle
<1>3. Len(tokens) \in Nat /\ Len(tokens') \in Nat /\ Len(tokens) <= Len(tokens')
  BY TokensEffect
(* Steps that go on without having checked anything.                       *)
<1>4. ASSUME NEW stage \in Stages \ {"idle", "membership", "store", "write"}, Move(q, stage),
             stage \in {"unique", "create"} \/ Exists'
      PROVE  Sound(q)'
  <2>1. /\ request'[q].stage = stage /\ request'[q].op = request[q].op
        /\ request'[q].token = request[q].token
    BY <1>0, <1>4 DEF Move, Go, Request
  <2> QED BY <1>3, <1>4, <2>1 DEF Sound, At, Idle
<1>5. ASSUME NEW op \in Ops \ {"refresh"}, NEW stage \in Stages \ {"idle", "membership", "store"},
             Begin(q, op, stage), stage \in {"unique", "create"} \/ Exists',
             ~(op = "profile" /\ stage = "write")
      PROVE  Sound(q)'
  <2>1. request'[q].stage = stage /\ request'[q].op = op /\ request'[q].token = None
    BY <1>0, <1>5 DEF Begin, Go, NoRequest
  <2> QED BY <1>5, <2>1 DEF Sound, At
<1>6. Exists => Exists'
  BY WorldKept
<1>7. request[q].stage \notin {"idle", "unique", "create"} => Exists
  BY DEF Sound
<1>8. /\ "unique" \in Stages /\ "create" \in Stages /\ "memberships" \in Stages
      /\ "status" \in Stages /\ "write" \in Stages /\ "publish" \in Stages
      /\ "register" \in Ops /\ "login" \in Ops /\ "delete" \in Ops
  BY DEF Stages, Ops
<1>9. CASE UserIDByKey(q) \/ AssertUnique(q) \/ Create(q) \/ Login(q) \/ ReadForDelete(q)
  <2>1. account.status = "active" => Exists
    BY DEF Exists
  <2> QED BY <1>2, <1>4, <1>5, <1>6, <1>8, <1>9, <2>1
             DEF UserIDByKey, AssertUnique, Create, Login, ReadForDelete
<1>10. CASE RevokeRefreshToken(q) \/ RevocationFails(q) \/ RevokeAllForUser(q)
  BY <1>4, <1>6, <1>7, <1>8, <1>10 DEF RevokeRefreshToken, RevocationFails, RevokeAllForUser, At
<1>11. CASE Publish(q) \/ Abandon(q) \/ InsertAgent(q) \/ StoreRefreshToken(q)
  BY <1>2, <1>11 DEF Publish, Announce, Abandon, InsertAgent, StoreRefreshToken
<1>12. ASSUME NEW t \in TokenIds, FindValidRefresh(q, t) PROVE Sound(q)'
  <2>1. /\ request'[q].op = "refresh" /\ request'[q].token = t
        /\ request'[q].stage \in {"memberships", "revoke"}
        /\ t \in 1..Len(tokens)
    BY <1>0, <1>12 DEF FindValidRefresh, Go, NoRequest, Live
  <2>2. Exists
    BY <2>1 DEF World
  <2>3. t # None
    BY AccountsAssumption DEF TokenIds
  <2> QED BY <1>3, <1>6, <2>1, <2>2, <2>3 DEF Sound, At, Idle
<1>13. CASE MembershipsForUser(q)
  <2>1. /\ request'[q].stage \in {"revoke", "status"} /\ request'[q].op = request[q].op
        /\ request'[q].token = request[q].token /\ request[q].stage = "memberships"
    BY <1>0, <1>13 DEF MembershipsForUser, Go, Request
  <2> QED BY <1>3, <1>6, <1>7, <2>1 DEF Sound, At, Idle
<1>14. ASSUME NEW t \in Tenants, SwitchTenant(q, t) PROVE Sound(q)'
  <2>1. request'[q].op = "switch" /\ request'[q].token = None /\ request'[q].stage = "status"
    BY <1>0, <1>14 DEF SwitchTenant, Go, NoRequest
  <2>2. Exists
    BY <1>14 DEF SwitchTenant, World
  <2> QED BY <1>6, <2>1, <2>2 DEF Sound, At
<1>15. CASE CheckStatus(q)
  <2>1. CASE account.status = "active"
    <3>1. /\ request'[q].stage = "membership" /\ request'[q].op = request[q].op
          /\ request'[q].token = request[q].token /\ account' = account
          /\ request[q].stage = "status"
      BY <1>0, <1>15, <2>1 DEF CheckStatus, Move, Go, OnlyRequests, Request
    <3> QED BY <1>3, <1>6, <1>7, <2>1, <3>1 DEF Sound, At, Idle
  <2>2. CASE account.status # "active"
    BY <1>2, <1>15, <2>2 DEF CheckStatus
  <2> QED BY <2>1, <2>2
<1>16. CASE CheckMembership(q)
  <2>1. CASE request[q].tenant \in members \cup {None}
    <3>1. /\ request'[q].stage = "store" /\ request'[q].op = request[q].op
          /\ request'[q].token = request[q].token /\ request'[q].tenant = request[q].tenant
          /\ request'[q].stale = request[q].stale
          /\ account' = account /\ members' = members /\ request[q].stage = "membership"
      BY <1>0, <1>16, <2>1 DEF CheckMembership, Move, Go, OnlyRequests, Request
    <3> QED BY <1>3, <1>6, <1>7, <2>1, <3>1 DEF Sound, At, Idle
  <2>2. CASE request[q].tenant \notin members \cup {None}
    BY <1>2, <1>16, <2>2 DEF CheckMembership
  <2> QED BY <2>1, <2>2
<1>17. ASSUME NEW op \in {"profile", "preferences"}, ReadAccount(q, op) PROVE Sound(q)'
  <2>1. /\ request'[q].op = op /\ request'[q].token = None /\ request'[q].stage = "write"
        /\ request'[q].copy = account /\ account' = account /\ account.status = "active"
    BY <1>0, <1>17 DEF ReadAccount, Go, NoRequest, OnlyRequests
  <2> QED BY <2>1 DEF Sound, At, Exists
<1>18. ASSUME NEW S, request[q].stage = "write", NEW stage \in {"publish", "sessions"},
              request' = [Overtaken(S) EXCEPT ![q] = [request[q] EXCEPT !.stage = stage]]
       PROVE  Sound(q)'
  <2>1. request'[q] = [request[q] EXCEPT !.stage = stage]
    BY <1>18 DEF Overtaken
  <2>2. /\ request'[q].stage = stage /\ request'[q].op = request[q].op
        /\ request'[q].token = request[q].token
    BY <1>0, <2>1 DEF Request
  <2> QED BY <1>3, <1>6, <1>7, <1>18, <2>2 DEF Sound, At, Idle
<1>19. CASE Update(q) \/ UpdatePreferences(q, "new")
  BY <1>2, <1>18, <1>19 DEF Update, UpdatePreferences, Written, At
<1>20. CASE SoftDelete(q)
  BY <1>2, <1>18, <1>20 DEF SoftDelete, At
<1>21. ASSUME NEW a \in Agents, Issue(q, a) PROVE Sound(q)'
  <2>1. request'[q].op = "issue" /\ request'[q].token = None /\ request'[q].stage = "insert"
    BY <1>0, <1>21 DEF Issue, Go, NoRequest
  <2>2. Exists
    BY <1>21 DEF Issue, World
  <2> QED BY <1>6, <2>1, <2>2 DEF Sound, At
<1> QED BY <1>9, <1>10, <1>11, <1>12, <1>13, <1>14, <1>15, <1>16, <1>17, <1>19, <1>20, <1>21
        DEF RequestStep

(* A deletion that was written is announced by the request that wrote it.  *)
LEMMA DeletionKept ==
  ASSUME FormInv, StartInv, LineInv, World, DeletionInv, [AccountsNext]_accountVars
  PROVE  DeletionInv'
<1> DEFINE Told == \E e \in 1..Len(events) : events[e].kind = "deleted"
           Tells(q) == request[q].op = "delete" /\ request[q].stage \in {"sessions", "publish"}
<1>0. faults \in Nat /\ request \in [Requests -> Request]
  BY DEF FormInv
<1>1. SUFFICES ASSUME account'.status = "deleted", faults' = 0
               PROVE  Told' \/ \E q \in Requests : Tells(q)'
  BY DEF DeletionInv
<1>2. CASE UNCHANGED accountVars
  BY <1>1, <1>2 DEF accountVars, DeletionInv
<1>3. CASE OtherStep
  <2>1. \A p \in Requests : request'[p].op = request[p].op /\ request'[p].stage = request[p].stage
    <3> SUFFICES ASSUME NEW p \in Requests
                 PROVE  request'[p].op = request[p].op /\ request'[p].stage = request[p].stage
      OBVIOUS
    <3>1. PICK b \in BOOLEAN : request'[p] = [request[p] EXCEPT !.stale = b]
      BY <1>3, OtherForm
    <3> QED BY <1>0, <3>1 DEF Request
  <2> QED BY <1>1, <1>3, <2>1, OtherWorldKept DEF DeletionInv
<1>4. ASSUME NEW q \in Requests, RequestStep(q) PROVE Told' \/ \E p \in Requests : Tells(p)'
  <2>1. ASSUME NEW p \in Requests \ {q}, Tells(p) PROVE Tells(p)'
    <3>1. PICK b \in BOOLEAN : request'[p] = [request[p] EXCEPT !.stale = b]
      BY <1>4, OthersForm
    <3> QED BY <1>0, <2>1, <3>1 DEF Request
  <2>2. CASE SoftDelete(q)
    <3>1. CASE account.status = "deleted"
      <4>1. request' = [request EXCEPT ![q] = NoRequest] /\ UNCHANGED <<account, events, faults>>
        BY <2>2, <3>1 DEF SoftDelete, Answer, Go, OnlyRequests
      <4>2. ~Tells(q)
        BY <2>2 DEF SoftDelete, At
      <4> QED BY <1>1, <2>1, <4>1, <4>2 DEF DeletionInv
    <3>2. CASE account.status # "deleted"
      <4>1. request'[q] = [request[q] EXCEPT !.stage = "sessions"] /\ request[q].op = "delete"
        BY <2>2, <3>2 DEF SoftDelete, At, Overtaken
      <4>2. Tells(q)'
        BY <1>0, <4>1 DEF Request
      <4> QED BY <4>2
    <3> QED BY <3>1, <3>2
  <2>3. CASE Publish(q)
    <3>1. /\ events' = Append(events, [kind |-> EventOf(request[q].op), version |-> account.version + 1])
          /\ account'.status = account.status /\ faults' = faults
          /\ [kind |-> EventOf(request[q].op), version |-> account.version + 1] \in Event
      BY <2>3 DEF Publish, Announce, World, Row, EventOf, Event, Kinds
    <3>2. /\ Len(events') = Len(events) + 1 /\ Len(events) \in Nat
          /\ \A e \in 1..Len(events) : events'[e] = events[e]
          /\ events'[Len(events) + 1].kind = EventOf(request[q].op)
      BY <3>1 DEF World
    <3>3. Told => Told'
      BY <3>2
    <3>4. Tells(q) => Told'
      BY <3>2 DEF EventOf
    <3> QED BY <1>1, <2>1, <3>1, <3>3, <3>4 DEF DeletionInv
  <2>4. CASE Abandon(q) \/ RevocationFails(q)
    BY <1>0, <1>1, <2>4 DEF Abandon, RevocationFails
  <2>5. CASE Update(q)
    BY <1>0, <1>1, <2>5 DEF Update, FormInv, StartInv, At, Request, Row
  <2>6. CASE RevokeAllForUser(q)
    <3>1. Tells(q)'
      BY <1>0, <2>6 DEF RevokeAllForUser, At, Move, Go, Request
    <3> QED BY <3>1
  <2>7. CASE Create(q)
    <3>1. account' = account /\ events' = events /\ faults' = faults /\ ~Tells(q)
      BY <1>1, <2>7 DEF Create, At
    <3> QED BY <1>1, <2>1, <3>1 DEF DeletionInv
  <2>8. ASSUME account'.status = account.status, events' = events, faults' = faults, ~Tells(q)
        PROVE  Told' \/ \E p \in Requests : Tells(p)'
    BY <1>1, <2>1, <2>8 DEF DeletionInv
  <2>9. CASE UpdatePreferences(q, "new")
    BY <2>8, <2>9 DEF UpdatePreferences, At, OnlyRequests, World, Row
  <2>10. CASE UserIDByKey(q) \/ AssertUnique(q) \/ Login(q) \/ \E t \in TokenIds : FindValidRefresh(q, t)
    BY <2>8, <2>10 DEF UserIDByKey, AssertUnique, Login, FindValidRefresh, OnlyRequests, At, Idle
  <2>11. CASE MembershipsForUser(q) \/ RevokeRefreshToken(q) \/ \E t \in Tenants : SwitchTenant(q, t)
    BY <2>8, <2>11 DEF MembershipsForUser, RevokeRefreshToken, SwitchTenant, OnlyRequests, At, Idle
  <2>12. CASE CheckStatus(q) \/ CheckMembership(q) \/ StoreRefreshToken(q)
    BY <2>8, <2>12 DEF CheckStatus, CheckMembership, StoreRefreshToken, OnlyRequests
  <2>13. CASE \/ \E op \in {"profile", "preferences"} : ReadAccount(q, op)
              \/ ReadForDelete(q) \/ InsertAgent(q) \/ \E a \in Agents : Issue(q, a)
    BY <2>8, <2>13 DEF ReadAccount, ReadForDelete, InsertAgent, Issue, OnlyRequests, At, Idle
  <2> QED BY <1>4, <2>2, <2>3, <2>4, <2>5, <2>6, <2>7, <2>9, <2>10, <2>11, <2>12, <2>13
          DEF RequestStep
<1> QED BY <1>2, <1>3, <1>4 DEF AccountsNext, OtherStep

-----------------------------------------------------------------------------
(* How a step passes a token on: it lets go of it, finds one, stores the   *)
(* successor, or keeps it and has revoked it before it goes on.            *)
LEMMA HandEffect ==
  ASSUME FormInv, LineInv, World, NEW q \in Requests, RequestStep(q)
  PROVE  /\ twice \subseteq twice'
         /\ \/ \E k \in TokenIds : FindValidRefresh(q, k)
            \/ StoreRefreshToken(q)
            \/ /\ tokens' = tokens \/ \E S : tokens' = Revoked(S)
               /\ \/ request'[q].token = None
                  \/ /\ request'[q].token = request[q].token
                     /\ \/ request'[q].stage \in {"memberships", "revoke"}
                        \/ request[q].stage \notin {"memberships", "revoke"}
                        \/ request[q].token \in twice'
                        \/ ~Live(request[q].token)'
<1>0. request \in [Requests -> Request] /\ request[q] \in Request
  BY DEF FormInv
<1> DEFINE Kept == /\ request'[q].token = request[q].token
                   /\ \/ request'[q].stage \in {"memberships", "revoke"}
                      \/ request[q].stage \notin {"memberships", "revoke"}
                      \/ request[q].token \in twice'
                      \/ ~Live(request[q].token)'
           Goal == twice \subseteq twice' /\ (request'[q].token = None \/ Kept)
<1>1. NoRequest.token = None /\ NoRequest \in Request
  BY Rests DEF NoRequest
<1>2. ASSUME Answer(q) \/ \E op \in Ops, stage \in Stages : Begin(q, op, stage)
      PROVE  request'[q].token = None
  BY <1>0, <1>1, <1>2 DEF Answer, Begin, Go, NoRequest
<1>3. ASSUME NEW stage \in Stages, Move(q, stage), request[q].stage \notin {"memberships", "revoke"}
      PROVE  Kept
  BY <1>0, <1>3 DEF Move, Go, Request
<1>4. ASSUME NEW S, request' = [Overtaken(S) EXCEPT ![q] = [request[q] EXCEPT !.stage = "publish"]]
                    \/ request' = [Overtaken(S) EXCEPT ![q] = [request[q] EXCEPT !.stage = "sessions"]],
             request[q].stage = "write"
      PROVE  Kept
  <2>1. \/ request'[q] = [request[q] EXCEPT !.stage = "publish"]
        \/ request'[q] = [request[q] EXCEPT !.stage = "sessions"]
    BY <1>4 DEF Overtaken
  <2> QED BY <1>0, <1>4, <2>1 DEF Request
<1>5. /\ "unique" \in Stages /\ "create" \in Stages /\ "memberships" \in Stages
      /\ "status" \in Stages /\ "write" \in Stages /\ "publish" \in Stages
      /\ "membership" \in Stages /\ "store" \in Stages
      /\ "register" \in Ops /\ "login" \in Ops /\ "delete" \in Ops
  BY DEF Stages, Ops
<1>6. CASE UserIDByKey(q) \/ AssertUnique(q) \/ Create(q) \/ Login(q) \/ ReadForDelete(q)
  <2>1. Goal
    BY <1>2, <1>3, <1>5, <1>6
       DEF UserIDByKey, AssertUnique, Create, Login, ReadForDelete, OnlyRequests, At
  <2>2. tokens' = tokens
    BY <1>6 DEF UserIDByKey, AssertUnique, Create, Login, ReadForDelete, OnlyRequests
  <2> QED BY <2>1, <2>2
<1>7. CASE Publish(q) \/ Abandon(q) \/ InsertAgent(q)
  <2>1. Goal
    BY <1>2, <1>7 DEF Publish, Announce, Abandon, InsertAgent
  <2>2. tokens' = tokens
    BY <1>7 DEF Publish, Announce, Abandon, InsertAgent
  <2> QED BY <2>1, <2>2
<1>8. CASE MembershipsForUser(q)
  <2>1. request'[q].token = request[q].token
    BY <1>0, <1>8 DEF MembershipsForUser, Go, Request
  <2>2. request[q].op = "refresh" => request'[q].stage = "revoke"
    BY <1>0, <1>8 DEF MembershipsForUser, Go, Request
  <2>3. request[q].op # "refresh" => request[q].token = None
    BY DEF LineInv
  <2>4. tokens' = tokens /\ twice' = twice
    BY <1>8 DEF MembershipsForUser, OnlyRequests
  <2> QED BY <2>1, <2>2, <2>3, <2>4
<1>9. CASE RevokeRefreshToken(q)
  <2>1. /\ tokens' = Revoked({request[q].token}) /\ twice' = twice
        /\ request'[q].token = request[q].token
    BY <1>0, <1>9 DEF RevokeRefreshToken, Move, Go, Request
  <2>2. ~Live(request[q].token)'
    <3>1. tokens \in Seq(Token)
      BY DEF World
    <3>2. Len(tokens') = Len(tokens)
          /\ \A t \in 1..Len(tokens) : tokens'[t].live => t # request[q].token
      BY <2>1, <3>1, RevokedForm
    <3> QED BY <2>1, <3>2 DEF Live
  <2> QED BY <2>1, <2>2
<1>10. CASE RevocationFails(q)
  BY <1>0, <1>10 DEF RevocationFails, Move, Go, Request
<1>11. CASE \E t \in Tenants : SwitchTenant(q, t)
  BY <1>0, <1>11 DEF SwitchTenant, Go, NoRequest, OnlyRequests
<1>12. CASE CheckStatus(q) \/ CheckMembership(q)
  <2>1. Goal
    BY <1>2, <1>3, <1>5, <1>12 DEF CheckStatus, CheckMembership, OnlyRequests
  <2>2. tokens' = tokens
    BY <1>12 DEF CheckStatus, CheckMembership, OnlyRequests
  <2> QED BY <2>1, <2>2
<1>13. CASE (\E op \in {"profile", "preferences"} : ReadAccount(q, op)) \/ \E a \in Agents : Issue(q, a)
  BY <1>0, <1>13 DEF ReadAccount, Issue, Go, NoRequest, OnlyRequests
<1>14. CASE Update(q) \/ UpdatePreferences(q, "new") \/ SoftDelete(q)
  <2>1. Goal
    BY <1>2, <1>4, <1>14 DEF Update, UpdatePreferences, SoftDelete, Written, OnlyRequests, At
  <2>2. tokens' = tokens
    BY <1>14 DEF Update, UpdatePreferences, SoftDelete, OnlyRequests
  <2> QED BY <2>1, <2>2
<1>15. CASE RevokeAllForUser(q)
  <2>1. Kept
    BY <1>3, <1>5, <1>15 DEF RevokeAllForUser, At
  <2>2. twice' = twice /\ \E S : tokens' = Revoked(S)
    BY <1>15 DEF RevokeAllForUser
  <2> QED BY <2>1, <2>2
<1>16. twice \subseteq twice'
  <2>1. CASE (\E k \in TokenIds : FindValidRefresh(q, k)) \/ StoreRefreshToken(q)
    BY <2>1 DEF FindValidRefresh, StoreRefreshToken
  <2> QED BY <1>6, <1>7, <1>8, <1>9, <1>10, <1>11, <1>12, <1>13, <1>14, <1>15, <2>1 DEF RequestStep
<1> QED BY <1>6, <1>7, <1>8, <1>9, <1>10, <1>11, <1>12, <1>13, <1>14, <1>15, <1>16 DEF RequestStep

(* A hand that only lets go, or revokes, is still one hand.                *)
LEMMA HandKept ==
  ASSUME NEW t, OneHand(t), Heirs(t)' = Heirs(t), Holders(t)' \subseteq Holders(t),
         Live(t)' => /\ Live(t)
                     /\ \A q \in Holders(t)' : request'[q].stage \in {"memberships", "revoke"}
  PROVE  OneHand(t)'
BY DEF OneHand

(* Revocations leave the successors of a token alone.                      *)
LEMMA HeirsKept ==
  ASSUME World, tokens' = tokens \/ \E S : tokens' = Revoked(S), NEW t
  PROVE  Heirs(t)' = Heirs(t) /\ (Live(t)' => Live(t))
<1>1. CASE tokens' = tokens
  BY <1>1 DEF Heirs, Live
<1>2. ASSUME NEW S, tokens' = Revoked(S) PROVE Heirs(t)' = Heirs(t) /\ (Live(t)' => Live(t))
  <2>1. /\ Len(tokens') = Len(tokens)
        /\ \A s \in 1..Len(tokens) :
             tokens'[s].parent = tokens[s].parent /\ (tokens'[s].live => tokens[s].live)
    BY <1>2, RevokedForm DEF World
  <2> QED BY <2>1 DEF Heirs, Live
<1> QED BY <1>1, <1>2

LEMMA RotationKept ==
  ASSUME FormInv, StartInv, LineInv, World, RotationInv, [AccountsNext]_accountVars
  PROVE  RotationInv'
<1> SUFFICES ASSUME NEW t \in TokenIds, t \notin twice' PROVE OneHand(t)'
  BY DEF RotationInv
<1>0. /\ request \in [Requests -> Request] /\ tokens \in Seq(Token) /\ Len(tokens) \in Nat
      /\ t # None
  BY AccountsAssumption DEF FormInv, TokenIds
<1>1. CASE UNCHANGED accountVars
  <2>1. t \notin twice
    BY <1>1 DEF accountVars
  <2> QED BY <1>1, <2>1 DEF accountVars, RotationInv, OneHand, Heirs, Holders, Live
<1>2. CASE OtherStep
  <2>1. OneHand(t) /\ Heirs(t)' = Heirs(t) /\ (Live(t)' => Live(t))
    BY <1>2, OtherWorldKept, HeirsKept DEF RotationInv
  <2>2. \A p \in Requests : request'[p].token = request[p].token /\ request'[p].stage = request[p].stage
    <3> SUFFICES ASSUME NEW p \in Requests
                 PROVE  request'[p].token = request[p].token /\ request'[p].stage = request[p].stage
      OBVIOUS
    <3>1. PICK b \in BOOLEAN : request'[p] = [request[p] EXCEPT !.stale = b]
      BY <1>2, OtherForm
    <3> QED BY <1>0, <3>1 DEF Request
  <2>3. Holders(t)' = Holders(t)
    BY <2>2 DEF Holders
  <2>4. Live(t) => \A q \in Holders(t) : request[q].stage \in {"memberships", "revoke"}
    BY <2>1 DEF OneHand
  <2>5. Live(t)' => \A q \in Holders(t)' : request'[q].stage \in {"memberships", "revoke"}
    BY <2>1, <2>2, <2>3, <2>4 DEF Holders
  <2> QED BY <2>1, <2>3, <2>5, HandKept
<1>3. ASSUME NEW q \in Requests, RequestStep(q) PROVE OneHand(t)'
  <2>1. t \notin twice /\ OneHand(t)
    BY <1>3, HandEffect DEF RotationInv
  <2>2. \A p \in Requests \ {q} :
          request'[p].token = request[p].token /\ request'[p].stage = request[p].stage
    <3> SUFFICES ASSUME NEW p \in Requests \ {q}
                 PROVE  request'[p].token = request[p].token /\ request'[p].stage = request[p].stage
      OBVIOUS
    <3>1. PICK b \in BOOLEAN : request'[p] = [request[p] EXCEPT !.stale = b]
      BY <1>3, OthersForm
    <3> QED BY <1>0, <3>1 DEF Request
  <2>3. ASSUME NEW k \in TokenIds, FindValidRefresh(q, k) PROVE OneHand(t)'
    <3>1. /\ request'[q].token = k /\ request'[q].stage \in {"memberships", "revoke"}
          /\ tokens' = tokens /\ Live(k) /\ twice' = IF Found(k) THEN twice \cup {k} ELSE twice
          /\ Idle(q)
      BY <1>0, <2>3 DEF FindValidRefresh, Go, NoRequest
    <3>2. Heirs(t)' = Heirs(t) /\ Live(t)' = Live(t)
      BY <3>1 DEF Heirs, Live
    <3>3. request[q].token = None
      BY <3>1 DEF LineInv
    <3>4. CASE k # t
      <4>1. Holders(t)' = Holders(t) /\ q \notin Holders(t)
        BY <1>0, <2>2, <3>1, <3>3, <3>4 DEF Holders
      <4>2. \A p \in Holders(t) : request'[p].stage = request[p].stage
        BY <2>2, <4>1 DEF Holders
      <4> QED BY <2>1, <3>2, <4>1, <4>2 DEF OneHand
    <3>5. CASE k = t
      <4>1. ~Found(t)
        BY <3>1, <3>5
      <4>2. Holders(t) = {} /\ Heirs(t) = {}
        BY <2>1, <3>1, <3>5, <4>1 DEF OneHand, Holders, Found
      <4>3. Holders(t)' = {q}
        BY <1>0, <2>2, <3>1, <3>5, <4>2 DEF Holders
      <4> QED BY <3>1, <3>2, <4>2, <4>3 DEF OneHand
    <3> QED BY <3>4, <3>5
  <2>4. CASE StoreRefreshToken(q)
    <3>1. /\ tokens' = Append(tokens, [live |-> TRUE, tenant |-> request[q].tenant,
                                       parent |-> request[q].token])
          /\ request'[q].token = None /\ request[q].stage = "store"
          /\ [live |-> TRUE, tenant |-> request[q].tenant, parent |-> request[q].token] \in Token
      BY <1>0, <2>4 DEF StoreRefreshToken, Answer, Go, NoRequest, Request, Token
    <3>2. /\ Len(tokens') = Len(tokens) + 1
          /\ \A s \in 1..Len(tokens) : tokens'[s] = tokens[s]
          /\ tokens'[Len(tokens) + 1].parent = request[q].token
      BY <1>0, <3>1
    <3>3. Holders(t)' = Holders(t) \ {q}
      BY <1>0, <2>2, <3>1 DEF Holders
    <3>4. \A p \in Holders(t)' : request'[p].stage = request[p].stage
      BY <2>2, <3>3 DEF Holders
    <3>5. CASE request[q].token # t
      <4>1. Heirs(t)' = Heirs(t)
        BY <1>0, <3>2, <3>5 DEF Heirs
      <4>2. CASE t = Len(tokens) + 1
        <5>1. \A p \in Requests : request[p].token # t
          BY <1>0, <4>2 DEF LineInv
        <5>2. \A s \in 1..Len(tokens) : tokens[s].parent # t
          BY <1>0, <4>2 DEF LineInv
        <5> QED BY <3>3, <4>1, <5>1, <5>2 DEF OneHand, Heirs, Holders
      <4>3. CASE t # Len(tokens) + 1
        <5>1. Live(t)' => Live(t)
          BY <1>0, <3>2, <4>3 DEF Live
        <5> QED BY <2>1, <3>3, <3>4, <4>1, <5>1 DEF OneHand
      <4> QED BY <4>2, <4>3
    <3>6. CASE request[q].token = t
      <4>1. q \in Holders(t) /\ Heirs(t) = {} /\ ~Live(t) /\ Holders(t) = {q}
        BY <2>1, <3>1, <3>6 DEF OneHand, Holders
      <4>2. t \in 1..Len(tokens)
        BY <1>0, <3>6 DEF LineInv
      <4>3. ~Live(t)' /\ Holders(t)' = {}
        BY <1>0, <3>2, <3>3, <4>1, <4>2 DEF Live
      <4>4. \A s \in Heirs(t)' : s = Len(tokens) + 1
        BY <1>0, <3>2, <4>1 DEF Heirs
      <4> QED BY <4>3, <4>4 DEF OneHand
    <3> QED BY <3>5, <3>6
  <2>5. ASSUME tokens' = tokens \/ (\E S : tokens' = Revoked(S)), request'[q].token = None
        PROVE  OneHand(t)'
    <3>1. Heirs(t)' = Heirs(t) /\ (Live(t)' => Live(t))
      BY <2>5, HeirsKept
    <3>2. Holders(t)' = Holders(t) \ {q}
      BY <1>0, <2>2, <2>5 DEF Holders
    <3>3. \A p \in Holders(t)' : request'[p].stage = request[p].stage
      BY <2>2, <3>2 DEF Holders
    <3>4. Live(t)' => \A p \in Holders(t)' : request'[p].stage \in {"memberships", "revoke"}
      BY <2>1, <3>1, <3>2, <3>3 DEF OneHand
    <3> QED BY <2>1, <3>1, <3>2, <3>4, HandKept
  <2>6. ASSUME tokens' = tokens \/ (\E S : tokens' = Revoked(S)),
               request'[q].token = request[q].token,
               \/ request'[q].stage \in {"memberships", "revoke"}
               \/ request[q].stage \notin {"memberships", "revoke"}
               \/ request[q].token \in twice'
               \/ ~Live(request[q].token)'
        PROVE  OneHand(t)'
    <3>1. Heirs(t)' = Heirs(t) /\ (Live(t)' => Live(t))
      BY <2>6, HeirsKept
    <3>2. Holders(t)' = Holders(t)
      BY <2>2, <2>6 DEF Holders
    <3>3. ASSUME Live(t)', NEW p \in Holders(t)'
          PROVE  request'[p].stage \in {"memberships", "revoke"}
      <4>1. request[p].stage \in {"memberships", "revoke"} /\ request[p].token = t /\ p \in Requests
        BY <2>1, <3>1, <3>2, <3>3 DEF OneHand, Holders
      <4>2. CASE p # q
        BY <2>2, <4>1, <4>2
      <4>3. CASE p = q
        <5>1. Live(request[q].token)'
          BY <2>6, <3>3, <4>1, <4>3 DEF Live
        <5> QED BY <2>6, <4>1, <4>3, <5>1
      <4> QED BY <4>2, <4>3
    <3> QED BY <2>1, <3>1, <3>2, <3>3, HandKept
  <2> QED BY <1>3, <2>3, <2>4, <2>5, <2>6, HandEffect
<1> QED BY <1>1, <1>2, <1>3 DEF AccountsNext, OtherStep

(* The line of succession: a token's parent is older than it.              *)
LEMMA ParentsKept ==
  ASSUME FormInv, LineInv, World, [AccountsNext]_accountVars
  PROVE  \A s \in 1..Len(tokens') : tokens'[s].parent # None => tokens'[s].parent \in 1..(s - 1)
<1>0. tokens \in Seq(Token) /\ Len(tokens) \in Nat
  BY DEF World
<1> DEFINE Older == \A s \in 1..Len(tokens) : tokens[s].parent # None => tokens[s].parent \in 1..(s - 1)
<1>1. CASE tokens' = tokens
  BY <1>1 DEF LineInv
<1>2. ASSUME NEW S, tokens' = Revoked(S) PROVE Older'
  <2>1. /\ Len(tokens') = Len(tokens)
        /\ \A s \in 1..Len(tokens) : tokens'[s].parent = tokens[s].parent
    BY <1>0, <1>2, RevokedForm
  <2> QED BY <2>1 DEF LineInv
<1>3. ASSUME NEW q \in Requests, StoreRefreshToken(q) PROVE Older'
  <2>1. /\ tokens' = Append(tokens, [live |-> TRUE, tenant |-> request[q].tenant,
                                     parent |-> request[q].token])
        /\ [live |-> TRUE, tenant |-> request[q].tenant, parent |-> request[q].token] \in Token
    BY <1>3 DEF StoreRefreshToken, FormInv, Request, Token
  <2>2. /\ Len(tokens') = Len(tokens) + 1
        /\ \A s \in 1..Len(tokens) : tokens'[s] = tokens[s]
        /\ tokens'[Len(tokens) + 1].parent = request[q].token
    BY <1>0, <2>1
  <2>3. request[q].token # None => request[q].token \in 1..Len(tokens)
    BY DEF LineInv
  <2> QED BY <1>0, <2>2, <2>3 DEF LineInv
<1> QED BY <1>1, <1>2, <1>3, TokensEffect, OtherWorldKept DEF AccountsNext, OtherStep, accountVars

-----------------------------------------------------------------------------
LEMMA Invariance == AccountsSpec => []AccountsInv
<1>1. AccountsInit => AccountsInv
  <2> SUFFICES ASSUME AccountsInit PROVE AccountsInv
    OBVIOUS
  <2> USE DEF AccountsInit
  <2>1. FormInv
    BY Rests, AccountsAssumption DEF FormInv
  <2>2. \A q \in Requests : /\ request[q].stage = "idle" /\ request[q].op = "none"
                            /\ request[q].token = None
    BY DEF NoRequest
  <2>3. StartInv /\ DeletionInv /\ SessionInv /\ ProfileInv
    BY <2>2 DEF StartInv, DeletionInv, SessionInv, ProfileInv, At, Exists, NoAccount
  <2>4. VersionInv
    BY DEF VersionInv, VersionsOrderEvents, NoAccount
  <2>5. LineInv
    BY <2>2 DEF LineInv
  <2>6. \A t \in TokenIds : t # None /\ Heirs(t) = {} /\ Holders(t) = {} /\ ~Live(t)
    BY <2>2, AccountsAssumption DEF TokenIds, Heirs, Holders, Live
  <2>7. RotationInv
    BY <2>6 DEF RotationInv, OneHand
  <2> QED BY <2>1, <2>3, <2>4, <2>5, <2>7 DEF AccountsInv
<1>2. AccountsInv /\ [AccountsNext]_accountVars => AccountsInv'
  <2> SUFFICES ASSUME AccountsInv, [AccountsNext]_accountVars PROVE AccountsInv'
    OBVIOUS
  <2>0. /\ FormInv /\ StartInv /\ VersionInv /\ DeletionInv /\ SessionInv /\ ProfileInv
        /\ LineInv /\ RotationInv /\ World
    BY WorldIs DEF AccountsInv
  <2>1. World' /\ request' \in [Requests -> Request]
    BY <2>0, WorldKept, OthersForm, OtherWorldKept, OtherForm
       DEF AccountsNext, OtherStep, accountVars, World, FormInv, VersionsOrderEvents, Exists
  <2>2. FormInv' /\ VersionInv'
    BY <2>1 DEF World, FormInv, VersionInv
  <2>3. \A p \in Requests : Sound(p)'
    <3> SUFFICES ASSUME NEW p \in Requests PROVE Sound(p)'
      OBVIOUS
    <3>1. Sound(p)
      BY <2>0, SoundIs
    <3>2. CASE OtherStep
      BY <2>0, <3>1, <3>2, OtherSound
    <3>3. ASSUME NEW q \in Requests, RequestStep(q) PROVE Sound(p)'
      <4>1. CASE p = q
        BY <2>0, <3>1, <3>3, <4>1, OwnSound
      <4>2. CASE p # q
        BY <2>0, <3>1, <3>3, <4>2, OthersSound
      <4> QED BY <4>1, <4>2
    <3>4. CASE UNCHANGED accountVars
      BY <3>1, <3>4 DEF accountVars, Sound, At, Idle, Exists
    <3> QED BY <3>2, <3>3, <3>4 DEF AccountsNext, OtherStep
  <2>4. StartInv' /\ SessionInv' /\ ProfileInv'
    BY <2>1, <2>3 DEF World, Sound, StartInv, SessionInv, ProfileInv
  <2>5. LineInv'
    BY <2>0, <2>3, ParentsKept DEF LineInv, Sound
  <2>6. DeletionInv' /\ RotationInv'
    BY <2>0, DeletionKept, RotationKept
  <2> QED BY <2>2, <2>4, <2>5, <2>6 DEF AccountsInv
<1> QED BY <1>1, <1>2, PTL DEF AccountsSpec

(* The versions of an account's events are consecutive and a deletion is   *)
(* announced, whatever requests overlap it (UserService.Delete and         *)
(* publishUserEvent, postgres_user_repository.go).                         *)
THEOREM AccountsAreSound == AccountsSpec => []AccountsSound
<1>1. AccountsInv => AccountsSound
  <2> SUFFICES ASSUME AccountsInv PROVE AccountsSound
    OBVIOUS
  <2> USE DEF AccountsInv
  <2>1. ASSUME NEW t \in 1..Len(tokens)
        PROVE  /\ tokens[t].live \in BOOLEAN /\ tokens[t].tenant \in Tenants \cup {None}
               /\ tokens[t].parent \in (1..(t - 1)) \cup {None}
    <3>1. tokens[t] \in Token
      BY DEF FormInv
    <3>2. tokens[t].parent \in (1..(t - 1)) \cup {None}
      BY DEF LineInv
    <3> QED BY <3>1, <3>2 DEF Token
  <2>2. ASSUME NEW e \in 1..Len(events) PROVE events[e].kind \in Kinds
    <3>1. events[e] \in Event
      BY DEF FormInv
    <3> QED BY <3>1 DEF Event
  <2>3. AccountsTypeOK
    BY <2>1, <2>2 DEF AccountsTypeOK, FormInv, StartInv, Exists, Row
  <2>4. DeletionIsAnnounced
    BY DEF DeletionInv, DeletionIsAnnounced
  <2> QED BY <2>3, <2>4 DEF AccountsSound, VersionInv
<1> QED BY <1>1, Invariance, PTL

(* A refresh token is rotated once: two requests never both succeed it     *)
(* unless both found it before either revoked it, or a revocation failed   *)
(* (AuthService.Refresh).                                                  *)
THEOREM RotationYieldsOneToken == AccountsSpec => []RotationYieldsOne
<1>1. AccountsInv => RotationYieldsOne
  <2> SUFFICES ASSUME AccountsInv, NEW t \in 1..Len(tokens), t \notin twice
               PROVE  Cardinality(Heirs(t)) <= 1
    BY DEF RotationYieldsOne, Heirs
  <2>1. t \in TokenIds
    BY AccountsAssumption DEF AccountsInv, FormInv, TokenIds
  <2>2. \A s1, s2 \in Heirs(t) : s1 = s2
    BY <2>1 DEF AccountsInv, RotationInv, OneHand
  <2>3. CASE Heirs(t) = {}
    BY <2>3, FS_EmptySet
  <2>4. ASSUME NEW s \in Heirs(t) PROVE Cardinality(Heirs(t)) <= 1
    <3>1. Heirs(t) = {s}
      BY <2>2
    <3>2. Cardinality({s}) = 1
      BY FS_Singleton
    <3> QED BY <3>1, <3>2
  <2> QED BY <2>3, <2>4
<1> QED BY <1>1, Invariance, PTL

(* A session is stored for an active account and a standing membership, or *)
(* for a request that a deletion or a removal overtook (issueTokens of     *)
(* AuthService).                                                           *)
THEOREM SessionsAreAllEarned == AccountsSpec => SessionsAreEarned
<1> DEFINE Step == \A q \in Requests :
       request[q].stage = "store" /\ Len(tokens') > Len(tokens) /\ request'[q].stage = "idle"
         => \/ request[q].stale
            \/ account.status = "active" /\ request[q].tenant \in members \cup {None}
<1>1. AccountsInv /\ [AccountsNext]_accountVars => [Step]_accountVars
  BY DEF AccountsInv, SessionInv
<1> QED BY <1>1, Invariance, PTL DEF AccountsSpec, SessionsAreEarned

(* A profile update nobody overtook writes back the status and the         *)
(* preferences the account has (UserService.UpdateProfile, UpdateUser).    *)
THEOREM ProfilesKeepTheRest == AccountsSpec => ProfileKeepsTheRest
<1> DEFINE Step == \A q \in Requests :
       At(q, "profile", "write") /\ request'[q].stage = "publish" /\ ~request[q].stale
         => account'.status = "active" /\ account'.prefs = account.prefs
<1>1. AccountsInv /\ [AccountsNext]_accountVars => [Step]_accountVars
  <2> SUFFICES ASSUME AccountsInv, [AccountsNext]_accountVars, NEW q \in Requests,
                      At(q, "profile", "write"), request'[q].stage = "publish",
                      ~request[q].stale
               PROVE  account'.status = "active" /\ account'.prefs = account.prefs
    OBVIOUS
  <2>0. /\ FormInv /\ StartInv /\ LineInv /\ World /\ request \in [Requests -> Request]
        /\ account.status = "active" /\ account.prefs = request[q].copy.prefs
        /\ request[q].copy.status = "active" /\ request[q].copy \in Row
    BY WorldIs DEF AccountsInv, ProfileInv, StartInv, FormInv, Request
  <2>1. CASE Update(q)
    BY <2>0, <2>1 DEF Update, Row
  <2>2. CASE OtherStep
    BY <2>0, <2>2, OtherWorldKept
  <2>3. ASSUME NEW p \in Requests \ {q}, RequestStep(p) PROVE FALSE
    <3>1. PICK b \in BOOLEAN : request'[q] = [request[q] EXCEPT !.stale = b]
      BY <2>0, <2>3, OthersForm
    <3> QED BY <2>0, <3>1 DEF At, Request
  <2>4. CASE RequestStep(q)
    <3>1. NoRequest.stage = "idle"
      BY DEF NoRequest
    <3>2. CASE Abandon(q)
      BY <2>0, <3>1, <3>2 DEF Abandon, Answer, Go
    <3> QED BY <2>0, <2>1, <2>4, <3>1, <3>2
            DEF RequestStep, At, Idle, UserIDByKey, AssertUnique, Create, Login, FindValidRefresh,
                MembershipsForUser, RevokeRefreshToken, RevocationFails, SwitchTenant, CheckStatus,
                CheckMembership, StoreRefreshToken, ReadAccount, UpdatePreferences, ReadForDelete,
                SoftDelete, RevokeAllForUser, Publish, Announce, Issue, InsertAgent
  <2>5. CASE UNCHANGED accountVars
    BY <2>0, <2>5 DEF accountVars, At
  <2> QED BY <2>2, <2>3, <2>4, <2>5 DEF AccountsNext, OtherStep
<1> QED BY <1>1, Invariance, PTL DEF AccountsSpec, ProfileKeepsTheRest

=============================================================================
