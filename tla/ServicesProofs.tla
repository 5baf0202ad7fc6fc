---------------------------- MODULE ServicesProofs ----------------------------
(***************************************************************************)
(* Proofs about the components that MCServices runs side by side: Access   *)
(* for every set of people, of entries and of roles a list may name;       *)
(* MigrateLedger for every number of processes and builds; WebhookMirror   *)
(* for every number of changes and every size of its log; EntryRequests    *)
(* for every number of clients, entries, payloads and keys; EntryHistory   *)
(* for every number of callers, fields, values and kept releases; Paging   *)
(* for every set of entries, page size and number of writes; DeliveryUsage *)
(* for every number of replicas, tenants, reads and failures.              *)
(***************************************************************************)
EXTENDS Access, MigrateLedger, WebhookMirror, EntryRequests, EntryHistory, Paging,
        DeliveryUsage,
        FiniteSetTheorems, SequenceTheorems, WellFoundedInduction, TLAPS

-----------------------------------------------------------------------------
(* Access.                                                                 *)

TokenClaims == [kind : {"user", "agent", "delivery"}, user : People, admin : BOOLEAN,
           role : RoleNames \cup {""}]

(* Every token was issued to the person who carries it, and the platform   *)
(* role is on tokens of people alone.                                      *)
TokensInv ==
  /\ admins \subseteq People
  /\ roleIn \in [People -> RoleNames \cup {""}]
  /\ session \in [People -> TokenClaims \cup {NoSession}]
  /\ \A p \in People : session[p] # NoSession =>
       session[p].user = p /\ (session[p].kind # "user" => ~session[p].admin)

Patches == [stage : {"count", "write"}, lists : [ListNames -> SUBSET ListRoles]]

ListsInv ==
  /\ lists \in [ListNames -> SUBSET ListRoles]
  /\ patch \in Patches \cup {NoPatch}
  /\ author \in [Documents -> People \cup {NoAuthor, Absentee}]

(* A PATCH that reached its write would confine a role only while every    *)
(* entry has an author.                                                    *)
PatchInv ==
  patch.stage = "write" /\ patch.lists["own"] # {} => Authorless = {}

AccessInv == TokensInv /\ ListsInv /\ PatchInv /\ ConfinementHidesNothing

-----------------------------------------------------------------------------
LEMMA MembershipIsBoolean ==
  ASSUME NEW p, NEW S PROVE (p \in S) \in BOOLEAN
<1>1. CASE p \in S
  <2>1. (p \in S) = TRUE
    BY <1>1, Zenon
  <2> QED BY <2>1, Zenon
<1>2. CASE ~(p \in S)
  <2>1. (p \in S) = FALSE
    BY <1>2, Z3
  <2> QED BY <2>1, Zenon
<1> QED BY <1>1, <1>2

LEMMA NoPatchIsNone == NoPatch.stage = "none" /\ NoPatch \notin Patches
BY DEF NoPatch, Patches

(* Entries without an author come from before authorship, and only go.     *)
LEMMA AuthorsStay ==
  ASSUME ListsInv, NEW p \in People, NEW d \in Documents,
         \/ author' = [author EXCEPT ![d] = p]
         \/ author' = [author EXCEPT ![d] = Absentee]
  PROVE  author' \in [Documents -> People \cup {NoAuthor, Absentee}] /\ Authorless' \subseteq Authorless
BY AccessAssumption DEF ListsInv, Authorless, Absentee

LEMMA TokensKept ==
  ASSUME TokensInv, AccessNext PROVE TokensInv'
<1>1. CASE UNCHANGED <<admins, roleIn, session>>
  BY <1>1 DEF TokensInv
<1>2. ASSUME NEW p \in People, NEW q \in People, GrantRole(p, q) \/ TakeRole(p, q) PROVE TokensInv'
  BY <1>2 DEF TokensInv, GrantRole, TakeRole
<1>3. ASSUME NEW p \in People, NEW c \in TokenClaims, c.user = p, c.kind # "user" => ~c.admin,
             session' = [session EXCEPT ![p] = c], UNCHANGED <<admins, roleIn>>
      PROVE  TokensInv'
  BY <1>3 DEF TokensInv
<1>4. ASSUME NEW p \in People, Issue(p) PROVE TokensInv'
  <2>1. PICK role \in {"", roleIn[p]} :
          session' = [session EXCEPT ![p] =
             [kind |-> "user", user |-> p, admin |-> p \in admins, role |-> role]]
    BY <1>4 DEF Issue
  <2>2. role \in RoleNames \cup {""}
    BY ZenonT(40), <2>1 DEF TokensInv
  <2> DEFINE Token(b) == [kind |-> "user", user |-> p, admin |-> b, role |-> role]
  <2>3. \A b \in BOOLEAN : Token(b) \in TokenClaims
    BY <2>2 DEF TokenClaims
  <2>4. (p \in admins) \in BOOLEAN
    BY MembershipIsBoolean
  <2>5. session' = [session EXCEPT ![p] = Token(p \in admins)]
    BY <2>1
  <2>6. Token(p \in admins).user = p /\ Token(p \in admins).kind = "user"
    OBVIOUS
  <2> HIDE DEF Token
  <2>7. Token(p \in admins) \in TokenClaims
    BY <2>3, <2>4, Zenon
  <2>8. UNCHANGED <<admins, roleIn>>
    BY <1>4 DEF Issue
  <2> QED BY <1>3, <2>5, <2>6, <2>7, <2>8
<1>5. ASSUME NEW p \in People, IssueAgent(p) \/ IssueDelivery(p) PROVE TokensInv'
  <2>1. PICK kind \in {"agent", "delivery"}, role \in {"editor", "viewer"} :
          session' = [session EXCEPT ![p] =
             [kind |-> kind, user |-> p, admin |-> FALSE, role |-> role]]
    BY <1>5 DEF IssueAgent, IssueDelivery
  <2>2. [kind |-> kind, user |-> p, admin |-> FALSE, role |-> role] \in TokenClaims
    BY <2>1 DEF TokenClaims, RoleNames
  <2> QED BY <1>3, <1>5, <2>1, <2>2 DEF IssueAgent, IssueDelivery
<1> QED BY <1>1, <1>2, <1>4, <1>5
    DEF AccessNext, AskPatchType, CountAuthorless, WriteLists, CreateDocument, DeleteDocument

LEMMA ListsKept ==
  ASSUME AccessInv, AccessNext PROVE ListsInv' /\ PatchInv' /\ ConfinementHidesNothing'
<1> USE NoPatchIsNone DEF AccessInv
<1>1. CASE UNCHANGED <<lists, patch, author>>
  BY <1>1 DEF ListsInv, PatchInv, ConfinementHidesNothing, Authorless
<1>2. ASSUME NEW p \in People, AskPatchType(p) PROVE ListsInv' /\ PatchInv' /\ ConfinementHidesNothing'
  <2>1. PICK l \in ListNames, to \in SUBSET ListRoles :
          patch' = [stage |-> IF l = "own" /\ to \ lists["own"] # {} THEN "count" ELSE "write",
                    lists |-> [lists EXCEPT ![l] = to]]
    BY <1>2 DEF AskPatchType
  <2>2. UNCHANGED <<lists, author>>
    BY <1>2 DEF AskPatchType
  <2>3. patch' \in Patches /\ patch'.lists = [lists EXCEPT ![l] = to]
    BY <2>1 DEF Patches, ListsInv
  <2>4. ListsInv' /\ ConfinementHidesNothing'
    BY <2>2, <2>3 DEF ListsInv, ConfinementHidesNothing, Authorless
  <2>5. ASSUME patch'.stage = "write", patch'.lists["own"] # {} PROVE lists["own"] # {}
    BY <2>1, <2>3, <2>5 DEF ListsInv, ListNames
  <2> QED BY <2>2, <2>4, <2>5 DEF PatchInv, ConfinementHidesNothing, Authorless
<1>3. CASE CountAuthorless
  <2>1. UNCHANGED <<lists, author>> /\ patch.stage = "count"
    BY <1>3 DEF CountAuthorless
  <2>2. patch \in Patches
    BY <2>1 DEF ListsInv
  <2>3. CASE Backfilled /\ patch' = [patch EXCEPT !.stage = "write"]
    BY <2>1, <2>2, <2>3 DEF ListsInv, PatchInv, ConfinementHidesNothing, Authorless, Backfilled, Patches
  <2>4. CASE patch' = NoPatch
    BY <2>1, <2>4 DEF ListsInv, PatchInv, ConfinementHidesNothing, Authorless
  <2> QED BY <1>3, <2>3, <2>4 DEF CountAuthorless
<1>4. CASE WriteLists
  <2>1. UNCHANGED author /\ patch.stage = "write" /\ lists' = patch.lists /\ patch' = NoPatch
    BY <1>4 DEF WriteLists
  <2>2. patch \in Patches
    BY <2>1 DEF ListsInv
  <2> QED BY <2>1, <2>2 DEF ListsInv, PatchInv, ConfinementHidesNothing, Authorless, Patches
<1>5. ASSUME NEW p \in People, NEW d \in Documents, CreateDocument(p, d) \/ DeleteDocument(p, d)
      PROVE  ListsInv' /\ PatchInv' /\ ConfinementHidesNothing'
  <2>1. UNCHANGED <<lists, patch>>
    BY <1>5 DEF CreateDocument, DeleteDocument
  <2>2. author' \in [Documents -> People \cup {NoAuthor, Absentee}] /\ Authorless' \subseteq Authorless
    BY <1>5, AuthorsStay DEF CreateDocument, DeleteDocument
  <2> QED BY <2>1, <2>2 DEF ListsInv, PatchInv, ConfinementHidesNothing
<1> QED BY <1>1, <1>2, <1>3, <1>4, <1>5
    DEF AccessNext, GrantRole, TakeRole, Issue, IssueAgent, IssueDelivery

(* The inductive invariant: tokens belong to who carries them, and a PATCH *)
(* about to write a confinement found no entry without an author.          *)
THEOREM Consistent == AccessSpec => []AccessInv
<1>1. AccessInit => AccessInv
  <2> SUFFICES ASSUME AccessInit PROVE AccessInv
    OBVIOUS
  <2>1. TokensInv
    BY DEF AccessInit, TokensInv
  <2>2. ListsInv /\ PatchInv /\ ConfinementHidesNothing
    BY NoPatchIsNone DEF AccessInit, ListsInv, PatchInv, ConfinementHidesNothing, ListNames
  <2> QED BY <2>1, <2>2 DEF AccessInv
<1>2. AccessInv /\ [AccessNext]_accessVars => AccessInv'
  <2>1. AccessInv /\ AccessNext => AccessInv'
    BY TokensKept, ListsKept DEF AccessInv
  <2>2. AccessInv /\ UNCHANGED accessVars => AccessInv'
    BY DEF AccessInv, accessVars, TokensInv, ListsInv, PatchInv, ConfinementHidesNothing, Authorless
  <2> QED BY <2>1, <2>2
<1> QED BY <1>1, <1>2, PTL DEF AccessSpec

(* Sessions, lists, the pending PATCH and the authors are well typed.      *)
THEOREM AccessTyped == AccessSpec => []AccessTypeOK
<1>1. AccessInv => AccessTypeOK
  <2> SUFFICES ASSUME AccessInv PROVE AccessTypeOK
    OBVIOUS
  <2>1. ASSUME NEW p \in People, session[p] # NoSession
        PROVE  /\ session[p].user = p /\ session[p].kind \in {"user", "agent", "delivery"}
               /\ session[p].role \in RoleNames \cup {""}
               /\ session[p].kind # "user" => ~session[p].admin
    BY <2>1 DEF AccessInv, TokensInv, TokenClaims
  <2>2. patch.stage \in {"none", "count", "write"}
    BY NoPatchIsNone DEF AccessInv, ListsInv, Patches
  <2> QED BY <2>1, <2>2 DEF AccessTypeOK, AccessInv, TokensInv, ListsInv
<1> QED BY <1>1, Consistent, PTL

-----------------------------------------------------------------------------
LEMMA OffThePlane ==
  ASSUME NEW verb \in Verbs, ~TenantPlane(verb)
  PROVE  verb \in SelfVerbs \cup PlatformVerbs
BY DEF TenantPlane, Verbs

LEMMA PlanesDiffer ==
  ASSUME NEW verb \in SelfVerbs \cup PlatformVerbs
  PROVE  ~TenantPlane(verb)
BY DEF TenantPlane, TenantVerbs, SelfVerbs, PlatformVerbs, ReadVerbs, SchemaVerbs, WriteVerbs, OfficeVerbs

(* On the tenant plane the matrix and the policy agree.                    *)
LEMMA PlaneAgrees ==
  ASSUME NEW sub \in TokenClaims, NEW verb, NEW res, TenantPlane(verb)
  PROVE  RBACAllows(sub, verb, res) <=> PolicyAllows(sub, verb, res)
<1> USE DEF RBACAllows, PolicyAllows, TokenClaims, RoleNames
<1>1. CASE verb \in ReadVerbs
  BY <1>1 DEF ReadVerbs, ContentVerbs, ContentMatrix, SchemaVerbs, OfficeVerbs
<1>2. CASE verb \in SchemaVerbs
  BY <1>2 DEF ReadVerbs, ContentVerbs, ContentMatrix, SchemaVerbs, OfficeVerbs
<1>3. CASE verb \in WriteVerbs
  BY <1>3 DEF ReadVerbs, ContentVerbs, ContentMatrix, SchemaVerbs, OfficeVerbs, WriteVerbs
<1>4. CASE verb \in OfficeVerbs
  BY <1>4 DEF ReadVerbs, ContentVerbs, ContentMatrix, SchemaVerbs, OfficeVerbs, WriteVerbs
<1>5. CASE verb \in {"tenant:invite:create", "tenant:invite:accept", "tenant:member:list", "content:unheard_of"}
  BY <1>5 DEF ReadVerbs, ContentVerbs, ContentMatrix, SchemaVerbs, OfficeVerbs, WriteVerbs
<1> QED BY <1>1, <1>2, <1>3, <1>4, <1>5 DEF TenantPlane, TenantVerbs

(* Off it they differ by a platform role the token does not carry.         *)
LEMMA SelfAgrees ==
  ASSUME NEW sub \in TokenClaims, NEW verb \in SelfVerbs \cup PlatformVerbs, NEW res,
         sub.kind # "user" => ~sub.admin
  PROVE  /\ RBACAllows(sub, verb, res) => PolicyAllows(sub, verb, res)
         /\ PolicyAllows(sub, verb, res) /\ ~RBACAllows(sub, verb, res)
              => sub.user \in admins /\ ~sub.admin
<1>1. ~TenantPlane(verb)
  BY PlanesDiffer
<1> QED BY <1>1 DEF RBACAllows, PolicyAllows, TokenClaims, SelfVerbs, PlatformVerbs

(* A deployment may choose either authorizer: they give every caller the   *)
(* same answer, but for a platform role granted since the token was issued *)
(* (authz.rego, "Keep this in lockstep").                                  *)
THEOREM ModesAlwaysAgree == AccessSpec => []ModesAgree
<1>1. AccessInv => ModesAgree
  <2> SUFFICES ASSUME AccessInv, NEW p \in People, session[p] # NoSession, NEW verb \in Verbs, NEW res
               PROVE  /\ RBACAllows(session[p], verb, res) => PolicyAllows(session[p], verb, res)
                      /\ PolicyAllows(session[p], verb, res) /\ ~RBACAllows(session[p], verb, res)
                           => p \in admins /\ ~session[p].admin /\ ~TenantPlane(verb)
    BY DEF ModesAgree
  <2>1. session[p] \in TokenClaims /\ session[p].user = p /\ (session[p].kind # "user" => ~session[p].admin)
    BY DEF AccessInv, TokensInv
  <2>2. CASE TenantPlane(verb)
    BY <2>1, <2>2, PlaneAgrees
  <2>3. CASE ~TenantPlane(verb)
    BY <2>1, <2>3, OffThePlane, SelfAgrees
  <2> QED BY <2>2, <2>3
<1> QED BY <1>1, Consistent, PTL

(* The visibility of the queue, search and the locale counts is that of    *)
(* GET, for every value of the three lists (dataVisibleExpr).              *)
THEOREM QueriesAlwaysAgree == AccessSpec => []QueriesAgreeWithGet
<1>1. AccessInv => QueriesAgreeWithGet
  BY DEF QueriesAgreeWithGet, DataVisible, GetShows, CanRead, Owns, Confined, RoleAllowed
<1> QED BY <1>1, Consistent, PTL

(* A refused writer is told exactly who may write.                         *)
THEOREM RefusalsAreExact == AccessSpec => []RefusalsNameTheWriters
<1>1. AccessInv => RefusalsNameTheWriters
  <2> SUFFICES ASSUME AccessInv, NEW p \in People, session[p].kind = "user", ~CanWrite(session[p])
               PROVE  EffectiveWriteRoles =
                        {r \in RoleNames : CanWrite([kind |-> "user", user |-> p, admin |-> FALSE, role |-> r])}
    BY DEF RefusalsNameTheWriters
  <2>1. lists["read"] \subseteq RoleNames /\ lists["write"] \subseteq RoleNames
    BY AccessAssumption DEF AccessInv, ListsInv, ListNames, RoleNames
  <2>2. ASSUME NEW r \in RoleNames
        PROVE  CanWrite([kind |-> "user", user |-> p, admin |-> FALSE, role |-> r])
                 <=> (lists["read"] = {} \/ r \in lists["read"]) /\ (lists["write"] = {} \/ r \in lists["write"])
    BY DEF CanWrite, CanRead, RoleAllowed
  <2>3. lists["read"] # {} \/ lists["write"] # {}
    BY DEF CanWrite, CanRead, RoleAllowed
  <2> QED BY <2>1, <2>2, <2>3 DEF EffectiveWriteRoles
<1> QED BY <1>1, Consistent, PTL

(* No confinement is ever in force over entries without an author          *)
(* (errOwnOnlyBackfill).                                                   *)
THEOREM NothingIsHidden == AccessSpec => []ConfinementHidesNothing
<1>1. AccessInv => ConfinementHidesNothing
  BY DEF AccessInv
<1> QED BY <1>1, Consistent, PTL

(* What the run checks of the lists: types, queries, refusals, confinement. *)
THEOREM ListsAreSound == AccessSpec => []ListsSound
BY AccessTyped, ModesAlwaysAgree, QueriesAlwaysAgree, RefusalsAreExact, NothingIsHidden, PTL DEF ListsSound

-----------------------------------------------------------------------------
(* The migration ledger.                                                   *)

Checksums == UNION {{Disk[b][v] : v \in DOMAIN Disk[b]} : b \in Builds}
Histories == UNION {[S -> Checksums] : S \in SUBSET Versions}
Active == [stage : {"create", "probe", "count", "read", "decide", "apply", "done", "serving",
                    "failed"},
           cmd : {"up", "adopt", "boot"}, build : Builds, to : Nat, hasLedger : BOOLEAN,
           empty : BOOLEAN, applied : Histories]

MigrateForm ==
  /\ tables \in [Versions -> Nat] /\ hasLedger \in BOOLEAN /\ recorded \in Histories
  /\ started \in 0..MaxCommands
  /\ proc \in [Operators -> Active \cup {Idle}]

First == Oldest(Versions)
Busied(p) == proc[p].stage # "idle"
Adopts(p) == Busied(p) /\ proc[p].cmd = "adopt"
Asking(p) == proc[p].stage \in {"read", "decide"}

(* What a process has read is still in the ledger, and a database that was *)
(* not empty is not.                                                       *)
ReadOf(p) ==
  Busied(p) =>
    /\ DOMAIN proc[p].applied \subseteq DOMAIN recorded
    /\ \A v \in DOMAIN proc[p].applied : proc[p].applied[v] = recorded[v]
    /\ Asking(p) /\ ~proc[p].empty => ~EmptyDatabase
    /\ proc[p].stage = "apply" => hasLedger /\ proc[p].cmd = "up" /\ Mismatched(p) = {}
    /\ Adopts(p) /\ proc[p].stage # "create" => hasLedger
    /\ proc[p].hasLedger => hasLedger

(* A claim tells what is there: or it was made of a fresh database.        *)
ClaimOf(p) ==
  Adopts(p) => \/ \A v \in DOMAIN Disk[proc[p].build] : v <= proc[p].to => tables[v] > 0
               \/ proc[p].to = First

(* KnowTheirDatabase, of one process.                                      *)
KnowOf(p) ==
  \/ proc[p].stage = "serving"
  \/ proc[p].stage = "done" /\ proc[p].cmd = "up"
  => \A v \in DOMAIN Disk[proc[p].build] :
        v \in DOMAIN recorded /\ recorded[v] = Disk[proc[p].build][v]

(* Rows are true, and the first migration comes first.                     *)
TruthInv ==
  /\ NoneRunsTwice /\ LedgerTellsTheTruth
  /\ recorded # <<>> => hasLedger
  /\ ~EmptyDatabase => tables[First] > 0

(* Every object has its row; before the adoption of a database there are   *)
(* no rows, nobody applies anything, and claims leave no object out.       *)
Adopted == \A v \in Versions : tables[v] > 0 => v \in DOMAIN recorded
WaitOf(p) ==
  Busied(p) =>
    /\ proc[p].stage # "apply" /\ DOMAIN proc[p].applied = {}
    /\ Asking(p) => ~proc[p].empty
    /\ Adopts(p) => \A v \in Versions : tables[v] > 0 =>
                      v \in DOMAIN Disk[proc[p].build] /\ v <= proc[p].to
Unadopted == DOMAIN recorded = {} /\ ~EmptyDatabase /\ \A p \in Operators : WaitOf(p)

MigrateInv == /\ MigrateForm /\ TruthInv /\ (Adopted \/ Unadopted)
              /\ \A p \in Operators : ReadOf(p) /\ ClaimOf(p) /\ KnowOf(p)

LEMMA NatMin ==
  ASSUME NEW S \in SUBSET Nat, S # {}
  PROVE  Oldest(S) \in S /\ \A w \in S : Oldest(S) <= w
<1>1. PICK x \in S : \A y \in S : <<y, x>> \notin OpToRel(<, Nat)
  BY WFMin, NatLessThanWellFounded
<1>2. \A y \in S : ~(y < x)
  BY <1>1 DEF OpToRel
<1>3. \A y \in S : x <= y
  BY <1>2
<1> QED BY <1>3 DEF Oldest

LEMMA BuildsShareFirst ==
  ASSUME NEW b \in Builds
  PROVE  /\ First \in DOMAIN Disk[b] /\ \A v \in DOMAIN Disk[b] : First <= v
         /\ DOMAIN Disk[b] \subseteq Versions /\ Versions \subseteq Nat \ {0}
         /\ \A v \in Versions : First <= v
<1>1. DOMAIN Disk[b] \subseteq Versions /\ Versions \subseteq Nat \ {0}
  BY MigrateAssumption DEF Versions
<1>2. PICK first \in DOMAIN Disk[b] :
        \A c \in Builds : first \in DOMAIN Disk[c] /\ \A v \in DOMAIN Disk[c] : first <= v
  BY MigrateAssumption
<1>3. first \in Versions /\ \A v \in Versions : first <= v
  BY <1>1, <1>2 DEF Versions
<1>4. First \in Versions /\ \A v \in Versions : First <= v
  BY <1>1, <1>3, NatMin DEF First
<1>5. First = first
  <2>1. First \in Nat /\ first \in Nat
    BY <1>1, <1>3, <1>4
  <2>2. First <= first /\ first <= First
    BY <1>3, <1>4
  <2> HIDE DEF First
  <2> QED BY <2>1, <2>2
<1> QED BY <1>1, <1>2, <1>3, <1>5

LEMMA HistoryForm ==
  /\ \A h \in Histories : /\ DOMAIN h \subseteq Versions /\ h \in [DOMAIN h -> Checksums]
  /\ \A S \in SUBSET Versions : \A h \in [S -> Checksums] : h \in Histories
  /\ <<>> \in Histories
<1>1. \A h \in Histories : DOMAIN h \subseteq Versions /\ h \in [DOMAIN h -> Checksums]
  BY DEF Histories
<1>2. \A S \in SUBSET Versions : \A h \in [S -> Checksums] : h \in Histories
  BY DEF Histories
<1>3. <<>> \in [{} -> Checksums]
  OBVIOUS
<1> QED BY <1>1, <1>2, <1>3

(* Recording keeps what is there and adds the files.                       *)
LEMMA RecordedForm ==
  ASSUME recorded \in Histories, NEW b \in Builds, NEW S \in SUBSET DOMAIN Disk[b]
  PROVE  LET h == Recorded([v \in S |-> Disk[b][v]]) IN
           /\ h \in Histories /\ DOMAIN h = DOMAIN recorded \cup S
           /\ \A v \in DOMAIN recorded : h[v] = recorded[v]
           /\ \A v \in S \ DOMAIN recorded : h[v] = Disk[b][v]
<1> DEFINE files == [v \in S |-> Disk[b][v]]
           h == Recorded(files)
<1>1. DOMAIN files = S /\ \A v \in S : files[v] = Disk[b][v]
  OBVIOUS
<1>2. S \subseteq Versions /\ \A v \in S : Disk[b][v] \in Checksums
  BY BuildsShareFirst DEF Checksums
<1>3. DOMAIN recorded \subseteq Versions /\ recorded \in [DOMAIN recorded -> Checksums]
  BY HistoryForm
<1> HIDE DEF files
<1>4. /\ h = [v \in DOMAIN recorded \cup S |-> IF v \in DOMAIN recorded THEN recorded[v] ELSE files[v]]
  BY <1>1 DEF Recorded
<1> HIDE DEF h
<1>5. /\ DOMAIN h = DOMAIN recorded \cup S
      /\ \A v \in DOMAIN recorded : h[v] = recorded[v]
      /\ \A v \in S \ DOMAIN recorded : h[v] = Disk[b][v]
  BY <1>1, <1>4
<1>6. h \in [DOMAIN recorded \cup S -> Checksums]
  BY <1>1, <1>2, <1>3, <1>4
<1>7. h \in Histories
  BY <1>2, <1>3, <1>6, HistoryForm
<1> QED BY <1>5, <1>7 DEF h, files

-----------------------------------------------------------------------------
(* What one step does to the others.                                       *)
OthersStay(p) == \A q \in Operators \ {p} : proc'[q] = proc[q]
Grows ==
  /\ DOMAIN recorded \subseteq DOMAIN recorded' /\ \A v \in DOMAIN recorded : recorded'[v] = recorded[v]
  /\ \A v \in Versions : tables[v] <= tables'[v]
  /\ hasLedger => hasLedger'

LEMMA ProcForm ==
  ASSUME MigrateForm, NEW p \in Operators
  PROVE  /\ Busied(p) => proc[p] \in Active
         /\ proc[p] \in Active => Busied(p)
         /\ ~Busied(p) => proc[p] = Idle
BY DEF MigrateForm, Busied, Active, Idle

LEMMA EmptyGrows ==
  ASSUME MigrateForm, MigrateForm', Grows, ~EmptyDatabase
  PROVE  ~EmptyDatabase'
<1>1. PICK v \in Versions : tables[v] # 0
  BY DEF EmptyDatabase
<1>2. tables[v] \in Nat /\ tables'[v] \in Nat /\ tables[v] <= tables'[v]
  BY DEF MigrateForm, Grows
<1> QED BY <1>1, <1>2 DEF EmptyDatabase

(* What a process knows stays true of a ledger that only grows.            *)
LEMMA KnowledgeStays ==
  ASSUME MigrateInv, MigrateForm', Grows, NEW q \in Operators, proc'[q] = proc[q]
  PROVE  ReadOf(q)' /\ ClaimOf(q)' /\ KnowOf(q)'
<1>1. ReadOf(q) /\ ClaimOf(q) /\ KnowOf(q) /\ MigrateForm
  BY DEF MigrateInv
<1>2. ~EmptyDatabase => ~EmptyDatabase'
  BY <1>1, EmptyGrows
<1>3. Busied(q) => proc[q] \in Active
  BY <1>1, ProcForm
<1>4. ReadOf(q)'
  <2> HIDE DEF EmptyDatabase
  <2> QED BY <1>1, <1>2, <1>3 DEF ReadOf, Busied, Asking, Adopts, Mismatched, Grows, Active
<1>5. ClaimOf(q)'
  <2>1. CASE ~Adopts(q)
    BY <2>1 DEF ClaimOf, Adopts, Busied
  <2>2. CASE Adopts(q) /\ proc[q].to = First
    BY <2>2 DEF ClaimOf, Adopts, Busied, First
  <2>3. CASE Adopts(q) /\ \A v \in DOMAIN Disk[proc[q].build] : v <= proc[q].to => tables[v] > 0
    <3>1. proc[q].build \in Builds
      BY <1>3, <2>3 DEF Adopts, Active
    <3>2. ASSUME NEW v \in DOMAIN Disk[proc[q].build], v <= proc[q].to
          PROVE  tables'[v] > 0
      <4>1. v \in Versions
        BY <3>1, BuildsShareFirst
      <4>2. tables[v] > 0 /\ tables[v] \in Nat /\ tables'[v] \in Nat /\ tables[v] <= tables'[v]
        BY <4>1, <2>3, <3>2 DEF MigrateForm, MigrateInv, Grows
      <4> QED BY <4>2
    <3> QED BY <3>2 DEF ClaimOf
  <2> QED BY <1>1, <2>1, <2>2, <2>3 DEF ClaimOf
<1>6. KnowOf(q)'
  BY <1>1 DEF KnowOf, Grows
<1> QED BY <1>4, <1>5, <1>6

(* A step has to be looked at for the process that makes it.               *)
LEMMA OneMoves ==
  ASSUME MigrateInv, NEW p \in Operators, MigrateForm', Grows, OthersStay(p),
         ReadOf(p)', ClaimOf(p)', KnowOf(p)', TruthInv',
         \/ Adopted'
         \/ Unadopted /\ UNCHANGED <<tables, recorded>> /\ WaitOf(p)'
  PROVE  MigrateInv'
<1>1. ASSUME NEW q \in Operators PROVE ReadOf(q)' /\ ClaimOf(q)' /\ KnowOf(q)'
  BY KnowledgeStays DEF OthersStay
<1>2. CASE Unadopted /\ UNCHANGED <<tables, recorded>> /\ WaitOf(p)'
  <2>1. ASSUME NEW q \in Operators \ {p} PROVE WaitOf(q)'
    <3>1. WaitOf(q) /\ proc'[q] = proc[q] /\ tables' = tables
      BY <1>2 DEF Unadopted, OthersStay
    <3> QED BY <3>1 DEF WaitOf, Busied, Asking, Adopts
  <2>2. EmptyDatabase' = EmptyDatabase
    BY <1>2 DEF EmptyDatabase
  <2>3. Unadopted'
    BY <1>2, <2>1, <2>2 DEF Unadopted
  <2> QED BY <1>1, <2>3 DEF MigrateInv
<1>3. CASE Adopted'
  BY <1>1, <1>3 DEF MigrateInv
<1> QED BY <1>2, <1>3

(* The steps that write no row and make no object.                         *)
LEMMA NothingWritten ==
  ASSUME MigrateInv, UNCHANGED <<tables, recorded>>, hasLedger => hasLedger', MigrateForm'
  PROVE  Grows /\ TruthInv' /\ (Adopted => Adopted') /\ EmptyDatabase' = EmptyDatabase
<1>1. Grows
  BY DEF Grows, MigrateInv, MigrateForm
<1>2. EmptyDatabase' = EmptyDatabase
  BY DEF EmptyDatabase
<1>3. TruthInv'
  BY <1>2 DEF MigrateInv, TruthInv, NoneRunsTwice, LedgerTellsTheTruth
<1> QED BY <1>1, <1>2, <1>3 DEF Adopted

(* One field of a process is set, or more.                                 *)
LEMMA EnterForm ==
  ASSUME MigrateForm, NEW p \in Operators, Busied(p), NEW s,
         s \in {"create", "probe", "count", "read", "decide", "apply", "done", "serving", "failed"},
         Enter(p, s)
  PROVE  /\ proc' \in [Operators -> Active \cup {Idle}] /\ OthersStay(p)
         /\ proc'[p] \in Active /\ proc[p] \in Active /\ proc'[p].stage = s
         /\ proc'[p].cmd = proc[p].cmd /\ proc'[p].build = proc[p].build /\ proc'[p].to = proc[p].to
         /\ proc'[p].hasLedger = proc[p].hasLedger /\ proc'[p].empty = proc[p].empty
         /\ proc'[p].applied = proc[p].applied
<1>1. proc[p] \in Active /\ proc \in [Operators -> Active \cup {Idle}]
  BY ProcForm DEF MigrateForm
<1>2. proc'[p] = [proc[p] EXCEPT !.stage = s] /\ OthersStay(p)
      /\ proc' = [proc EXCEPT ![p] = [proc[p] EXCEPT !.stage = s]]
  BY <1>1 DEF Enter, OthersStay
<1>3. [proc[p] EXCEPT !.stage = s] \in Active
  BY <1>1 DEF Active
<1>4. proc' \in [Operators -> Active \cup {Idle}]
  BY <1>1, <1>2, <1>3
<1> QED BY <1>1, <1>2, <1>3, <1>4 DEF Active

LEMMA StartStep ==
  ASSUME MigrateInv, NEW p \in Operators, Start(p) PROVE MigrateInv'
<1>1. PICK b \in Builds, cmd \in {"up", "adopt", "boot"} :
        \E to \in IF cmd = "adopt" THEN Claims(b) ELSE {0} : proc' = [proc EXCEPT ![p] = Fresh(cmd, b, to)]
  BY DEF Start
<1>2. PICK to \in IF cmd = "adopt" THEN Claims(b) ELSE {0} : proc' = [proc EXCEPT ![p] = Fresh(cmd, b, to)]
  BY <1>1
<1>3. to \in Nat /\ (cmd = "adopt" => to \in Claims(b))
  <2>1. Claims(b) \subseteq Nat
    BY BuildsShareFirst DEF Claims
  <2> QED BY <1>2, <2>1
<1> DEFINE new == Fresh(cmd, b, to)
<1>4. new \in Active /\ new.cmd = cmd /\ new.build = b /\ new.to = to /\ new.applied = <<>>
      /\ new.stage = (IF cmd = "adopt" THEN "create" ELSE "probe") /\ new.hasLedger = FALSE
  BY <1>1, <1>3, HistoryForm DEF Fresh, Active
<1> HIDE DEF new
<1>5. MigrateForm' /\ proc'[p] = new /\ OthersStay(p) /\ UNCHANGED <<tables, hasLedger, recorded>>
  <2>1. proc' = [proc EXCEPT ![p] = new] /\ MigrateForm
    BY <1>2 DEF MigrateInv, new
  <2>2. UNCHANGED <<tables, hasLedger, recorded>> /\ started < MaxCommands /\ started' = started + 1
    BY DEF Start
  <2>3. proc' \in [Operators -> Active \cup {Idle}] /\ proc'[p] = new /\ OthersStay(p)
    BY <1>4, <2>1 DEF MigrateForm, OthersStay
  <2>4. started' \in 0..MaxCommands
    BY <2>1, <2>2, MigrateAssumption DEF MigrateForm
  <2> QED BY <2>1, <2>2, <2>3, <2>4 DEF MigrateForm
<1>6. Grows /\ TruthInv' /\ (Adopted => Adopted') /\ EmptyDatabase' = EmptyDatabase
  BY <1>5, NothingWritten
<1>7. DOMAIN <<>> = {}
  OBVIOUS
<1>8. ReadOf(p)' /\ KnowOf(p)'
  BY <1>4, <1>5, <1>7 DEF ReadOf, KnowOf, Asking, Adopts, Busied
<1>9. ClaimOf(p)'
  BY <1>3, <1>4, <1>5 DEF ClaimOf, Adopts, Busied, Claims, First
<1>10. Unadopted => WaitOf(p)'
  <2> HIDE DEF EmptyDatabase
  <2> QED BY <1>3, <1>4, <1>5, <1>7 DEF Unadopted, WaitOf, Adopts, Busied, Asking, Claims
<1> QED BY <1>5, <1>6, <1>8, <1>9, <1>10, OneMoves DEF MigrateInv

LEMMA CreateStep ==
  ASSUME MigrateInv, NEW p \in Operators, CreateLedger(p) PROVE MigrateInv'
<1> USE DEF Busied
<1>0. MigrateForm /\ ReadOf(p) /\ ClaimOf(p) /\ Busied(p)
  BY DEF MigrateInv, CreateLedger
<1>1. /\ OthersStay(p) /\ proc'[p] \in Active /\ proc'[p].stage = "probe"
      /\ proc'[p].cmd = proc[p].cmd /\ proc'[p].build = proc[p].build /\ proc'[p].to = proc[p].to
      /\ proc'[p].applied = proc[p].applied /\ MigrateForm'
  BY <1>0, EnterForm DEF CreateLedger, MigrateForm
<1>2. Grows /\ TruthInv' /\ (Adopted => Adopted') /\ EmptyDatabase' = EmptyDatabase
  BY <1>1, NothingWritten DEF CreateLedger
<1>3. ReadOf(p)' /\ KnowOf(p)' /\ ClaimOf(p)'
  BY <1>0, <1>1 DEF CreateLedger, ReadOf, KnowOf, Asking, Adopts, ClaimOf, First
<1>4. Unadopted => WaitOf(p)'
  BY <1>0, <1>1 DEF CreateLedger, Unadopted, WaitOf, Asking, Adopts
<1> QED BY <1>1, <1>2, <1>3, <1>4, OneMoves DEF MigrateInv, CreateLedger

LEMMA ProbeStep ==
  ASSUME MigrateInv, NEW p \in Operators, ProbeLedger(p) PROVE MigrateInv'
<1> USE DEF Busied
<1>0. MigrateForm /\ ReadOf(p) /\ ClaimOf(p) /\ Busied(p) /\ proc[p] \in Active
  BY ProcForm DEF MigrateInv, ProbeLedger
<1> DEFINE new == [proc[p] EXCEPT !.stage = "count", !.hasLedger = hasLedger]
<1>1. /\ new \in Active /\ new.stage = "count" /\ new.hasLedger = hasLedger
      /\ new.cmd = proc[p].cmd /\ new.build = proc[p].build /\ new.to = proc[p].to
      /\ new.applied = proc[p].applied
  BY <1>0 DEF Active, MigrateForm
<1>2. OthersStay(p) /\ proc'[p] = new /\ MigrateForm'
  BY <1>0, <1>1 DEF ProbeLedger, MigrateForm, OthersStay
<1> HIDE DEF new
<1>3. Grows /\ TruthInv' /\ (Adopted => Adopted') /\ EmptyDatabase' = EmptyDatabase
  BY <1>2, NothingWritten DEF ProbeLedger
<1>4. ReadOf(p)' /\ KnowOf(p)' /\ ClaimOf(p)'
  BY ZenonT(40), <1>0, <1>1, <1>2 DEF ProbeLedger, ReadOf, KnowOf, Asking, Adopts, ClaimOf, First
<1>5. Unadopted => WaitOf(p)'
  BY <1>0, <1>1, <1>2 DEF ProbeLedger, Unadopted, WaitOf, Asking, Adopts
<1> QED BY <1>2, <1>3, <1>4, <1>5, OneMoves DEF MigrateInv, ProbeLedger

LEMMA CountStep ==
  ASSUME MigrateInv, NEW p \in Operators, CountTables(p) PROVE MigrateInv'
<1> USE DEF Busied
<1>0. MigrateForm /\ ReadOf(p) /\ ClaimOf(p) /\ Busied(p) /\ proc[p] \in Active
  BY ProcForm DEF MigrateInv, CountTables
<1> DEFINE next == IF proc[p].hasLedger THEN "read" ELSE "decide"
           new == [proc[p] EXCEPT !.empty = EmptyDatabase, !.stage = next]
<1>1. /\ new \in Active /\ new.stage = next /\ new.empty = EmptyDatabase
      /\ new.cmd = proc[p].cmd /\ new.build = proc[p].build /\ new.to = proc[p].to
      /\ new.applied = proc[p].applied /\ new.hasLedger = proc[p].hasLedger
  <2>1. EmptyDatabase \in BOOLEAN
    BY DEF EmptyDatabase
  <2>2. next \in {"read", "decide"}
    OBVIOUS
  <2> HIDE DEF EmptyDatabase, next
  <2> QED BY <1>0, <2>1, <2>2 DEF Active
<1>2. OthersStay(p) /\ proc'[p] = new /\ MigrateForm'
  <2>1. proc' = [proc EXCEPT ![p] = new]
    BY <1>0 DEF CountTables, MigrateForm
  <2> HIDE DEF new
  <2> QED BY <1>0, <1>1, <2>1 DEF CountTables, MigrateForm, OthersStay
<1>3. next \in {"read", "decide"}
  OBVIOUS
<1> HIDE DEF new, next
<1>4. Grows /\ TruthInv' /\ (Adopted => Adopted') /\ EmptyDatabase' = EmptyDatabase
  BY <1>2, NothingWritten DEF CountTables
<1>5. ReadOf(p)' /\ KnowOf(p)' /\ ClaimOf(p)'
  <2> HIDE DEF EmptyDatabase
  <2> QED BY <1>0, <1>1, <1>2, <1>3, <1>4 DEF CountTables, ReadOf, KnowOf, Asking, Adopts, ClaimOf, First
<1>6. Unadopted => WaitOf(p)'
  <2> HIDE DEF EmptyDatabase
  <2> QED BY <1>0, <1>1, <1>2, <1>3, <1>4 DEF CountTables, Unadopted, WaitOf, Asking, Adopts
<1> QED BY <1>2, <1>4, <1>5, <1>6, OneMoves DEF MigrateInv, CountTables

LEMMA ReadStep ==
  ASSUME MigrateInv, NEW p \in Operators, ReadLedger(p) PROVE MigrateInv'
<1> USE DEF Busied
<1>0. MigrateForm /\ ReadOf(p) /\ ClaimOf(p) /\ Busied(p) /\ proc[p] \in Active
  BY ProcForm DEF MigrateInv, ReadLedger
<1> DEFINE new == [proc[p] EXCEPT !.applied = recorded, !.stage = "decide"]
<1>1. /\ new \in Active /\ new.stage = "decide" /\ new.applied = recorded /\ new.empty = proc[p].empty
      /\ new.cmd = proc[p].cmd /\ new.build = proc[p].build /\ new.to = proc[p].to
      /\ new.hasLedger = proc[p].hasLedger
  BY <1>0 DEF Active, MigrateForm
<1>2. OthersStay(p) /\ proc'[p] = new /\ MigrateForm'
  BY <1>0, <1>1 DEF ReadLedger, MigrateForm, OthersStay
<1> HIDE DEF new
<1>3. Grows /\ TruthInv' /\ (Adopted => Adopted') /\ EmptyDatabase' = EmptyDatabase
  BY <1>2, NothingWritten DEF ReadLedger
<1>4. ReadOf(p)' /\ KnowOf(p)' /\ ClaimOf(p)'
  <2> HIDE DEF EmptyDatabase
  <2> QED BY <1>0, <1>1, <1>2, <1>3 DEF ReadLedger, ReadOf, KnowOf, Asking, Adopts, ClaimOf, First
<1>5. Unadopted => WaitOf(p)'
  BY <1>0, <1>1, <1>2 DEF ReadLedger, Unadopted, WaitOf, Asking, Adopts
<1> QED BY <1>2, <1>3, <1>4, <1>5, OneMoves DEF MigrateInv, ReadLedger

(* Nothing missing and nothing different: the build is what is recorded.   *)
LEMMA AllAccounted ==
  ASSUME NEW p \in Operators, Busied(p), ReadOf(p), Missing(p) = {}, Mismatched(p) = {}
  PROVE  \A v \in DOMAIN Disk[proc[p].build] :
            v \in DOMAIN recorded /\ recorded[v] = Disk[proc[p].build][v]
BY DEF ReadOf, Missing, Mismatched

LEMMA VerifyStep ==
  ASSUME MigrateInv, NEW p \in Operators, VerifyBoot(p) PROVE MigrateInv'
<1>0. MigrateForm /\ ReadOf(p) /\ ClaimOf(p) /\ Busied(p) /\ ~Adopts(p)
  BY DEF MigrateInv, VerifyBoot, Adopts, Busied
<1> DEFINE s == IF proc[p].hasLedger /\ Missing(p) = {} /\ Mismatched(p) = {} THEN "serving" ELSE "failed"
<1>1. s \in {"serving", "failed"} /\ (s = "serving" => Missing(p) = {} /\ Mismatched(p) = {})
  BY DEF Missing
<1>2. Enter(p, s) /\ UNCHANGED <<tables, hasLedger, recorded, started>>
  BY DEF VerifyBoot
<1> HIDE DEF s
<1>3. /\ OthersStay(p) /\ proc'[p] \in Active /\ proc'[p].stage = s
      /\ proc'[p].cmd = proc[p].cmd /\ proc'[p].build = proc[p].build /\ proc'[p].to = proc[p].to
      /\ proc'[p].applied = proc[p].applied /\ MigrateForm' /\ proc'[p].hasLedger = proc[p].hasLedger
  BY <1>0, <1>1, <1>2, EnterForm DEF MigrateForm
<1>4. Grows /\ TruthInv' /\ (Adopted => Adopted') /\ EmptyDatabase' = EmptyDatabase
  BY <1>2, <1>3, NothingWritten
<1>5. ReadOf(p)' /\ ClaimOf(p)'
  BY <1>0, <1>1, <1>2, <1>3 DEF ReadOf, Asking, Adopts, ClaimOf, Busied
<1>6. KnowOf(p)'
  <2>1. CASE s = "serving"
    BY <1>0, <1>1, <1>2, <1>3, <2>1, AllAccounted DEF KnowOf
  <2> QED BY <1>0, <1>1, <1>2, <1>3, <2>1 DEF KnowOf
<1>7. Unadopted => WaitOf(p)'
  BY <1>0, <1>1, <1>2, <1>3 DEF Unadopted, WaitOf, Asking, Adopts, Busied
<1> QED BY <1>2, <1>3, <1>4, <1>5, <1>6, <1>7, OneMoves DEF MigrateInv

LEMMA DecideUpStep ==
  ASSUME MigrateInv, NEW p \in Operators, DecideUp(p) PROVE MigrateInv'
<1>0. MigrateForm /\ ReadOf(p) /\ Busied(p) /\ ~Adopts(p) /\ proc[p].stage = "decide"
      /\ proc[p].cmd = "up"
  BY DEF MigrateInv, DecideUp, Adopts, Busied
<1> DEFINE s == IF Unaccounted(p) \/ Mismatched(p) # {} THEN "failed" ELSE "apply"
<1>1. s \in {"apply", "failed"} /\ (s = "apply" => ~Unaccounted(p) /\ Mismatched(p) = {})
  OBVIOUS
<1>2. Enter(p, s) /\ UNCHANGED <<tables, recorded, started>> /\ hasLedger' = (hasLedger \/ ~Unaccounted(p))
  BY DEF DecideUp
<1> HIDE DEF s
<1>3. /\ OthersStay(p) /\ proc'[p] \in Active /\ proc'[p].stage = s
      /\ proc'[p].cmd = proc[p].cmd /\ proc'[p].build = proc[p].build /\ proc'[p].to = proc[p].to
      /\ proc'[p].applied = proc[p].applied /\ proc'[p].hasLedger = proc[p].hasLedger
      /\ proc' \in [Operators -> Active \cup {Idle}]
  BY <1>0, <1>1, <1>2, EnterForm
<1>30. MigrateForm'
  <2>1. hasLedger' \in BOOLEAN
    BY <1>0, <1>2 DEF MigrateForm, Unaccounted
  <2> QED BY <1>0, <1>2, <1>3, <2>1 DEF MigrateForm
<1>4. Grows /\ TruthInv' /\ (Adopted => Adopted') /\ EmptyDatabase' = EmptyDatabase
  BY <1>2, <1>30, NothingWritten
<1>5. ReadOf(p)' /\ ClaimOf(p)' /\ KnowOf(p)'
  <2>1. Mismatched(p)' = Mismatched(p)
    BY <1>3 DEF Mismatched
  <2> HIDE DEF EmptyDatabase
  <2> QED BY <1>0, <1>1, <1>2, <1>3, <2>1 DEF ReadOf, KnowOf, Asking, Adopts, ClaimOf, Busied
<1>6. Unadopted => WaitOf(p)'
  BY <1>0, <1>1, <1>2, <1>3 DEF Unadopted, WaitOf, Asking, Adopts, Busied, Unaccounted
<1> QED BY <1>2, <1>3, <1>30, <1>4, <1>5, <1>6, OneMoves DEF MigrateInv

LEMMA FinishStep ==
  ASSUME MigrateInv, NEW p \in Operators, UpFinishes(p) PROVE MigrateInv'
<1>0. MigrateForm /\ ReadOf(p) /\ ClaimOf(p) /\ Busied(p) /\ Missing(p) = {} /\ Mismatched(p) = {}
      /\ Enter(p, "done") /\ proc[p].cmd = "up" /\ proc[p].stage = "apply"
  BY DEF MigrateInv, UpFinishes, Busied, Pending, ReadOf
<1>1. /\ OthersStay(p) /\ proc'[p] \in Active /\ proc'[p].stage = "done"
      /\ proc'[p].cmd = proc[p].cmd /\ proc'[p].build = proc[p].build /\ proc'[p].to = proc[p].to
      /\ proc'[p].applied = proc[p].applied /\ MigrateForm' /\ proc'[p].hasLedger = proc[p].hasLedger
  BY <1>0, EnterForm DEF MigrateForm, UpFinishes
<1>2. Grows /\ TruthInv' /\ (Adopted => Adopted') /\ EmptyDatabase' = EmptyDatabase
  BY <1>1, NothingWritten DEF UpFinishes
<1>3. ReadOf(p)' /\ ClaimOf(p)'
  BY <1>0, <1>1 DEF ReadOf, Asking, Adopts, ClaimOf, Busied, UpFinishes
<1>4. KnowOf(p)'
  BY <1>0, <1>1, AllAccounted DEF KnowOf, UpFinishes
<1>5. ~Unadopted
  BY <1>0 DEF Unadopted, WaitOf
<1> QED BY <1>1, <1>2, <1>3, <1>4, <1>5, OneMoves DEF MigrateInv

LEMMA DieStep ==
  ASSUME MigrateInv, NEW p \in Operators, Die(p) PROVE MigrateInv'
<1>1. OthersStay(p) /\ proc'[p] = Idle /\ MigrateForm' /\ UNCHANGED <<tables, hasLedger, recorded>>
  BY DEF Die, MigrateInv, MigrateForm, OthersStay
<1>2. Grows /\ TruthInv' /\ (Adopted => Adopted')
  BY <1>1, NothingWritten
<1>3. ReadOf(p)' /\ ClaimOf(p)' /\ KnowOf(p)' /\ WaitOf(p)'
  BY <1>1 DEF ReadOf, ClaimOf, KnowOf, WaitOf, Adopts, Busied, Idle
<1> QED BY <1>1, <1>2, <1>3, OneMoves DEF MigrateInv

(* Where nothing is recorded, the first file to apply is the first.        *)
LEMMA FirstComesFirst ==
  ASSUME MigrateInv, NEW p \in Operators, Busied(p), EmptyDatabase, proc[p].build \in Builds
  PROVE  Oldest(Pending(p)) = First
<1>1. DOMAIN recorded = {}
  <2>1. DOMAIN recorded \subseteq Versions
    BY HistoryForm DEF MigrateInv, MigrateForm
  <2>2. ASSUME NEW v \in DOMAIN recorded PROVE FALSE
    BY <2>1, <2>2 DEF MigrateInv, TruthInv, LedgerTellsTheTruth, EmptyDatabase
  <2> QED BY <2>2
<1>2. Pending(p) = DOMAIN Disk[proc[p].build]
  BY <1>1 DEF Pending, Missing, MigrateInv, ReadOf
<1> DEFINE S == DOMAIN Disk[proc[p].build]
<1>3. First \in S /\ (\A v \in S : First <= v) /\ S \in SUBSET Nat
  BY BuildsShareFirst
<1>4. Oldest(S) \in S /\ \A w \in S : Oldest(S) <= w
  BY <1>3, NatMin
<1> HIDE DEF S, First
<1>5. First \in Nat /\ Oldest(S) \in Nat /\ First <= Oldest(S) /\ Oldest(S) <= First
  BY <1>3, <1>4
<1>6. Oldest(S) = First
  BY <1>5
<1> QED BY <1>2, <1>6 DEF S

LEMMA ApplyStep ==
  ASSUME MigrateInv, NEW p \in Operators, ApplyOne(p) PROVE MigrateInv'
<1> DEFINE v == Oldest(Pending(p))
           b == proc[p].build
<1>0. /\ MigrateForm /\ TruthInv /\ ReadOf(p) /\ Busied(p) /\ proc[p] \in Active
      /\ proc[p].stage = "apply" /\ proc[p].cmd = "up" /\ hasLedger /\ Mismatched(p) = {} /\ ~Adopts(p)
      /\ UNCHANGED <<hasLedger, started>> /\ Adopted
  BY ProcForm DEF MigrateInv, ApplyOne, Busied, ReadOf, Adopts, Unadopted, WaitOf
<1>1. b \in Builds /\ Pending(p) # {} /\ Pending(p) \subseteq DOMAIN Disk[b] /\ Pending(p) \in SUBSET Nat
  BY <1>0, BuildsShareFirst DEF Active, ApplyOne, Pending, Missing
<1>2. v \in Pending(p) /\ v \in DOMAIN Disk[b] /\ v \in Versions /\ v \in Nat /\ Disk[b][v] \in Checksums
  BY <1>1, NatMin, BuildsShareFirst DEF Checksums
<1>3. CASE Enter(p, "failed") /\ UNCHANGED <<tables, recorded>>
  <2>1. /\ OthersStay(p) /\ proc'[p] \in Active /\ proc'[p].stage = "failed"
        /\ proc'[p].cmd = proc[p].cmd /\ proc'[p].build = proc[p].build
        /\ proc'[p].applied = proc[p].applied /\ MigrateForm' /\ proc'[p].hasLedger = proc[p].hasLedger
    BY <1>0, <1>3, EnterForm DEF MigrateForm
  <2>2. Grows /\ TruthInv' /\ (Adopted => Adopted')
    BY <1>0, <1>3, <2>1, NothingWritten
  <2>3. ReadOf(p)' /\ ClaimOf(p)' /\ KnowOf(p)'
    BY <1>0, <1>3, <2>1 DEF ReadOf, Asking, Adopts, ClaimOf, KnowOf, Busied
  <2> QED BY <1>0, <2>1, <2>2, <2>3, OneMoves
<1> DEFINE applied == [w \in DOMAIN proc[p].applied \cup {v} |->
                         IF w = v THEN Disk[b][v] ELSE proc[p].applied[w]]
           new == [proc[p] EXCEPT !.applied = applied]
<1>4. CASE /\ v \notin DOMAIN recorded
           /\ tables' = [tables EXCEPT ![v] = @ + 1]
           /\ recorded' = Recorded([w \in {v} |-> Disk[b][w]])
           /\ proc' = [proc EXCEPT ![p].applied =
                         [w \in DOMAIN @ \cup {v} |-> IF w = v THEN Disk[b][v] ELSE @[w]]]
  <2> HIDE DEF v, b
  <2>1. /\ proc[p].applied \in Histories /\ DOMAIN proc[p].applied \subseteq Versions
        /\ proc[p].applied \in [DOMAIN proc[p].applied -> Checksums]
    BY <1>0, HistoryForm DEF Active
  <2>2. applied \in [DOMAIN proc[p].applied \cup {v} -> Checksums] /\ DOMAIN applied = DOMAIN proc[p].applied \cup {v}
        /\ applied[v] = Disk[b][v] /\ \A w \in DOMAIN proc[p].applied \ {v} : applied[w] = proc[p].applied[w]
    BY <1>2, <2>1
  <2>3. applied \in Histories
    BY <1>2, <2>1, <2>2, HistoryForm
  <2>4. proc' = [proc EXCEPT ![p] = new]
    BY <1>0, <1>4 DEF MigrateForm
  <2> HIDE DEF applied
  <2>5. /\ new \in Active /\ new.stage = "apply" /\ new.cmd = "up" /\ new.build = b
        /\ new.applied = applied /\ new.hasLedger = proc[p].hasLedger
    BY <1>0, <2>3 DEF Active, b
  <2> HIDE DEF new
  <2>6. proc'[p] = new /\ OthersStay(p) /\ proc' \in [Operators -> Active \cup {Idle}]
    BY <1>0, <2>4, <2>5 DEF MigrateForm, OthersStay
  <2>7. tables[v] = 0
    BY <1>0, <1>2, <1>4 DEF MigrateForm, Adopted
  <2>8. tables' \in [Versions -> Nat] /\ tables'[v] = 1 /\ \A w \in Versions \ {v} : tables'[w] = tables[w]
    BY <1>0, <1>2, <1>4, <2>7 DEF MigrateForm
  <2>9. /\ recorded' \in Histories /\ DOMAIN recorded' = DOMAIN recorded \cup {v}
        /\ \A w \in DOMAIN recorded : recorded'[w] = recorded[w]
        /\ recorded'[v] = Disk[b][v]
    <3>1. {v} \in SUBSET DOMAIN Disk[b] /\ b \in Builds /\ recorded \in Histories
      BY <1>0, <1>1, <1>2 DEF MigrateForm, b
    <3> QED BY <1>4, <3>1, RecordedForm
  <2>10. MigrateForm'
    BY <1>0, <2>6, <2>8, <2>9 DEF MigrateForm
  <2>11. \A w \in Versions : tables[w] \in Nat /\ tables'[w] \in Nat /\ tables[w] <= tables'[w]
    BY <1>0, <2>7, <2>8 DEF MigrateForm
  <2>12. Grows
    BY <1>0, <2>9, <2>11 DEF Grows
  <2>13. TruthInv'
    <3>1. NoneRunsTwice' /\ LedgerTellsTheTruth'
      <4>1. NoneRunsTwice'
        BY <1>0, <2>8 DEF TruthInv, NoneRunsTwice
      <4>2. DOMAIN recorded \subseteq Versions
        BY <1>0, HistoryForm DEF MigrateForm
      <4>3. LedgerTellsTheTruth'
        BY <1>0, <2>8, <2>9, <4>2 DEF TruthInv, LedgerTellsTheTruth
      <4> QED BY <4>1, <4>3
    <3>2. tables'[First] > 0
      <4>1. First \in Versions
        BY <1>1, BuildsShareFirst DEF b
      <4>2. CASE EmptyDatabase
        <5>1. v = First
          BY <1>0, <1>1, <4>2, FirstComesFirst DEF v, b
        <5> QED BY <2>8, <5>1
      <4>3. CASE ~EmptyDatabase
        <5>1. tables[First] > 0
          BY <1>0, <4>3 DEF TruthInv
        <5> HIDE DEF First
        <5> QED BY <2>11, <4>1, <5>1
      <4> QED BY <4>2, <4>3
    <3> QED BY <1>0, <3>1, <3>2 DEF TruthInv
  <2>14. Adopted'
    BY <1>0, <2>8, <2>9 DEF Adopted
  <2>15. ReadOf(p)'
    <3>1. \A w \in DOMAIN applied : w \in DOMAIN recorded' /\ applied[w] = recorded'[w]
      BY <1>0, <2>2, <2>9 DEF ReadOf
    <3>2. Mismatched(p)' = {}
      BY <1>0, <2>2, <2>5, <2>6 DEF Mismatched, b
    <3> QED BY <1>0, <2>5, <2>6, <3>1, <3>2 DEF ReadOf, Asking, Adopts, Busied
  <2>16. ClaimOf(p)' /\ KnowOf(p)'
    BY <2>5, <2>6 DEF ClaimOf, KnowOf, Adopts, Busied
  <2> QED BY <2>6, <2>10, <2>12, <2>13, <2>14, <2>15, <2>16, OneMoves
<1> QED BY <1>3, <1>4 DEF ApplyOne

LEMMA AdoptStep ==
  ASSUME MigrateInv, NEW p \in Operators, DecideAdopt(p) PROVE MigrateInv'
<1> DEFINE b == proc[p].build
           claim == {v \in DOMAIN Disk[b] : v <= proc[p].to}
           s == IF NothingToAdopt(p) THEN "failed" ELSE "done"
<1>0. /\ MigrateForm /\ TruthInv /\ ReadOf(p) /\ ClaimOf(p) /\ Busied(p) /\ proc[p] \in Active /\ Asking(p)
      /\ proc[p].stage = "decide" /\ proc[p].cmd = "adopt" /\ hasLedger /\ Adopts(p)
      /\ UNCHANGED <<tables, hasLedger, started>> /\ b \in Builds /\ proc[p].to \in Nat
  BY ProcForm DEF MigrateInv, DecideAdopt, Busied, ReadOf, Adopts, Asking, Active
<1>1. Enter(p, s) /\ s \in {"failed", "done"}
  BY DEF DecideAdopt
<1> HIDE DEF s
<1>2. /\ OthersStay(p) /\ proc'[p] \in Active /\ proc'[p].stage = s
      /\ proc'[p].cmd = proc[p].cmd /\ proc'[p].build = proc[p].build /\ proc'[p].to = proc[p].to
      /\ proc'[p].applied = proc[p].applied /\ proc' \in [Operators -> Active \cup {Idle}]
      /\ proc'[p].hasLedger = proc[p].hasLedger
  BY <1>0, <1>1, EnterForm
<1>3. CASE UNCHANGED recorded
  <2>1. MigrateForm'
    BY <1>0, <1>2, <1>3 DEF MigrateForm
  <2>2. Grows /\ TruthInv' /\ (Adopted => Adopted')
    BY <1>0, <1>3, <2>1, NothingWritten
  <2>3. ReadOf(p)' /\ ClaimOf(p)' /\ KnowOf(p)'
    BY <1>0, <1>1, <1>2, <1>3 DEF ReadOf, Asking, Adopts, ClaimOf, KnowOf, Busied, First
  <2>4. Unadopted => WaitOf(p)'
    BY <1>0, <1>1, <1>2, <1>3 DEF Unadopted, WaitOf, Asking, Adopts, Busied
  <2> QED BY <1>0, <1>2, <1>3, <2>1, <2>2, <2>3, <2>4, OneMoves DEF MigrateInv
<1>4. CASE ~NothingToAdopt(p) /\ recorded' = Recorded([v \in claim |-> Disk[b][v]])
  <2>1. DOMAIN recorded \subseteq Versions
    BY <1>0, HistoryForm DEF MigrateForm
  <2>2. ~EmptyDatabase
    <3>1. CASE ~proc[p].empty
      BY <1>0, <3>1 DEF ReadOf
    <3>2. CASE DOMAIN proc[p].applied # {}
      <4>1. PICK v \in DOMAIN recorded : tables[v] > 0
        BY <1>0, <3>2 DEF ReadOf, TruthInv, LedgerTellsTheTruth
      <4> QED BY <2>1, <4>1 DEF EmptyDatabase
    <3> QED BY <1>4, <3>1, <3>2 DEF NothingToAdopt
  <2>3. tables[First] > 0
    BY <1>0, <2>2 DEF TruthInv
  <2>4. claim \in SUBSET DOMAIN Disk[b] /\ DOMAIN Disk[b] \subseteq Versions
    BY <1>0, BuildsShareFirst
  <2>5. \A v \in claim : tables[v] > 0
    <3>1. CASE proc[p].to = First
      <4>1. \A v \in DOMAIN Disk[b] : First <= v /\ v \in Nat /\ First \in Nat
        BY <1>0, BuildsShareFirst
      <4> HIDE DEF First
      <4>2. \A v \in claim : v = First
        BY <3>1, <4>1
      <4> QED BY <2>3, <4>2
    <3> QED BY <1>0, <3>1 DEF ClaimOf
  <2> HIDE DEF claim, b
  <2>6. /\ recorded' \in Histories /\ DOMAIN recorded' = DOMAIN recorded \cup claim
        /\ \A w \in DOMAIN recorded : recorded'[w] = recorded[w]
    BY <1>0, <1>4, <2>4, RecordedForm DEF MigrateForm
  <2>7. MigrateForm'
    BY <1>0, <1>2, <2>6 DEF MigrateForm
  <2>8. Grows
    BY <1>0, <2>6 DEF Grows, MigrateForm
  <2>9. TruthInv'
    BY <1>0, <2>3, <2>5, <2>6 DEF TruthInv, NoneRunsTwice, LedgerTellsTheTruth, First
  <2>10. Adopted'
    <3>1. CASE Adopted
      BY <1>0, <2>6, <3>1 DEF Adopted
    <3>2. CASE Unadopted
      BY <1>0, <2>6, <3>2 DEF Adopted, Unadopted, WaitOf, claim, b
    <3> QED BY <3>1, <3>2 DEF MigrateInv
  <2>11. ReadOf(p)'
    BY <1>0, <1>1, <1>2, <2>6 DEF ReadOf, Asking, Adopts, Busied
  <2>12. ClaimOf(p)' /\ KnowOf(p)'
    BY <1>0, <1>1, <1>2 DEF ClaimOf, KnowOf, Adopts, Busied, First
  <2> QED BY <1>2, <2>7, <2>8, <2>9, <2>10, <2>11, <2>12, OneMoves
<1> QED BY <1>3, <1>4 DEF DecideAdopt

LEMMA MigrateInitially == MigrateInit => MigrateInv
<1> SUFFICES ASSUME MigrateInit PROVE MigrateInv
  OBVIOUS
<1>1. PICK reached \in Legacy : tables = [v \in Versions |-> IF v <= reached THEN 1 ELSE 0]
  BY DEF MigrateInit
<1>2. recorded = <<>> /\ hasLedger = FALSE /\ started = 0 /\ proc = [p \in Operators |-> Idle]
      /\ DOMAIN <<>> = {} /\ DOMAIN recorded = {}
  BY DEF MigrateInit
<1>3. tables \in [Versions -> Nat] /\ \A v \in Versions : tables[v] <= 1
  BY <1>1
<1>4. MigrateForm
  <2>1. started \in 0..MaxCommands
    BY <1>2, MigrateAssumption
  <2>2. proc \in [Operators -> Active \cup {Idle}]
    BY <1>2
  <2>3. recorded \in Histories
    BY <1>2, HistoryForm
  <2> QED BY <1>2, <1>3, <2>1, <2>2, <2>3 DEF MigrateForm
<1>5. ~EmptyDatabase => tables[First] > 0
  <2> SUFFICES ASSUME ~EmptyDatabase PROVE tables[First] > 0
    OBVIOUS
  <2>1. PICK v \in Versions : tables[v] # 0
    BY DEF EmptyDatabase
  <2>2. PICK b \in Builds : v \in DOMAIN Disk[b]
    BY DEF Versions
  <2>3. First \in Versions /\ First <= v /\ First \in Nat /\ v \in Nat
    BY <2>1, <2>2, BuildsShareFirst
  <2> HIDE DEF First
  <2>4. v <= reached /\ reached \in Nat
    BY <1>1, <2>1, MigrateAssumption
  <2>5. First <= reached
    BY <2>3, <2>4
  <2> QED BY <1>1, <2>3, <2>5
<1>6. TruthInv
  BY <1>2, <1>3, <1>5 DEF TruthInv, NoneRunsTwice, LedgerTellsTheTruth
<1>7. \A p \in Operators : proc[p] = Idle /\ ~Busied(p)
  BY <1>2 DEF Busied, Idle
<1>8. \A p \in Operators : ReadOf(p) /\ ClaimOf(p) /\ KnowOf(p) /\ WaitOf(p)
  BY <1>7 DEF ReadOf, ClaimOf, KnowOf, WaitOf, Adopts, Idle
<1>9. CASE EmptyDatabase
  BY <1>4, <1>6, <1>8, <1>9 DEF MigrateInv, Adopted, EmptyDatabase
<1>10. CASE ~EmptyDatabase
  BY <1>2, <1>4, <1>6, <1>8, <1>10 DEF MigrateInv, Unadopted
<1> QED BY <1>9, <1>10

THEOREM MigrateInvariant == MigrateSpec => []MigrateInv
<1>1. ASSUME MigrateInv, NEW p \in Operators, MigrateStep(p) PROVE MigrateInv'
  BY <1>1, StartStep, CreateStep, ProbeStep, CountStep, ReadStep, VerifyStep, DecideUpStep,
     FinishStep, ApplyStep, AdoptStep, DieStep DEF MigrateStep
<1>2. MigrateInv /\ [MigrateNext]_migrateVars => MigrateInv'
  <2>1. CASE UNCHANGED migrateVars
    BY <2>1 DEF migrateVars, MigrateInv, MigrateForm, TruthInv, NoneRunsTwice, LedgerTellsTheTruth,
       EmptyDatabase, Adopted, Unadopted, WaitOf, ReadOf, ClaimOf, KnowOf, Busied, Adopts, Asking,
       Mismatched
  <2> QED BY <1>1, <2>1 DEF MigrateNext
<1> QED BY MigrateInitially, <1>2, PTL DEF MigrateSpec

(* Whatever processes of whatever builds run `up', `adopt' or boot, in any *)
(* number and order and dying anywhere: no migration takes effect twice, a *)
(* row means the objects are there, and who has finished or serves relies  *)
(* on its own files (ledger.go Up, Adopt, Verify, applyOne).               *)
THEOREM MigrationsAreSound == MigrateSpec => []MigrationsSound
<1>1. MigrateInv => MigrationsSound
  <2> SUFFICES ASSUME MigrateInv PROVE MigrationsSound
    OBVIOUS
  <2>1. MigrateTypeOK
    <3>1. \A p \in Operators : proc[p].stage \in
          {"idle", "create", "probe", "count", "read", "decide", "apply", "done", "serving", "failed"}
      BY DEF MigrateInv, MigrateForm, Active, Idle
    <3> QED BY <3>1, HistoryForm DEF MigrateInv, MigrateForm, MigrateTypeOK, TruthInv
  <2>2. KnowTheirDatabase
    BY DEF MigrateInv, KnowOf, KnowTheirDatabase
  <2> QED BY <2>1, <2>2 DEF MigrateInv, TruthInv, MigrationsSound
<1> QED BY <1>1, MigrateInvariant, PTL

-----------------------------------------------------------------------------
(* The sample consumer.                                                    *)
Steps == {Rest, [stage |-> "drop"], [stage |-> "etag"]}
          \cup [stage : {"ask"}, etag : Bodies \cup {None}]
          \cup [stage : {"store"}, answer : {"304", "body"}, etag : Bodies \cup {Takedown}]

MirrorForm ==
  /\ history \in Seq(Bodies \cup {Takedown}) /\ Len(history) <= MaxChanges
  /\ unacked \subseteq DOMAIN history
  /\ order \in Seq(DOMAIN history) /\ Len(order) <= LogLimit
  /\ acts \in [Changes -> Steps] /\ copy \in Bodies \cup {None}
  /\ acted \in [Changes -> Nat] /\ evicted \subseteq DOMAIN history
  /\ mixed \in BOOLEAN /\ failures \in 0 .. MaxFailures

(* An act was begun for a change that happened, and its id is in the log   *)
(* until it is forgotten.                                                  *)
OnceInv ==
  \A d \in Changes :
    /\ acted[d] > 0 => d \in DOMAIN history /\ (Remembered(d) \/ d \in evicted)
    /\ d \notin evicted => acted[d] <= 1
    /\ d \in Busy => acted[d] > 0
    /\ acts[d].stage = "drop" => IsTakedown(d)

(* Acts that did not overlap came one after the other.                     *)
SerialInv ==
  ~mixed => \A d \in Busy : /\ \A e \in Busy : e = d
                            /\ \A e \in Changes : e > d => acted[e] = 0

(* The act on the last change reads what the edge serves.                  *)
Wanted == IF Served = Takedown THEN None ELSE Served
LastInv ==
  LET n == Len(history) IN
  ~mixed /\ failures = 0 /\ evicted = {} =>
    IF n = 0 THEN copy = None
    ELSE /\ acts[n].stage = "ask" => acts[n].etag = copy
         /\ acts[n].stage = "store" => /\ acts[n].etag = Served
                                       /\ acts[n].answer = "304" => copy = Served
         /\ acted[n] > 0 /\ Busy = {} => copy = Wanted

MirrorInv == MirrorForm /\ OnceInv /\ SerialInv /\ LastInv

LEMMA StepForm ==
  /\ \A s \in Steps : /\ s.stage = "ask" => s.etag \in Bodies \cup {None}
                      /\ s.stage = "store" => s.answer \in {"304", "body"} /\ s.etag \in Bodies \cup {Takedown}
  /\ Rest \in Steps /\ [stage |-> "drop"] \in Steps /\ [stage |-> "etag"] \in Steps
  /\ \A e \in Bodies \cup {None} : [stage |-> "ask", etag |-> e] \in Steps
  /\ \A e \in Bodies \cup {Takedown}, a \in {"304", "body"} :
        [stage |-> "store", answer |-> a, etag |-> e] \in Steps
BY DEF Steps, Rest

LEMMA HistoryFacts ==
  ASSUME MirrorForm
  PROVE  /\ Len(history) \in Nat /\ DOMAIN history = 1..Len(history) /\ DOMAIN history \subseteq Changes
         /\ (Len(history) = 0 <=> history = <<>>) /\ Len(history) # 0 => Len(history) \in DOMAIN history
         /\ Served \in Bodies \cup {Takedown} /\ Wanted \in Bodies \cup {None}
         /\ Len(history) = 0 => Served = Takedown
         /\ Len(history) # 0 => Served = history[Len(history)]
<1>1. Len(history) \in Nat /\ DOMAIN history = 1..Len(history)
  BY DEF MirrorForm
<1>2. Len(history) = 0 <=> history = <<>>
  BY DEF MirrorForm
<1>3. DOMAIN history \subseteq Changes
  BY <1>1, MirrorAssumption DEF MirrorForm, Changes
<1>4. Len(history) # 0 => Len(history) \in DOMAIN history
  BY <1>1
<1>5. Served \in Bodies \cup {Takedown}
  BY <1>2, <1>4 DEF Served, MirrorForm
<1> QED BY <1>1, <1>2, <1>3, <1>4, <1>5 DEF Wanted, Served

(* The log remembers the new id and all but the oldest of the others.      *)
LEMMA RememberForm ==
  ASSUME MirrorForm, NEW d \in DOMAIN history
  PROVE  /\ Remember(d) \in Seq(DOMAIN history) /\ Len(Remember(d)) <= LogLimit
         /\ \E i \in DOMAIN Remember(d) : Remember(d)[i] = d
         /\ \A c \in Changes : Remembered(c) =>
              \/ \E i \in DOMAIN Remember(d) : Remember(d)[i] = c
              \/ Len(order) = LogLimit /\ c = order[1]
         /\ Len(order) = LogLimit => order[1] \in DOMAIN history
<1> DEFINE longer == Append(order, d)
           new == Remember(d)
<1>1. order \in Seq(DOMAIN history) /\ Len(order) \in Nat /\ Len(order) <= LogLimit
      /\ LogLimit \in Nat \ {0} /\ DOMAIN order = 1..Len(order)
  BY MirrorAssumption DEF MirrorForm
<1>2. /\ longer \in Seq(DOMAIN history) /\ Len(longer) = Len(order) + 1
      /\ longer[Len(order) + 1] = d /\ \A i \in DOMAIN order : longer[i] = order[i]
  BY <1>1
<1> HIDE DEF longer
<1>3. CASE Len(order) = LogLimit
  <2>1. new = Tail(longer)
    BY <1>1, <1>2, <1>3 DEF Remember, longer
  <2> HIDE DEF new
  <2>2. /\ new \in Seq(DOMAIN history) /\ Len(new) = Len(order) /\ DOMAIN new = 1..Len(order)
        /\ \A i \in 1..Len(order) : new[i] = longer[i + 1]
    BY <1>1, <1>2, <1>3, <2>1
  <2>3. new[Len(order)] = d
    BY <1>1, <1>2, <1>3, <2>2
  <2>4. ASSUME NEW c \in Changes, NEW i \in DOMAIN order, order[i] = c, i # 1
        PROVE  \E j \in DOMAIN new : new[j] = c
    <3>1. i - 1 \in 1..Len(order) /\ new[i - 1] = c
      BY <1>1, <1>2, <2>2, <2>4
    <3> QED BY <2>2, <3>1
  <2> QED BY <1>1, <1>3, <2>2, <2>3, <2>4 DEF new, Remembered
<1>4. CASE Len(order) # LogLimit
  <2>0. Len(order) < LogLimit
    <3>1. \A a, b \in Nat : a <= b /\ a # b => a < b
      OBVIOUS
    <3>2. Len(order) \in Nat /\ LogLimit \in Nat /\ Len(order) <= LogLimit
      BY <1>1
    <3> QED BY <1>4, <3>1, <3>2, Zenon
  <2>10. ~(Len(longer) > LogLimit)
    BY <1>1, <1>2, <2>0
  <2>1. new = longer
    BY <2>10 DEF Remember, longer
  <2> HIDE DEF new
  <2>2. DOMAIN new = 1..(Len(order) + 1)
    BY <1>1, <1>2, <2>1
  <2>3. Len(new) <= LogLimit
    BY <1>1, <1>2, <2>0, <2>1
  <2>4. new[Len(order) + 1] = d /\ Len(order) + 1 \in DOMAIN new
        /\ \A i \in DOMAIN order : i \in DOMAIN new /\ new[i] = order[i]
    BY <1>1, <1>2, <2>1, <2>2
  <2> QED BY <1>1, <1>2, <1>4, <2>1, <2>3, <2>4 DEF new, Remembered
<1> QED BY <1>3, <1>4

LEMMA ChangeStep ==
  ASSUME MirrorInv, Change PROVE MirrorInv'
<1> USE DEF MirrorInv
<1>1. PICK etag \in Bodies \cup {Takedown} : history' = Append(history, etag)
  BY DEF Change
<1>2. /\ history' \in Seq(Bodies \cup {Takedown}) /\ Len(history') = Len(history) + 1
      /\ DOMAIN history' = DOMAIN history \cup {Len(history) + 1}
      /\ history'[Len(history) + 1] = etag /\ \A d \in DOMAIN history : history'[d] = history[d]
      /\ Len(history) + 1 \in Changes /\ Len(history) + 1 \notin DOMAIN history /\ Len(history') <= MaxChanges
  <2>1. Len(history) < MaxChanges /\ MaxChanges \in Nat
    BY MirrorAssumption DEF Change
  <2> QED BY SMTT(30), <1>1, <2>1, HistoryFacts DEF MirrorForm, Changes
<1>3. UNCHANGED <<order, acts, copy, acted, evicted, mixed, failures>> /\ unacked' = unacked \cup {Len(history) + 1}
  BY DEF Change
<1>4. MirrorForm'
  <2>1. order \in Seq(DOMAIN history')
    BY <1>2 DEF MirrorForm
  <2> QED BY <1>2, <1>3, <2>1 DEF MirrorForm
<1>5. OnceInv'
  <2> SUFFICES ASSUME NEW d \in Changes
               PROVE  /\ acted[d] > 0 => d \in DOMAIN history' /\ (Remembered(d)' \/ d \in evicted)
                      /\ d \notin evicted => acted[d] <= 1
                      /\ d \in Busy' => acted[d] > 0
                      /\ acts[d].stage = "drop" => IsTakedown(d)'
    BY <1>3 DEF OnceInv
  <2>1. Remembered(d)' = Remembered(d) /\ Busy' = Busy
    BY <1>3 DEF Remembered, Busy
  <2>2. acts[d].stage = "drop" => d \in DOMAIN history
    BY DEF OnceInv, Busy
  <2> QED BY <1>2, <1>3, <2>1, <2>2 DEF OnceInv, IsTakedown
<1>6. SerialInv'
  BY <1>3 DEF SerialInv, Busy
<1>7. LastInv'
  <2> DEFINE n == Len(history) + 1
  <2>1. acted[n] = 0 /\ acts[n].stage = "rest" /\ n # 0
    <3>1. acted[n] \in Nat /\ n # 0
      BY <1>2, HistoryFacts DEF MirrorForm
    <3> QED BY <1>2, <3>1 DEF OnceInv, Busy
  <2> QED BY <1>2, <1>3, <2>1 DEF LastInv
<1> QED BY <1>4, <1>5, <1>6, <1>7

LEMMA ReceiveStep ==
  ASSUME MirrorInv, NEW d \in DOMAIN history, d \in Changes, Receive(d) PROVE MirrorInv'
<1> USE DEF MirrorInv
<1>1. unacked' \subseteq DOMAIN history /\ UNCHANGED <<history, copy, failures>>
  BY DEF Receive, MirrorForm
<1>2. CASE UNCHANGED <<order, acts, acted, evicted, mixed>>
  <2>1. MirrorForm'
    BY <1>1, <1>2 DEF MirrorForm
  <2>2. OnceInv' /\ SerialInv' /\ LastInv'
    BY <1>1, <1>2 DEF OnceInv, SerialInv, LastInv, Busy, Remembered, IsTakedown, Served, Wanted
  <2> QED BY <2>1, <2>2
<1> DEFINE s == [stage |-> IF IsTakedown(d) THEN "drop" ELSE "etag"]
           lost == IF Len(order) = LogLimit THEN evicted \cup {order[1]} ELSE evicted
           mixes == mixed \/ Busy # {} \/ \E later \in Changes : later > d /\ acted[later] > 0
<1>3. CASE /\ ~Remembered(d) /\ acts[d] = Rest /\ order' = Remember(d) /\ evicted' = lost
           /\ acts' = [acts EXCEPT ![d] = s] /\ acted' = [acted EXCEPT ![d] = @ + 1] /\ mixed' = mixes
  <2>1. s \in Steps /\ s.stage \in {"drop", "etag"} /\ (s.stage = "drop" => IsTakedown(d))
    BY StepForm
  <2> HIDE DEF s
  <2>2. acts' \in [Changes -> Steps] /\ acts'[d] = s /\ \A c \in Changes \ {d} : acts'[c] = acts[c]
    BY <1>3, <2>1 DEF MirrorForm
  <2>3. acted' \in [Changes -> Nat] /\ acted'[d] = acted[d] + 1 /\ acted[d] \in Nat
        /\ \A c \in Changes \ {d} : acted'[c] = acted[c]
    BY <1>3 DEF MirrorForm
  <2>4. /\ order' \in Seq(DOMAIN history) /\ Len(order') <= LogLimit /\ Remembered(d)'
        /\ \A c \in Changes : Remembered(c) => Remembered(c)' \/ c \in evicted'
        /\ evicted \subseteq evicted' /\ evicted' \subseteq DOMAIN history
    BY <1>1, <1>3, RememberForm DEF Remembered, MirrorForm
  <2>5. mixed' \in BOOLEAN
    BY <1>3 DEF MirrorForm
  <2>6. MirrorForm'
    BY <1>1, <2>2, <2>3, <2>4, <2>5 DEF MirrorForm
  <2>7. OnceInv'
    <3> SUFFICES ASSUME NEW c \in Changes
                 PROVE  /\ acted'[c] > 0 => c \in DOMAIN history' /\ (Remembered(c)' \/ c \in evicted')
                        /\ c \notin evicted' => acted'[c] <= 1
                        /\ c \in Busy' => acted'[c] > 0
                        /\ acts'[c].stage = "drop" => IsTakedown(c)'
      BY DEF OnceInv
    <3>1. CASE c = d
      <4>1. d \notin evicted => acted[d] = 0
        BY <1>3, <2>3 DEF OnceInv
      <4> QED BY <1>1, <2>1, <2>2, <2>3, <2>4, <3>1, <4>1 DEF IsTakedown
    <3>2. CASE c # d
      <4>1. c \in Busy' <=> c \in Busy
        BY <2>2, <3>2 DEF Busy
      <4> QED BY <1>1, <2>2, <2>3, <2>4, <3>2, <4>1 DEF OnceInv, IsTakedown
    <3> QED BY <3>1, <3>2
  <2>8. ASSUME ~mixed' PROVE Busy' = {d} /\ \A e \in Changes : e > d => acted'[e] = 0
    <3>1. Busy = {} /\ \A e \in Changes : e > d => acted[e] = 0
      <4>1. ~mixes
        BY <1>3, <2>8
      <4>2. \A e \in Changes : acted[e] \in Nat
        BY DEF MirrorForm
      <4> QED BY <4>1, <4>2
    <3>2. Busy' = {d}
      BY <2>1, <2>2, <3>1 DEF Busy
    <3> QED BY <2>3, <3>1, <3>2 DEF Changes
  <2>9. SerialInv'
    BY <2>8 DEF SerialInv
  <2>10. LastInv'
    <3>1. d \in Busy' /\ Len(history') # 0 /\ Len(history) \in Changes
      <4>1. s.stage # "rest"
        BY <2>1
      <4> QED BY <1>1, <2>2, <4>1, HistoryFacts DEF Busy
    <3> DEFINE n == Len(history)
    <3>2. acts'[n].stage = "ask" \/ acts'[n].stage = "store" => n # d /\ acts'[n] = acts[n]
      BY <2>1, <2>2, <3>1
    <3>3. ASSUME ~mixed', n # d PROVE acts'[n].stage = "rest"
      <4>1. n \notin Busy'
        BY <2>8, <3>3
      <4> QED BY <3>1, <4>1 DEF Busy
    <3> QED BY <1>1, <3>1, <3>2, <3>3 DEF LastInv
  <2> QED BY <2>6, <2>7, <2>9, <2>10
<1> QED BY <1>2, <1>3 DEF Receive

(* The steps of an act touch the copy and its own place only.              *)
LEMMA ActForm ==
  ASSUME MirrorInv, NEW d \in DOMAIN history, d \in Changes, NEW s \in Steps,
         acts[d].stage # "rest", acts' = [acts EXCEPT ![d] = s], s.stage # "drop",
         UNCHANGED <<history, unacked, order, acted, evicted, mixed>>,
         copy' \in Bodies \cup {None}, failures' \in 0 .. MaxFailures
  PROVE  /\ MirrorForm' /\ OnceInv' /\ SerialInv'
         /\ Served' = Served /\ Wanted' = Wanted
         /\ acts'[d] = s /\ \A c \in Changes \ {d} : acts'[c] = acts[c]
         /\ ~mixed => Busy = {d} /\ \A e \in Changes : e > d => acted[e] = 0
<1> USE DEF MirrorInv
<1>1. acts' \in [Changes -> Steps] /\ acts'[d] = s /\ \A c \in Changes \ {d} : acts'[c] = acts[c]
  BY DEF MirrorForm
<1>2. MirrorForm'
  BY <1>1 DEF MirrorForm
<1>3. Busy' \subseteq Busy /\ d \in Busy
  BY <1>1 DEF Busy
<1>4. OnceInv'
  BY <1>1, <1>3 DEF OnceInv, Remembered, IsTakedown
<1>5. SerialInv'
  BY <1>3 DEF SerialInv
<1>6. Served' = Served /\ Wanted' = Wanted
  BY DEF Served, Wanted
<1>7. ~mixed => Busy = {d} /\ \A e \in Changes : e > d => acted[e] = 0
  BY <1>3 DEF SerialInv
<1> QED BY <1>1, <1>2, <1>4, <1>5, <1>6, <1>7

(* It is the act on the last change, or that change was not acted on.      *)
LEMMA LastOrNone ==
  ASSUME MirrorInv, NEW d \in DOMAIN history, d \in Changes, ~mixed, acts[d].stage # "rest"
  PROVE  LET n == Len(history) IN
           /\ n # 0 /\ n \in Changes
           /\ n # d => acted[n] = 0 /\ acts[n].stage = "rest"
<1> USE DEF MirrorInv
<1> DEFINE n == Len(history)
<1>1. n # 0 /\ n \in Changes /\ n \in Nat /\ d \in 1..n
  BY HistoryFacts
<1>2. d \in Busy
  BY DEF Busy
<1> HIDE DEF n
<1>3. ASSUME n # d PROVE acted[n] = 0 /\ acts[n].stage = "rest"
  <2>1. n > d
    BY <1>1, <1>3
  <2>2. acted[n] = 0
    BY <1>1, <1>2, <2>1 DEF SerialInv
  <2> QED BY <1>1, <2>2 DEF OnceInv, Busy
<1> QED BY <1>1, <1>3 DEF n

LEMMA DropStep ==
  ASSUME MirrorInv, NEW d \in DOMAIN history, d \in Changes, Drop(d) PROVE MirrorInv'
<1>1. Rest.stage = "rest" /\ acts' = [acts EXCEPT ![d] = Rest] /\ acts[d].stage = "drop"
      /\ UNCHANGED <<history, unacked, order, acted, evicted, mixed, failures>> /\ copy' = None
  BY DEF Drop, Finish, Rest
<1>2. failures \in 0..MaxFailures
  BY DEF MirrorInv, MirrorForm
<1>3. /\ MirrorForm' /\ OnceInv' /\ SerialInv'
      /\ Served' = Served /\ Wanted' = Wanted
      /\ acts'[d] = Rest /\ \A c \in Changes \ {d} : acts'[c] = acts[c]
  BY <1>1, <1>2, StepForm, ActForm
<1>4. LastInv'
  <2>1. CASE mixed
    BY <1>1, <2>1 DEF LastInv
  <2>2. CASE ~mixed
    <3> DEFINE n == Len(history)
    <3>1. n # 0 /\ n \in Changes /\ (n # d => acted[n] = 0 /\ acts[n].stage = "rest")
      BY <1>1, <2>2, LastOrNone
    <3>2. acts'[n].stage = "rest"
      BY <1>1, <1>3, <3>1
    <3>3. n = d => Wanted = None
      <4>1. n = d => history[n] = Takedown
        BY <1>1, <3>1 DEF MirrorInv, OnceInv, IsTakedown
      <4> QED BY <3>1, <4>1, HistoryFacts DEF MirrorInv, Wanted
    <3> QED BY <1>1, <1>3, <3>1, <3>2, <3>3 DEF LastInv
  <2> QED BY <2>1, <2>2
<1> QED BY <1>3, <1>4 DEF MirrorInv

LEMMA EtagStep ==
  ASSUME MirrorInv, NEW d \in DOMAIN history, d \in Changes, ReadEtag(d) PROVE MirrorInv'
<1> DEFINE s == [stage |-> "ask", etag |-> copy]
<1>1. s \in Steps /\ s.stage = "ask" /\ s.etag = copy
  BY StepForm DEF MirrorInv, MirrorForm
<1>2. acts' = [acts EXCEPT ![d] = s] /\ acts[d].stage = "etag"
      /\ UNCHANGED <<history, unacked, order, copy, acted, evicted, mixed, failures>>
  BY DEF ReadEtag
<1> HIDE DEF s
<1>3. failures \in 0..MaxFailures /\ copy \in Bodies \cup {None}
  BY DEF MirrorInv, MirrorForm
<1>4. /\ MirrorForm' /\ OnceInv' /\ SerialInv'
      /\ Served' = Served /\ Wanted' = Wanted
      /\ acts'[d] = s /\ \A c \in Changes \ {d} : acts'[c] = acts[c]
  BY <1>1, <1>2, <1>3, ActForm
<1>5. LastInv'
  <2>1. CASE mixed
    BY <1>2, <2>1 DEF LastInv
  <2>2. CASE ~mixed
    <3> DEFINE n == Len(history)
    <3>1. n # 0 /\ n \in Changes /\ (n # d => acted[n] = 0 /\ acts[n].stage = "rest")
      BY <1>2, <2>2, LastOrNone
    <3>2. d \in Busy'
      BY <1>1, <1>4 DEF Busy
    <3> QED BY <1>1, <1>2, <1>4, <3>1, <3>2 DEF LastInv
  <2> QED BY <2>1, <2>2
<1> QED BY <1>4, <1>5 DEF MirrorInv

LEMMA AskStep ==
  ASSUME MirrorInv, NEW d \in DOMAIN history, d \in Changes, AskEdge(d) PROVE MirrorInv'
<1>0. UNCHANGED <<history, unacked, order, copy, acted, evicted, mixed>> /\ acts[d].stage = "ask"
      /\ failures \in 0..MaxFailures /\ copy \in Bodies \cup {None} /\ acts[d] \in Steps
  BY DEF AskEdge, MirrorInv, MirrorForm
<1> DEFINE reply == IF Served = acts[d].etag THEN "304" ELSE "body"
           s == [stage |-> "store", answer |-> reply, etag |-> Served]
<1>1. CASE acts' = [acts EXCEPT ![d] = s] /\ UNCHANGED failures
  <2>1. s \in Steps /\ s.stage = "store" /\ s.etag = Served /\ (s.answer = "304" => Served = acts[d].etag)
    BY StepForm, HistoryFacts DEF MirrorInv
  <2> HIDE DEF s
  <2>2. /\ MirrorForm' /\ OnceInv' /\ SerialInv'
        /\ Served' = Served /\ Wanted' = Wanted
        /\ acts'[d] = s /\ \A c \in Changes \ {d} : acts'[c] = acts[c]
    BY <1>0, <1>1, <2>1, ActForm
  <2>3. LastInv'
    <3>1. CASE mixed
      BY <1>0, <3>1 DEF LastInv
    <3>2. CASE ~mixed
      <4> DEFINE n == Len(history)
      <4>1. n # 0 /\ n \in Changes /\ (n # d => acted[n] = 0 /\ acts[n].stage = "rest")
        BY <1>0, <3>2, LastOrNone
      <4>2. d \in Busy'
        BY <2>1, <2>2 DEF Busy
      <4>3. failures = 0 /\ evicted = {} /\ n = d => acts[d].etag = copy
        BY <1>0, <3>2, <4>1 DEF MirrorInv, LastInv
      <4> QED BY <1>0, <1>1, <2>1, <2>2, <4>1, <4>2, <4>3 DEF LastInv
    <3> QED BY <3>1, <3>2
  <2> QED BY <2>2, <2>3 DEF MirrorInv
<1>2. CASE failures < MaxFailures /\ failures' = failures + 1 /\ Finish(d)
  <2>1. Rest.stage = "rest" /\ acts' = [acts EXCEPT ![d] = Rest] /\ failures' \in 0..MaxFailures
        /\ failures' # 0
    BY <1>0, <1>2, MirrorAssumption DEF Finish, Rest
  <2>2. MirrorForm' /\ OnceInv' /\ SerialInv'
    BY <1>0, <2>1, StepForm, ActForm
  <2> QED BY <2>1, <2>2 DEF MirrorInv, LastInv
<1> QED BY <1>1, <1>2 DEF AskEdge

LEMMA StoreStep ==
  ASSUME MirrorInv, NEW d \in DOMAIN history, d \in Changes, Store(d) PROVE MirrorInv'
<1>1. Rest.stage = "rest" /\ acts' = [acts EXCEPT ![d] = Rest] /\ acts[d].stage = "store"
      /\ UNCHANGED <<history, unacked, order, acted, evicted, mixed, failures>> /\ copy' = AfterAnswer(d)
  BY DEF Store, Finish, Rest
<1>2. failures \in 0..MaxFailures /\ acts[d] \in Steps /\ copy \in Bodies \cup {None}
  BY DEF MirrorInv, MirrorForm
<1>3. copy' \in Bodies \cup {None}
  BY <1>1, <1>2, StepForm DEF AfterAnswer
<1>4. /\ MirrorForm' /\ OnceInv' /\ SerialInv'
      /\ Served' = Served /\ Wanted' = Wanted
      /\ acts'[d] = Rest /\ \A c \in Changes \ {d} : acts'[c] = acts[c]
  BY <1>1, <1>2, <1>3, StepForm, ActForm
<1>5. LastInv'
  <2>1. CASE mixed \/ failures # 0 \/ evicted # {}
    BY <1>1, <2>1 DEF LastInv
  <2>2. CASE ~mixed /\ failures = 0 /\ evicted = {}
    <3> DEFINE n == Len(history)
    <3>1. n # 0 /\ n \in Changes /\ (n # d => acted[n] = 0 /\ acts[n].stage = "rest")
      BY <1>1, <2>2, LastOrNone
    <3>2. acts'[n].stage = "rest"
      BY <1>1, <1>4, <3>1
    <3>3. n = d => copy' = Wanted
      <4> SUFFICES ASSUME n = d PROVE copy' = Wanted
        OBVIOUS
      <4>1. acts[d].etag = Served /\ (acts[d].answer = "304" => copy = Served)
        BY <1>1, <2>2, <3>1 DEF MirrorInv, LastInv
      <4>2. CASE acts[d].answer = "304"
        <5>1. copy' = Served /\ Served \in Bodies \cup {None}
          BY <1>1, <1>2, <4>1, <4>2 DEF AfterAnswer
        <5>2. Served # Takedown
          BY <5>1, MirrorAssumption DEF Takedown, None
        <5> QED BY <5>1, <5>2 DEF Wanted
      <4>3. CASE acts[d].answer # "304"
        BY <1>1, <4>1, <4>3 DEF AfterAnswer, Wanted
      <4> QED BY <4>2, <4>3
    <3> QED BY <1>1, <1>4, <3>1, <3>2, <3>3 DEF LastInv
  <2> QED BY <2>1, <2>2
<1> QED BY <1>4, <1>5 DEF MirrorInv

(* The consumer: MirrorInv is inductive.                                   *)
THEOREM MirrorInvariant == MirrorSpec => []MirrorInv
<1>1. MirrorInit => MirrorInv
  <2> SUFFICES ASSUME MirrorInit PROVE MirrorInv
    OBVIOUS
  <2> USE DEF MirrorInit
  <2>1. /\ history = <<>> /\ DOMAIN history = {} /\ Len(history) = 0 /\ history \in Seq(Bodies \cup {Takedown})
        /\ order \in Seq(DOMAIN history) /\ Len(order) = 0
    OBVIOUS
  <2>2. MirrorForm
    <3>1. Len(history) <= MaxChanges /\ Len(order) <= LogLimit /\ failures \in 0..MaxFailures
      BY <2>1, MirrorAssumption
    <3>2. acts \in [Changes -> Steps] /\ acted \in [Changes -> Nat]
      BY StepForm
    <3> QED BY <2>1, <3>1, <3>2 DEF MirrorForm
  <2>3. \A d \in Changes : acts[d].stage = "rest" /\ acted[d] = 0
    BY DEF Rest
  <2> QED BY <2>1, <2>2, <2>3 DEF MirrorInv, OnceInv, SerialInv, LastInv, Busy
<1>2. MirrorInv /\ [MirrorNext]_mirrorVars => MirrorInv'
  <2> SUFFICES ASSUME MirrorInv, [MirrorNext]_mirrorVars PROVE MirrorInv'
    OBVIOUS
  <2>1. CASE UNCHANGED mirrorVars
    BY <2>1 DEF mirrorVars, MirrorInv, MirrorForm, OnceInv, SerialInv, LastInv, Busy, Remembered,
       IsTakedown, Served, Wanted
  <2>2. CASE MirrorNext
    BY <2>2, ChangeStep, ReceiveStep, DropStep, EtagStep, AskStep, StoreStep DEF MirrorNext
  <2> QED BY <2>1, <2>2
<1> QED BY <1>1, <1>2, PTL DEF MirrorSpec

(* However deliveries repeat, arrive late and overlap, and however the     *)
(* entry changes between the steps of an act: the consumer acts on a       *)
(* delivery once while it remembers it, and having acted in order it holds *)
(* what the edge serves (receiver.go ServeHTTP, mirror.go refresh).        *)
THEOREM MirrorIsSound == MirrorSpec => []MirrorSound
<1>1. MirrorInv => MirrorSound
  <2> SUFFICES ASSUME MirrorInv PROVE MirrorSound
    OBVIOUS
  <2>1. MirrorTypeOK
    BY DEF MirrorTypeOK, MirrorInv, MirrorForm
  <2>2. ActsOnce
    BY DEF ActsOnce, MirrorInv, OnceInv
  <2>3. MirrorFollows
    <3> SUFFICES ASSUME Busy = {}, ~mixed, failures = 0, evicted = {}, \A d \in DOMAIN history : acted[d] > 0
                 PROVE  copy = Wanted
      BY DEF MirrorFollows, Wanted
    <3>1. CASE Len(history) = 0
      BY <3>1, HistoryFacts DEF MirrorInv, LastInv, Wanted
    <3>2. CASE Len(history) # 0
      BY <3>2, HistoryFacts DEF MirrorInv, LastInv
    <3> QED BY <3>1, <3>2
  <2> QED BY <2>1, <2>2, <2>3 DEF MirrorSound
<1> QED BY <1>1, MirrorInvariant, PTL

-----------------------------------------------------------------------------
(* The requests about one content type.                                    *)
Answers == EntryIds \cup {"none", "error"}

(* Only a create with a key asks for its record.                           *)
Creates == {r \in [op : {"create"}, payload : Payloads, key : IdemKeys \cup {NoKey},
                   answer : Answers, stage : {"find", "insert", "replay", "answered"}] :
             r.stage \in {"find", "replay"} => r.key \in IdemKeys}
Asks    == [op : {"publish", "retract", "review"}, entry : EntryIds, answer : Answers,
            stage : {"read", "answered"}]
Edits   == [op : {"update"}, entry : EntryIds, payload : Payloads, answer : Answers,
            stage : {"read", "answered"}]
Reviews == [stage : {"prior", "decide", "answered"}, op : {"review"}, entry : EntryIds,
            answer : Answers, version : Nat, saw : Payloads]
Writes  == [stage : {"write", "answered"}, op : {"update", "publish", "retract"},
            entry : EntryIds, payload : Payloads, answer : Answers, version : Nat \ {0}]
Clears  == [stage : {"clear", "answered"}, op : {"update"}, entry : EntryIds,
            payload : Payloads, answer : Answers, version : Nat, table : Links]
Linkers == [stage : {"link", "answered"}, op : {"update"}, entry : EntryIds,
            payload : Payloads, answer : Answers, version : Nat, table : Links,
            cleared : SUBSET (Payloads \X Nat)]

Under == Creates \cup Asks \cup Edits \cup Reviews \cup Writes \cup Clears \cup Linkers

Rows == [version : Nat \ {0}, payload : Payloads, published : BOOLEAN,
         snapshot : Payloads \cup {"none"}, key : IdemKeys \cup {NoKey}]
Records == [fingerprint : Payloads, entry : EntryIds]
LinkTables == [EntryIds -> [Links -> SUBSET (Payloads \X Nat)]]
Decisions == [version : Nat, saw : Payloads]

RequestsForm ==
  /\ row \in [EntryIds -> {NoRow} \cup Rows]
  /\ links \in LinkTables /\ shown \in LinkTables
  /\ record \in [IdemKeys -> {NoRecord} \cup Records]
  /\ decisions \in [EntryIds -> Seq(Decisions)]
  /\ client \in [Clients -> {Resting} \cup Under]
  /\ requests \in 0 .. MaxRequests /\ mishaps \in 0 .. MaxMishaps
  /\ disturbed \subseteq EntryIds
  /\ born \in [EntryIds -> Payloads \cup {"none"}]

(* What is not there has left nothing behind.                              *)
GoneInv ==
  \A e \in EntryIds :
    /\ ~Exists(e) => links[e] = Empty /\ shown[e] = Empty /\ decisions[e] = << >>
    /\ born[e] = "none" => ~Exists(e)

(* The records and the keys of the rows are each other's inverse.          *)
KeyInv ==
  /\ \A k \in IdemKeys : record[k] # NoRecord =>
       /\ Exists(record[k].entry) /\ row[record[k].entry].key = k
       /\ born[record[k].entry] = record[k].fingerprint
  /\ \A e \in EntryIds : Exists(e) /\ row[e].key # NoKey =>
       record[row[e].key] # NoRecord /\ record[row[e].key].entry = e

(* Whoever noted a version noted the payload that goes with it.            *)
Noted(e, v, p) ==
  born[e] # "none" /\ (Exists(e) => v <= row[e].version /\ (v = row[e].version => p = row[e].payload))

SeenInv ==
  /\ \A c \in Clients : client[c].stage \in {"prior", "decide"} =>
       Noted(client[c].entry, client[c].version, client[c].saw)
  /\ \A e \in EntryIds : \A i \in 1 .. Len(decisions[e]) :
       Noted(e, decisions[e][i].version, decisions[e][i].saw)

RequestsInv == RequestsForm /\ GoneInv /\ KeyInv /\ SeenInv /\ AnswersTellTheTruth

-----------------------------------------------------------------------------
LEMMA Acting ==
  ASSUME RequestsForm, NEW c \in Clients
  PROVE  /\ client[c].stage \in {"find", "insert", "replay"} => client[c] \in Creates
         /\ client[c].stage = "read" => client[c] \in Asks \cup Edits
         /\ client[c].stage \in {"prior", "decide"} => client[c] \in Reviews
         /\ client[c].stage = "write" => client[c] \in Writes
         /\ client[c].stage = "clear" => client[c] \in Clears
         /\ client[c].stage = "link" => client[c] \in Linkers
<1>1. client[c] \in {Resting} \cup Under
  BY DEF RequestsForm
<1> QED BY <1>1 DEF Under, Resting, Creates, Asks, Edits, Reviews, Writes, Clears, Linkers

(* An answered request keeps what it was about.                            *)
LEMMA Answered ==
  ASSUME RequestsForm, NEW c \in Clients, client[c].stage \notin {"idle", "answered"},
         NEW a \in Answers, Answer(c, a)
  PROVE  \E r \in Under : /\ client' = [client EXCEPT ![c] = r]
                          /\ r.stage = "answered" /\ r.answer = a
                          /\ r.op = client[c].op
                          /\ client[c] \in Creates => r \in Creates /\ r.payload = client[c].payload
                          /\ client[c] \notin Creates => r.op # "create"
<1> DEFINE r == [client[c] EXCEPT !.stage = "answered", !.answer = a]
<1>1. client' = [client EXCEPT ![c] = r]
  BY DEF Answer, RequestsForm
<1>2. client[c] \in Under
  BY DEF RequestsForm, Resting
<1>3. CASE client[c] \in Creates
  <2>1. r \in Creates /\ r.stage = "answered" /\ r.answer = a /\ r.op = client[c].op
          /\ r.payload = client[c].payload
    BY <1>3 DEF Creates
  <2> QED BY <1>1, <1>3, <2>1 DEF Under
<1>4. CASE client[c] \in Asks
  <2>1. r \in Asks /\ r.stage = "answered" /\ r.answer = a /\ r.op = client[c].op
          /\ r.op # "create" /\ client[c].op # "create"
    BY <1>4 DEF Asks
  <2>2. client[c] \notin Creates
    BY <2>1 DEF Creates
  <2> QED BY <1>1, <2>1, <2>2 DEF Under
<1>5. CASE client[c] \in Edits
  <2>1. r \in Edits /\ r.stage = "answered" /\ r.answer = a /\ r.op = client[c].op
          /\ r.op # "create" /\ client[c].op # "create"
    BY <1>5 DEF Edits
  <2>2. client[c] \notin Creates
    BY <2>1 DEF Creates
  <2> QED BY <1>1, <2>1, <2>2 DEF Under
<1>6. CASE client[c] \in Reviews
  <2>1. r \in Reviews /\ r.stage = "answered" /\ r.answer = a /\ r.op = client[c].op
          /\ r.op # "create" /\ client[c].op # "create"
    BY <1>6 DEF Reviews
  <2>2. client[c] \notin Creates
    BY <2>1 DEF Creates
  <2> QED BY <1>1, <2>1, <2>2 DEF Under
<1>7. CASE client[c] \in Writes
  <2>1. r \in Writes /\ r.stage = "answered" /\ r.answer = a /\ r.op = client[c].op
          /\ r.op # "create" /\ client[c].op # "create"
    BY <1>7 DEF Writes
  <2>2. client[c] \notin Creates
    BY <2>1 DEF Creates
  <2> QED BY <1>1, <2>1, <2>2 DEF Under
<1>8. CASE client[c] \in Clears
  <2>1. r \in Clears /\ r.stage = "answered" /\ r.answer = a /\ r.op = client[c].op
          /\ r.op # "create" /\ client[c].op # "create"
    BY <1>8 DEF Clears
  <2>2. client[c] \notin Creates
    BY <2>1 DEF Creates
  <2> QED BY <1>1, <2>1, <2>2 DEF Under
<1>9. CASE client[c] \in Linkers
  <2>1. r \in Linkers /\ r.stage = "answered" /\ r.answer = a /\ r.op = client[c].op
          /\ r.op # "create" /\ client[c].op # "create"
    BY <1>9 DEF Linkers
  <2>2. client[c] \notin Creates
    BY <2>1 DEF Creates
  <2> QED BY <1>1, <2>1, <2>2 DEF Under
<1> QED BY <1>2, <1>3, <1>4, <1>5, <1>6, <1>7, <1>8, <1>9 DEF Under

(* A step of one client that leaves the tables alone.                      *)
LEMMA ClientMoves ==
  ASSUME RequestsInv, NEW c \in Clients, NEW r \in Under,
         client' = [client EXCEPT ![c] = r],
         UNCHANGED <<row, links, shown, record, decisions, born>>,
         requests' \in 0 .. MaxRequests, mishaps' \in 0 .. MaxMishaps, disturbed' \subseteq EntryIds,
         r.stage \in {"prior", "decide"} => Noted(r.entry, r.version, r.saw),
         r.stage = "answered" /\ r.op = "create" /\ r.answer # "error" => born[r.answer] = r.payload
  PROVE  RequestsInv'
<1>1. RequestsForm'
  BY DEF RequestsInv, RequestsForm
<1>2. GoneInv' /\ KeyInv'
  BY DEF RequestsInv, GoneInv, KeyInv, Exists
<1>3. SeenInv'
  <2>1. ASSUME NEW d \in Clients, client'[d].stage \in {"prior", "decide"}
        PROVE  Noted(client'[d].entry, client'[d].version, client'[d].saw)
    BY <2>1 DEF RequestsInv, RequestsForm, SeenInv
  <2> QED BY <2>1 DEF RequestsInv, SeenInv, Noted, Exists
<1>4. AnswersTellTheTruth'
  BY DEF RequestsInv, RequestsForm, AnswersTellTheTruth
<1> QED BY <1>1, <1>2, <1>3, <1>4 DEF RequestsInv

(* A refusal is one.                                                       *)
LEMMA Refused ==
  ASSUME RequestsInv, NEW c \in Clients, client[c].stage \notin {"idle", "answered"}, Refuse(c),
         UNCHANGED <<row, links, shown, record, decisions, born>>,
         requests' \in 0 .. MaxRequests, mishaps' \in 0 .. MaxMishaps, disturbed' \subseteq EntryIds
  PROVE  RequestsInv'
<1>1. PICK r \in Under : client' = [client EXCEPT ![c] = r] /\ r.stage = "answered" /\ r.answer = "error"
  BY Answered DEF Refuse, Answers, RequestsInv
<1> QED BY <1>1, ClientMoves

(* So is a replay, if the fingerprint is not the record's.                 *)
LEMMA Replayed ==
  ASSUME RequestsInv, NEW c \in Clients, client[c].stage \in {"find", "replay"},
         client[c].key \in IdemKeys, record[client[c].key] # NoRecord,
         Replay(c), UNCHANGED <<stored, requests, mishaps>>
  PROVE  RequestsInv'
<1> DEFINE k == client[c].key
<1>1. client[c] \in Creates /\ k \in IdemKeys /\ record[k] \in Records
  BY Acting DEF RequestsInv, RequestsForm
<1>2. requests' \in 0 .. MaxRequests /\ mishaps' \in 0 .. MaxMishaps /\ disturbed' \subseteq EntryIds
      /\ UNCHANGED <<row, links, shown, record, decisions, born>>
  BY DEF RequestsInv, RequestsForm, stored
<1>3. CASE SameRequest(c)
  <2>1. Answer(c, record[k].entry) /\ record[k].entry \in Answers
    BY <1>1, <1>3 DEF Replay, Answers, Records
  <2>2. PICK r \in Under : /\ client' = [client EXCEPT ![c] = r]
                           /\ r.stage = "answered" /\ r.answer = record[k].entry
                           /\ r.payload = client[c].payload
    BY <1>1, <2>1, Answered DEF RequestsInv
  <2>3. born[r.answer] = r.payload
    BY <1>1, <1>3, <2>2 DEF RequestsInv, KeyInv, SameRequest, Fingerprint
  <2> QED BY <1>2, <2>2, <2>3, ClientMoves
<1>4. CASE ~SameRequest(c)
  BY <1>2, <1>4, Refused DEF Replay
<1> QED BY <1>3, <1>4

-----------------------------------------------------------------------------
LEMMA AsksKept ==
  ASSUME RequestsInv, NEW c \in Clients, AskCreate(c) \/ AskChange(c) \/ AskUpdate(c)
  PROVE  RequestsInv'
<1>1. ASSUME NEW r \in Under, r.stage \in {"insert", "find", "read"}, Request(c, r) PROVE RequestsInv'
  <2>1. /\ client' = [client EXCEPT ![c] = r]
        /\ UNCHANGED <<row, links, shown, record, decisions, born>>
        /\ requests' \in 0 .. MaxRequests /\ mishaps' \in 0 .. MaxMishaps /\ disturbed' \subseteq EntryIds
    BY <1>1, RequestsAssumption DEF Request, stored, RequestsInv, RequestsForm
  <2> QED BY <1>1, <2>1, ClientMoves
<1>2. CASE AskCreate(c)
  <2>1. PICK p \in Payloads, k \in IdemKeys \cup {NoKey} :
          Request(c, [op |-> "create", payload |-> p, key |-> k, answer |-> "none",
                      stage |-> IF k = NoKey THEN "insert" ELSE "find"])
    BY <1>2 DEF AskCreate
  <2>2. [op |-> "create", payload |-> p, key |-> k, answer |-> "none",
         stage |-> IF k = NoKey THEN "insert" ELSE "find"] \in Creates
    BY DEF Creates, Answers
  <2> QED BY <1>1, <2>1, <2>2 DEF Under
<1>3. CASE AskChange(c)
  <2>1. PICK e \in EntryIds, op \in {"publish", "retract", "review"} :
          Request(c, [op |-> op, entry |-> e, answer |-> "none", stage |-> "read"])
    BY <1>3 DEF AskChange
  <2>2. [op |-> op, entry |-> e, answer |-> "none", stage |-> "read"] \in Asks
    BY DEF Asks, Answers
  <2> QED BY <1>1, <2>1, <2>2 DEF Under
<1>4. CASE AskUpdate(c)
  <2>1. PICK e \in EntryIds, p \in Payloads :
          Request(c, [op |-> "update", entry |-> e, payload |-> p, answer |-> "none", stage |-> "read"])
    BY <1>4 DEF AskUpdate
  <2>2. [op |-> "update", entry |-> e, payload |-> p, answer |-> "none", stage |-> "read"] \in Edits
    BY DEF Edits, Answers
  <2> QED BY <1>1, <2>1, <2>2 DEF Under
<1> QED BY <1>2, <1>3, <1>4

LEMMA FindKept ==
  ASSUME RequestsInv, NEW c \in Clients, FindRecord(c) \/ ReplayTaken(c)
  PROVE  RequestsInv'
<1>1. client[c] \in Creates /\ client[c].stage \in {"find", "replay"} /\ UNCHANGED <<stored, requests, mishaps>>
  BY Acting DEF FindRecord, ReplayTaken, RequestsInv
<1>2. requests' \in 0 .. MaxRequests /\ mishaps' \in 0 .. MaxMishaps /\ disturbed' \subseteq EntryIds
      /\ UNCHANGED <<row, links, shown, record, decisions, born>>
  BY <1>1 DEF RequestsInv, RequestsForm, stored
<1>3. CASE record[client[c].key] # NoRecord
  BY <1>1, <1>3, Replayed DEF FindRecord, ReplayTaken, Creates
<1>4. CASE record[client[c].key] = NoRecord /\ FindRecord(c)
  <2>1. client' = [client EXCEPT ![c] = [client[c] EXCEPT !.stage = "insert"]]
    BY <1>4 DEF FindRecord, Stage, RequestsInv, RequestsForm
  <2>2. [client[c] EXCEPT !.stage = "insert"] \in Creates
    BY <1>1 DEF Creates
  <2>3. [client[c] EXCEPT !.stage = "insert"].stage = "insert"
    BY <1>1 DEF Creates
  <2> QED BY <1>2, <2>1, <2>2, <2>3, ClientMoves DEF Under
<1>5. CASE record[client[c].key] = NoRecord /\ ReplayTaken(c)
  BY <1>1, <1>2, <1>5, Refused DEF ReplayTaken
<1> QED BY <1>3, <1>4, <1>5

LEMMA CreateKept ==
  ASSUME RequestsInv, NEW c \in Clients, CreateEntry(c)
  PROVE  RequestsInv'
<1>1. client[c] \in Creates /\ client[c].stage = "insert"
  BY Acting DEF CreateEntry, RequestsInv
<1>2. requests' \in 0 .. MaxRequests /\ mishaps' \in 0 .. MaxMishaps /\ disturbed \subseteq EntryIds
  BY DEF CreateEntry, RequestsInv, RequestsForm
<1>3. CASE KeyTaken(c)
  <2>1. client' = [client EXCEPT ![c] = [client[c] EXCEPT !.stage = "replay"]]
        /\ UNCHANGED <<row, links, shown, record, decisions, disturbed, born>>
    BY <1>3 DEF CreateEntry, Stage, RequestsInv, RequestsForm, stored
  <2>2. [client[c] EXCEPT !.stage = "replay"] \in Creates
        /\ [client[c] EXCEPT !.stage = "replay"].stage = "replay"
    BY <1>1, <1>3 DEF Creates, KeyTaken
  <2> QED BY <1>2, <2>1, <2>2, ClientMoves DEF Under
<1>4. CASE ~KeyTaken(c)
  <2> DEFINE p == client[c].payload
             k == client[c].key
             new == [version |-> 1, payload |-> p, published |-> FALSE, snapshot |-> "none", key |-> k]
  <2>1. PICK e \in EntryIds :
          /\ born[e] = "none"
          /\ row' = [row EXCEPT ![e] = new]
          /\ links' = [links EXCEPT ![e] = [l \in Links |-> {<<p, 1>>}]]
          /\ record' = IF k = NoKey THEN record
                       ELSE [record EXCEPT ![k] = [fingerprint |-> p, entry |-> e]]
          /\ born' = [born EXCEPT ![e] = p]
          /\ Answer(c, e)
          /\ UNCHANGED <<shown, decisions, disturbed>>
    BY <1>4 DEF CreateEntry, Fingerprint
  <2>2. PICK r \in Under : /\ client' = [client EXCEPT ![c] = r]
                           /\ r.stage = "answered" /\ r.answer = e /\ r.payload = p
    <3>1. e \in Answers
      BY DEF Answers
    <3> QED BY <1>1, <2>1, <3>1, Answered DEF RequestsInv
  <2>3. p \in Payloads /\ p # "none" /\ k \in IdemKeys \cup {NoKey} /\ new \in Rows
    BY <1>1, RequestsAssumption DEF Creates, Rows
  <2>4. ~Exists(e) /\ links[e] = Empty /\ shown[e] = Empty /\ decisions[e] = << >>
    BY <2>1 DEF RequestsInv, GoneInv
  <2>5. ASSUME NEW d \in EntryIds, d # e
        PROVE  /\ row'[d] = row[d] /\ links'[d] = links[d] /\ born'[d] = born[d]
               /\ Exists(d)' <=> Exists(d)
    BY <2>1, <2>5 DEF RequestsInv, RequestsForm, LinkTables, Exists
  <2>6. row'[e] = new /\ born'[e] = p /\ Exists(e)'
    BY <2>1 DEF RequestsInv, RequestsForm, Exists
  <2>7. RequestsForm'
    <3>1. [l \in Links |-> {<<p, 1>>}] \in [Links -> SUBSET (Payloads \X Nat)]
      BY <2>3
    <3>2. links' \in LinkTables /\ shown' \in LinkTables
      BY <2>1, <3>1 DEF RequestsInv, RequestsForm, LinkTables
    <3>3. record' \in [IdemKeys -> {NoRecord} \cup Records]
      BY <2>1, <2>3 DEF RequestsInv, RequestsForm, Records
    <3> QED BY <1>2, <2>1, <2>2, <2>3, <3>2, <3>3 DEF RequestsInv, RequestsForm
  <2>8. GoneInv'
    <3>1. ASSUME NEW d \in EntryIds
          PROVE  /\ ~Exists(d)' => links'[d] = Empty /\ shown'[d] = Empty /\ decisions'[d] = << >>
                 /\ born'[d] = "none" => ~Exists(d)'
      BY <2>1, <2>3, <2>5, <2>6 DEF RequestsInv, GoneInv
    <3> QED BY <3>1 DEF GoneInv
  <2>9. KeyInv'
    <3>1. ASSUME NEW j \in IdemKeys, record'[j] # NoRecord
          PROVE  /\ row'[record'[j].entry].version > 0 /\ row'[record'[j].entry].key = j
                 /\ born'[record'[j].entry] = record'[j].fingerprint
      <4>1. CASE j = k
        BY <2>1, <2>3, <2>6, <4>1, RequestsAssumption DEF RequestsInv, RequestsForm, Exists
      <4>2. CASE j # k
        <5>1. record'[j] = record[j] /\ record[j] \in Records
          BY <2>1, <3>1, <4>2 DEF RequestsInv, RequestsForm
        <5>2. Exists(record[j].entry) /\ record[j].entry # e /\ record[j].entry \in EntryIds
          BY <2>4, <3>1, <5>1 DEF RequestsInv, KeyInv, Records
        <5> QED BY <2>5, <3>1, <5>1, <5>2 DEF RequestsInv, KeyInv, Exists
      <4> QED BY <4>1, <4>2
    <3>2. ASSUME NEW d \in EntryIds, Exists(d)', row'[d].key # NoKey
          PROVE  record'[row'[d].key] # NoRecord /\ record'[row'[d].key].entry = d
      <4>1. CASE d = e
        <5>1. row'[d].key = k /\ k \in IdemKeys /\ k # NoKey
          BY <2>3, <2>6, <3>2, <4>1
        <5>2. record'[k] = [fingerprint |-> p, entry |-> e]
          BY <2>1, <5>1 DEF RequestsInv, RequestsForm
        <5> QED BY <4>1, <5>1, <5>2 DEF NoRecord
      <4>2. CASE d # e
        <5>1. Exists(d) /\ row[d].key # NoKey /\ row'[d].key = row[d].key
          BY <2>5, <3>2, <4>2
        <5>2. record[row[d].key] # NoRecord /\ record[row[d].key].entry = d
          BY <5>1 DEF RequestsInv, KeyInv
        <5>3. row[d].key \in IdemKeys
          BY <5>1 DEF RequestsInv, RequestsForm, Rows, NoRow, Exists
        <5>4. k # NoKey => record[k] = NoRecord
          BY <1>4 DEF KeyTaken
        <5> QED BY <2>1, <2>3, <5>1, <5>2, <5>3, <5>4 DEF RequestsInv, RequestsForm
      <4> QED BY <4>1, <4>2
    <3> QED BY <3>1, <3>2 DEF KeyInv, Exists
  <2>10. SeenInv'
    <3>1. ASSUME NEW d \in EntryIds, NEW v, NEW q, Noted(d, v, q) PROVE Noted(d, v, q)'
      <4>1. d # e
        BY <2>1, <3>1 DEF Noted
      <4> QED BY <2>5, <3>1, <4>1 DEF Noted
    <3>2. ASSUME NEW b \in Clients, client'[b].stage \in {"prior", "decide"}
          PROVE  Noted(client[b].entry, client[b].version, client[b].saw)'
      <4>1. client'[b] = client[b] /\ client[b] \in Reviews
        BY <2>2, <3>2, Acting DEF RequestsInv, RequestsForm
      <4>2. Noted(client[b].entry, client[b].version, client[b].saw) /\ client[b].entry \in EntryIds
        BY <3>2, <4>1 DEF RequestsInv, SeenInv, Reviews
      <4>3. PICK d \in EntryIds, v \in {client[b].version}, q \in {client[b].saw} : d = client[b].entry
        BY <4>2
      <4>4. Noted(d, v, q)'
        BY <3>1, <4>2, <4>3
      <4> QED BY <4>1, <4>3, <4>4 DEF Noted
    <3>3. ASSUME NEW d \in EntryIds, NEW i \in 1 .. Len(decisions'[d])
          PROVE  Noted(d, decisions[d][i].version, decisions[d][i].saw)'
      <4>1. Noted(d, decisions[d][i].version, decisions[d][i].saw)
        BY <2>1, <3>3 DEF RequestsInv, SeenInv
      <4> QED BY ZenonT(40), <2>1, <3>1, <4>1 DEF Noted
    <3> QED BY <3>2, <3>3 DEF SeenInv
  <2>11. AnswersTellTheTruth'
    <3>1. ASSUME NEW b \in Clients, client'[b].stage = "answered", client'[b].op = "create",
                 client'[b].answer # "error"
          PROVE  born'[client'[b].answer] = client'[b].payload
      <4>1. CASE b = c
        BY <2>2, <2>6, <4>1 DEF RequestsInv, RequestsForm
      <4>2. CASE b # c
        <5>1. client'[b] = client[b] /\ born[client[b].answer] = client[b].payload
          BY <2>2, <3>1, <4>2 DEF RequestsInv, RequestsForm, AnswersTellTheTruth
        <5>2. client[b].payload \in Payloads
          <6>1. client[b] \in Under /\ client[b].op = "create"
            BY <3>1, <5>1 DEF RequestsInv, RequestsForm, Resting
          <6> QED BY <6>1 DEF Under, Creates, Asks, Edits, Reviews, Writes, Clears, Linkers
        <5>3. client[b].answer # e
          BY <2>1, <5>1, <5>2, RequestsAssumption
        <5> QED BY <2>1, <5>1, <5>3 DEF RequestsInv, RequestsForm
      <4> QED BY <4>1, <4>2
    <3> QED BY <3>1 DEF AnswersTellTheTruth
  <2> QED BY <2>7, <2>8, <2>9, <2>10, <2>11 DEF RequestsInv
<1> QED BY <1>3, <1>4

-----------------------------------------------------------------------------
(* Noted, of the state after a step.                                       *)
NotedNext(e, v, p) ==
  /\ born'[e] # "none"
  /\ row'[e].version > 0 =>
       v <= row'[e].version /\ (v = row'[e].version => p = row'[e].payload)

LEMMA RowAfterUpdate ==
  ASSUME NEW n \in Rows, NEW p \in Payloads
  PROVE  LET x == [n EXCEPT !.version = @ + 1, !.payload = p]
         IN  x \in Rows /\ x.version = n.version + 1 /\ x.key = n.key
<1>1. n.version + 1 \in Nat \ {0}
  BY DEF Rows
<1> QED BY <1>1 DEF Rows

LEMMA RowAfterPublish ==
  ASSUME NEW n \in Rows, NEW b \in BOOLEAN
  PROVE  LET x == [n EXCEPT !.version = @ + 1, !.published = b,
                            !.snapshot = IF b THEN n.payload ELSE @]
         IN  x \in Rows /\ x.version = n.version + 1 /\ x.key = n.key
<1>1. n.version + 1 \in Nat \ {0} /\ (IF b THEN n.payload ELSE n.snapshot) \in Payloads \cup {"none"}
  BY DEF Rows
<1> QED BY <1>1 DEF Rows

(* A write of the row makes a version nobody has noted.                    *)
LEMMA RowMoves ==
  ASSUME RequestsInv, NEW c \in Clients, NEW r \in Under, NEW e \in EntryIds, NEW x \in Rows, Exists(e),
         x.version = row[e].version + 1, x.key = row[e].key,
         row' = [row EXCEPT ![e] = x],
         client' = [client EXCEPT ![c] = r], r.stage \notin {"prior", "decide"}, r.op # "create",
         shown' \in LinkTables, \A d \in EntryIds : d # e => shown'[d] = shown[d],
         UNCHANGED <<links, record, decisions, disturbed, born, requests, mishaps>>
  PROVE  RequestsInv'
<1>1. ASSUME NEW d \in EntryIds
      PROVE  /\ Exists(d)' <=> Exists(d)
             /\ row'[d].key = row[d].key
             /\ d # e => row'[d] = row[d]
             /\ d = e => row'[d].version = row[d].version + 1
  BY DEF RequestsInv, RequestsForm, Exists, Rows
<1>2. RequestsForm'
  BY DEF RequestsInv, RequestsForm
<1>3. GoneInv'
  BY <1>1 DEF RequestsInv, GoneInv
<1>4. KeyInv'
  <2>1. ASSUME NEW k \in IdemKeys, record[k] # NoRecord
        PROVE  /\ row'[record[k].entry].version > 0 /\ row'[record[k].entry].key = k
               /\ born[record[k].entry] = record[k].fingerprint
    <3>1. record[k].entry \in EntryIds
      BY <2>1 DEF RequestsInv, RequestsForm, Records
    <3> QED BY <1>1, <2>1, <3>1 DEF RequestsInv, KeyInv, Exists
  <2>2. ASSUME NEW d \in EntryIds, row'[d].version > 0, row'[d].key # NoKey
        PROVE  record[row'[d].key] # NoRecord /\ record[row'[d].key].entry = d
    BY <1>1, <2>2 DEF RequestsInv, KeyInv, Exists
  <2> QED BY <2>1, <2>2 DEF KeyInv, Exists
<1>5. SeenInv'
  <2>1. ASSUME NEW d \in EntryIds, NEW v \in Nat, NEW q, Noted(d, v, q) PROVE NotedNext(d, v, q)
    <3>1. CASE d = e
      <4>1. row[e].version \in Nat /\ v <= row[e].version /\ born[e] # "none"
        BY <2>1, <3>1 DEF RequestsInv, RequestsForm, Rows, NoRow, Noted
      <4>2. row'[e].version = row[e].version + 1 /\ born'[e] # "none"
        BY <1>1, <4>1
      <4> QED BY <3>1, <4>1, <4>2 DEF Noted, NotedNext, Exists
    <3>2. CASE d # e
      BY <1>1, <2>1, <3>2 DEF Noted, NotedNext, Exists
    <3> QED BY <3>1, <3>2
  <2>2. ASSUME NEW b \in Clients, client'[b].stage \in {"prior", "decide"}
        PROVE  NotedNext(client'[b].entry, client'[b].version, client'[b].saw)
    <3>1. client'[b] = client[b] /\ client[b] \in Reviews
      BY <2>2, Acting DEF RequestsInv, RequestsForm
    <3>2. /\ Noted(client[b].entry, client[b].version, client[b].saw)
          /\ client[b].entry \in EntryIds /\ client[b].version \in Nat
      BY <2>2, <3>1 DEF RequestsInv, SeenInv, Reviews
    <3> QED BY <2>1, <3>1, <3>2
  <2>3. ASSUME NEW d \in EntryIds, NEW i \in 1 .. Len(decisions'[d])
        PROVE  NotedNext(d, decisions'[d][i].version, decisions'[d][i].saw)
    <3>1. Noted(d, decisions[d][i].version, decisions[d][i].saw)
      BY <2>3 DEF RequestsInv, SeenInv
    <3>2. decisions[d][i] \in Decisions
      BY <2>3 DEF RequestsInv, RequestsForm
    <3> QED BY <2>1, <3>1, <3>2 DEF Decisions
  <2> QED BY <2>2, <2>3 DEF SeenInv, Noted, NotedNext, Exists
<1>6. AnswersTellTheTruth'
  BY DEF RequestsInv, RequestsForm, AnswersTellTheTruth
<1> QED BY <1>2, <1>3, <1>4, <1>5, <1>6 DEF RequestsInv

LEMMA UpdateKept ==
  ASSUME RequestsInv, NEW c \in Clients, UpdateEntry(c)
  PROVE  RequestsInv'
<1> DEFINE e == client[c].entry
<1>1. client[c] \in Writes /\ client[c].op = "update" /\ e \in EntryIds
  BY Acting DEF UpdateEntry, RequestsInv, Writes
<1>2. UNCHANGED <<links, shown, record, decisions, disturbed, born, requests, mishaps>>
  BY DEF UpdateEntry
<1>3. CASE Unmoved(c)
  <2> DEFINE x == [row[e] EXCEPT !.version = @ + 1, !.payload = client[c].payload]
             r == [stage |-> "clear", op |-> "update", entry |-> e, payload |-> client[c].payload,
                   answer |-> "none", version |-> client[c].version + 1, table |-> "media"]
  <2>1. row[e] \in Rows /\ Exists(e)
    BY <1>1, <1>3 DEF RequestsInv, RequestsForm, Exists, NoRow, Unmoved, Writes, Rows
  <2>2. x \in Rows /\ x.version = row[e].version + 1 /\ x.key = row[e].key
    <3>1. client[c].payload \in Payloads
      BY <1>1 DEF Writes
    <3> QED BY <2>1, <3>1, RowAfterUpdate
  <2>3. row' = [row EXCEPT ![e] = x] /\ client' = [client EXCEPT ![c] = r]
    <3>1. row' = [row EXCEPT ![e].version = @ + 1, ![e].payload = client[c].payload]
          /\ client' = [client EXCEPT ![c] = r]
      BY <1>3 DEF UpdateEntry
    <3> QED BY <1>1, <2>1, <3>1 DEF RequestsInv, RequestsForm
  <2>4. r \in Clears
    BY <1>1 DEF Clears, Writes, Answers, Links
  <2>5. r \in Under /\ r.stage \notin {"prior", "decide"} /\ r.op # "create"
    BY <2>4 DEF Under
  <2>6. shown' \in LinkTables /\ shown' = shown
    BY <1>2 DEF RequestsInv, RequestsForm
  <2> HIDE DEF x, r
  <2> QED BY <1>1, <1>2, <2>1, <2>2, <2>3, <2>5, <2>6, RowMoves
<1>4. CASE ~Unmoved(c)
  <2>1. Refuse(c) /\ UNCHANGED row /\ client[c].stage = "write"
    BY <1>4 DEF UpdateEntry
  <2> QED BY <1>2, <2>1, Refused DEF RequestsInv, RequestsForm
<1> QED BY <1>3, <1>4

LEMMA PublishKept ==
  ASSUME RequestsInv, NEW c \in Clients, SetPublishState(c)
  PROVE  RequestsInv'
<1> DEFINE e == client[c].entry
           goes == client[c].op = "publish"
<1>1. client[c] \in Writes /\ e \in EntryIds /\ client[c].stage = "write" /\ goes \in BOOLEAN
  BY Acting DEF SetPublishState, RequestsInv, Writes
<1>2. UNCHANGED <<links, record, decisions, disturbed, born, requests, mishaps>>
  BY DEF SetPublishState
<1>3. CASE Refuse(c) /\ UNCHANGED <<row, shown>>
  BY <1>1, <1>2, <1>3, Refused DEF RequestsInv, RequestsForm
<1>4. CASE /\ Unmoved(c)
           /\ row' = [row EXCEPT ![e].version = @ + 1, ![e].published = goes,
                             ![e].snapshot = IF goes THEN row[e].payload ELSE @]
           /\ shown' = IF goes THEN [shown EXCEPT ![e] = links[e]] ELSE shown
           /\ Answer(c, e)
  <2> DEFINE x == [row[e] EXCEPT !.version = @ + 1, !.published = goes,
                                 !.snapshot = IF goes THEN row[e].payload ELSE @]
  <2>1. row[e] \in Rows /\ Exists(e)
    BY <1>1, <1>4 DEF RequestsInv, RequestsForm, Exists, NoRow, Unmoved, Writes, Rows
  <2>2. x \in Rows /\ x.version = row[e].version + 1 /\ x.key = row[e].key
    BY <1>1, <2>1, RowAfterPublish
  <2>3. row' = [row EXCEPT ![e] = x]
    BY <1>1, <1>4, <2>1 DEF RequestsInv, RequestsForm
  <2>4. PICK r \in Under : /\ client' = [client EXCEPT ![c] = r]
                           /\ r.stage = "answered" /\ r.op # "create"
    <3>1. client[c] \notin Creates /\ e \in Answers /\ client[c].stage \notin {"idle", "answered"}
      BY <1>1 DEF Creates, Writes, Answers
    <3> QED BY <1>4, <3>1, Answered DEF RequestsInv
  <2>5. shown' \in LinkTables /\ \A d \in EntryIds : d # e => shown'[d] = shown[d]
    BY <1>1, <1>4 DEF RequestsInv, RequestsForm, LinkTables
  <2> HIDE DEF x
  <2> QED BY <1>1, <1>2, <2>1, <2>2, <2>3, <2>4, <2>5, RowMoves
<1> QED BY <1>3, <1>4 DEF SetPublishState

-----------------------------------------------------------------------------
(* The other steps of a request: none writes the row.                      *)
LEMMA ReadKept ==
  ASSUME RequestsInv, NEW c \in Clients, ReadEntry(c)
  PROVE  RequestsInv'
<1> DEFINE e == client[c].entry
<1>1. client[c] \in Asks \cup Edits /\ client[c].stage = "read" /\ e \in EntryIds
  BY Acting DEF ReadEntry, RequestsInv, Asks, Edits
<1>2. /\ UNCHANGED <<row, links, shown, record, decisions, born>>
      /\ requests' \in 0 .. MaxRequests /\ mishaps' \in 0 .. MaxMishaps /\ disturbed' \subseteq EntryIds
  BY <1>1 DEF ReadEntry, stored, RequestsInv, RequestsForm
<1>3. CASE Refuse(c)
  BY <1>1, <1>2, <1>3, Refused
<1>4. ASSUME Exists(e), ~Refuse(c) PROVE RequestsInv'
  <2>1. row[e] \in Rows /\ born[e] # "none"
    BY <1>1, <1>4 DEF RequestsInv, RequestsForm, Exists, NoRow, GoneInv
  <2>2. CASE client[c].op = "review"
    <3> DEFINE r == [stage |-> "prior", op |-> "review", entry |-> e, answer |-> "none",
                     version |-> row[e].version, saw |-> row[e].payload]
    <3>1. client' = [client EXCEPT ![c] = r]
      BY <1>4, <2>2 DEF ReadEntry
    <3>2. r \in Reviews /\ Noted(r.entry, r.version, r.saw)
      BY <1>1, <2>1 DEF Reviews, Rows, Answers, Noted
    <3> QED BY <1>2, <3>1, <3>2, ClientMoves DEF Under
  <2>3. CASE client[c].op # "review"
    <3> DEFINE r == [stage |-> "write", op |-> client[c].op, entry |-> e,
                     payload |-> IF client[c].op = "update" THEN client[c].payload ELSE row[e].payload,
                     answer |-> "none", version |-> row[e].version]
    <3>1. client' = [client EXCEPT ![c] = r]
      BY <1>4, <2>3 DEF ReadEntry, RequestsInv, RequestsForm
    <3>2. r \in Writes
      BY <1>1, <2>1, <2>3 DEF Asks, Edits, Writes, Rows, Answers
    <3> QED BY <1>2, <3>1, <3>2, ClientMoves DEF Under
  <2> QED BY <2>2, <2>3
<1> QED BY <1>3, <1>4 DEF ReadEntry

LEMMA ClearKept ==
  ASSUME RequestsInv, NEW c \in Clients, ClearLinks(c)
  PROVE  RequestsInv'
<1>1. client[c] \in Clears
  BY Acting DEF ClearLinks, RequestsInv
<1> DEFINE r == [stage |-> "link", op |-> "update", entry |-> client[c].entry,
          payload |-> client[c].payload, answer |-> "none", version |-> client[c].version,
          table |-> client[c].table, cleared |-> links[client[c].entry][client[c].table]]
<1>2. client' = [client EXCEPT ![c] = r]
  BY DEF ClearLinks, RequestsInv, RequestsForm
<1>3. r \in Linkers
  BY <1>1 DEF Clears, Linkers, Answers, RequestsInv, RequestsForm, LinkTables
<1>4. /\ UNCHANGED <<row, links, shown, record, decisions, born>>
      /\ requests' \in 0 .. MaxRequests /\ mishaps' \in 0 .. MaxMishaps /\ disturbed' \subseteq EntryIds
  BY DEF ClearLinks, stored, RequestsInv, RequestsForm
<1> QED BY <1>2, <1>3, <1>4, ClientMoves DEF Under

(* Only the links of an entry that exists are written.                     *)
LEMMA LinksMove ==
  ASSUME RequestsInv, NEW c \in Clients, NEW r \in Under, NEW e \in EntryIds, Exists(e),
         client' = [client EXCEPT ![c] = r], r.stage \notin {"prior", "decide"}, r.op # "create",
         links' \in LinkTables, \A d \in EntryIds : d # e => links'[d] = links[d],
         UNCHANGED <<row, shown, record, decisions, disturbed, born, requests, mishaps>>
  PROVE  RequestsInv'
<1>1. RequestsForm'
  BY DEF RequestsInv, RequestsForm
<1>2. GoneInv' /\ KeyInv'
  BY DEF RequestsInv, GoneInv, KeyInv, Exists
<1>3. SeenInv'
  <2>1. ASSUME NEW d \in Clients, client'[d].stage \in {"prior", "decide"}
        PROVE  Noted(client'[d].entry, client'[d].version, client'[d].saw)
    BY <2>1 DEF RequestsInv, RequestsForm, SeenInv
  <2> QED BY <2>1 DEF RequestsInv, SeenInv, Noted, Exists
<1>4. AnswersTellTheTruth'
  BY DEF RequestsInv, RequestsForm, AnswersTellTheTruth
<1> QED BY <1>1, <1>2, <1>3, <1>4 DEF RequestsInv

LEMMA ReplaceKept ==
  ASSUME RequestsInv, NEW c \in Clients, ReplaceLinks(c)
  PROVE  RequestsInv'
<1> DEFINE e == client[c].entry
           t == client[c].table
<1>1. client[c] \in Linkers /\ e \in EntryIds /\ t \in Links /\ client[c].stage = "link"
  BY Acting DEF ReplaceLinks, RequestsInv, Linkers
<1>2. UNCHANGED <<row, shown, record, decisions, disturbed, born, requests, mishaps>>
  BY DEF ReplaceLinks
<1>3. CASE Exists(e)
  <2>1. LinkRows(c) \in SUBSET (Payloads \X Nat)
    BY <1>1 DEF LinkRows, Linkers, RequestsInv, RequestsForm, LinkTables
  <2>2. links' = [links EXCEPT ![e][t] = LinkRows(c)]
    BY <1>3 DEF ReplaceLinks
  <2>3. links' \in LinkTables /\ \A d \in EntryIds : d # e => links'[d] = links[d]
    BY <1>1, <2>1, <2>2 DEF LinkTables, RequestsInv, RequestsForm
  <2>4. PICK r \in Under : /\ client' = [client EXCEPT ![c] = r]
                           /\ r.stage \notin {"prior", "decide"} /\ r.op # "create"
    <3>1. CASE t = "media"
      <4> DEFINE r == [stage |-> "clear", op |-> "update", entry |-> e, payload |-> client[c].payload,
                       answer |-> "none", version |-> client[c].version, table |-> "relations"]
      <4>1. client' = [client EXCEPT ![c] = r]
        BY <1>3, <3>1 DEF ReplaceLinks, RequestsInv, RequestsForm
      <4>2. r \in Clears /\ r.stage \notin {"prior", "decide"} /\ r.op # "create"
        BY <1>1 DEF Clears, Linkers, Answers, Links
      <4> HIDE DEF r
      <4> QED BY <4>1, <4>2 DEF Under
    <3>2. CASE t # "media"
      <4>1. Answer(c, e) /\ e \in Answers /\ client[c] \notin Creates
        BY <1>1, <1>3, <3>2 DEF ReplaceLinks, Answers, Creates, Linkers
      <4> QED BY <1>1, <4>1, Answered DEF RequestsInv
    <3> QED BY <3>1, <3>2
  <2> QED BY <1>1, <1>2, <1>3, <2>3, <2>4, LinksMove
<1>4. CASE ~Exists(e)
  <2>1. Refuse(c) /\ UNCHANGED links
    BY <1>4 DEF ReplaceLinks
  <2> QED BY <1>1, <1>2, <2>1, Refused DEF RequestsInv, RequestsForm
<1> QED BY <1>3, <1>4

LEMMA FailKept ==
  ASSUME RequestsInv, NEW c \in Clients, LinksFail(c)
  PROVE  RequestsInv'
<1>1. client[c].stage \notin {"idle", "answered"} /\ Refuse(c) /\ client[c].entry \in EntryIds
  BY Acting DEF LinksFail, RequestsInv, Clears, Linkers
<1>2. /\ UNCHANGED <<row, links, shown, record, decisions, born>>
      /\ requests' \in 0 .. MaxRequests /\ mishaps' \in 0 .. MaxMishaps /\ disturbed' \subseteq EntryIds
  BY <1>1, RequestsAssumption DEF LinksFail, RequestsInv, RequestsForm
<1> QED BY <1>1, <1>2, Refused

LEMMA PriorKept ==
  ASSUME RequestsInv, NEW c \in Clients, ReadPrior(c)
  PROVE  RequestsInv'
<1>1. client[c] \in Reviews /\ client[c].stage = "prior"
  BY Acting DEF ReadPrior, RequestsInv
<1>2. /\ UNCHANGED <<row, links, shown, record, decisions, born>>
      /\ requests' \in 0 .. MaxRequests /\ mishaps' \in 0 .. MaxMishaps /\ disturbed' \subseteq EntryIds
  BY DEF ReadPrior, stored, RequestsInv, RequestsForm
<1>3. CASE Refuse(c)
  BY <1>1, <1>2, <1>3, Refused
<1>4. CASE Stage(c, "decide")
  <2> DEFINE r == [client[c] EXCEPT !.stage = "decide"]
  <2>1. client' = [client EXCEPT ![c] = r]
    BY <1>4 DEF Stage, RequestsInv, RequestsForm
  <2>2. /\ r \in Reviews /\ r.stage = "decide" /\ r.entry = client[c].entry
        /\ r.version = client[c].version /\ r.saw = client[c].saw
    BY <1>1 DEF Reviews
  <2>3. Noted(r.entry, r.version, r.saw)
    BY <1>1, <2>2 DEF RequestsInv, SeenInv
  <2>4. r \in Under
    BY <2>2 DEF Under
  <2> HIDE DEF r
  <2> QED BY <1>2, <2>1, <2>2, <2>3, <2>4, ClientMoves
<1> QED BY <1>3, <1>4 DEF ReadPrior

LEMMA DecideKept ==
  ASSUME RequestsInv, NEW c \in Clients, RequestChanges(c)
  PROVE  RequestsInv'
<1> DEFINE e == client[c].entry
           n == [version |-> client[c].version, saw |-> client[c].saw]
<1>1. client[c] \in Reviews /\ client[c].stage = "decide" /\ e \in EntryIds
  BY Acting DEF RequestChanges, RequestsInv, Reviews
<1>2. UNCHANGED <<row, links, shown, record, disturbed, born, requests, mishaps>>
  BY DEF RequestChanges
<1>3. CASE ~Exists(e)
  <2>1. Refuse(c) /\ UNCHANGED decisions
    BY <1>3 DEF RequestChanges
  <2> QED BY <1>1, <1>2, <2>1, Refused DEF RequestsInv, RequestsForm
<1>4. CASE Exists(e)
  <2>1. decisions' = [decisions EXCEPT ![e] = Append(@, n)]
    BY <1>4 DEF RequestChanges, DecidedVersion
  <2>2. PICK r \in Under : client' = [client EXCEPT ![c] = r] /\ r.stage = "answered" /\ r.op # "create"
    <3>1. Answer(c, e) /\ e \in Answers /\ client[c] \notin Creates
      BY <1>1, <1>4 DEF RequestChanges, Answers, Creates, Reviews
    <3> QED BY <1>1, <3>1, Answered DEF RequestsInv
  <2>3. n \in Decisions /\ Noted(e, n.version, n.saw)
    BY <1>1 DEF Reviews, Decisions, RequestsInv, SeenInv
  <2>4. decisions[e] \in Seq(Decisions)
    BY <1>1 DEF RequestsInv, RequestsForm
  <2> HIDE DEF n
  <2>5. RequestsForm'
    BY <1>1, <1>2, <2>1, <2>2, <2>3, <2>4 DEF RequestsInv, RequestsForm
  <2>6. GoneInv' /\ KeyInv'
    BY <1>1, <1>2, <1>4, <2>1 DEF RequestsInv, RequestsForm, GoneInv, KeyInv, Exists
  <2>7. SeenInv'
    <3>1. ASSUME NEW b \in Clients, client'[b].stage \in {"prior", "decide"}
          PROVE  Noted(client'[b].entry, client'[b].version, client'[b].saw)
      BY <2>2, <3>1 DEF RequestsInv, RequestsForm, SeenInv
    <3>2. ASSUME NEW d \in EntryIds, NEW i \in 1 .. Len(decisions'[d])
          PROVE  Noted(d, decisions'[d][i].version, decisions'[d][i].saw)
      <4>1. CASE d # e
        <5>1. decisions'[d] = decisions[d]
          BY <1>1, <2>1, <4>1 DEF RequestsInv, RequestsForm
        <5> QED BY <3>2, <5>1 DEF RequestsInv, SeenInv
      <4>2. CASE d = e
        <5>1. decisions'[e] = Append(decisions[e], n)
          BY <1>1, <2>1 DEF RequestsInv, RequestsForm
        <5>2. CASE i = Len(decisions[e]) + 1
          BY <2>3, <2>4, <4>2, <5>1, <5>2
        <5>3. CASE i # Len(decisions[e]) + 1
          <6>1. i \in 1 .. Len(decisions[e]) /\ decisions'[e][i] = decisions[e][i]
            BY <2>3, <2>4, <3>2, <4>2, <5>1, <5>3
          <6> QED BY <4>2, <6>1 DEF RequestsInv, SeenInv
        <5> QED BY <5>2, <5>3
      <4> QED BY <4>1, <4>2
    <3> QED BY <1>2, <3>1, <3>2 DEF SeenInv, Noted, Exists
  <2>8. AnswersTellTheTruth'
    BY <1>2, <2>2 DEF RequestsInv, RequestsForm, AnswersTellTheTruth
  <2> QED BY <2>5, <2>6, <2>7, <2>8 DEF RequestsInv
<1> QED BY <1>3, <1>4

-----------------------------------------------------------------------------
LEMMA DeleteKept ==
  ASSUME RequestsInv, NEW e \in EntryIds, DeleteEntry(e)
  PROVE  RequestsInv'
<1>1. UNCHANGED <<client, requests, mishaps, disturbed, born>>
  BY DEF DeleteEntry
<1>2. /\ row' = [row EXCEPT ![e] = NoRow] /\ links' = [links EXCEPT ![e] = Empty]
      /\ shown' = [shown EXCEPT ![e] = Empty] /\ decisions' = [decisions EXCEPT ![e] = << >>]
      /\ record' = [k \in IdemKeys |-> IF record[k] # NoRecord /\ record[k].entry = e
                                       THEN NoRecord ELSE record[k]]
  BY DEF DeleteEntry
<1>3. ASSUME NEW d \in EntryIds
      PROVE  /\ d = e => row'[d].version = 0 /\ ~(row'[d].version > 0)
             /\ d # e => row'[d] = row[d]
  BY <1>2 DEF RequestsInv, RequestsForm, NoRow
<1>4. Empty \in [Links -> SUBSET (Payloads \X Nat)] /\ << >> \in Seq(Decisions)
  BY DEF Empty
<1>5. RequestsForm'
  <2>1. links' \in LinkTables /\ shown' \in LinkTables
    BY <1>2, <1>4 DEF RequestsInv, RequestsForm, LinkTables
  <2>2. record' \in [IdemKeys -> {NoRecord} \cup Records]
    BY <1>2 DEF RequestsInv, RequestsForm
  <2> QED BY <1>1, <1>2, <1>4, <2>1, <2>2 DEF RequestsInv, RequestsForm
<1>6. GoneInv'
  BY <1>1, <1>2, <1>3 DEF RequestsInv, RequestsForm, LinkTables, GoneInv, Exists
<1>7. KeyInv'
  <2>1. ASSUME NEW k \in IdemKeys, record'[k] # NoRecord
        PROVE  /\ row'[record'[k].entry].version > 0 /\ row'[record'[k].entry].key = k
               /\ born'[record'[k].entry] = record'[k].fingerprint
    <3>1. record[k] # NoRecord /\ record'[k] = record[k] /\ record[k].entry # e
          /\ record[k].entry \in EntryIds
      BY <1>2, <2>1 DEF RequestsInv, RequestsForm, Records
    <3> QED BY <1>1, <1>3, <3>1 DEF RequestsInv, KeyInv, Exists
  <2>2. ASSUME NEW d \in EntryIds, row'[d].version > 0, row'[d].key # NoKey
        PROVE  record'[row'[d].key] # NoRecord /\ record'[row'[d].key].entry = d
    <3>1. d # e /\ row'[d] = row[d] /\ Exists(d)
      BY <1>3, <2>2 DEF Exists
    <3>2. row[d].key \in IdemKeys /\ record[row[d].key] # NoRecord /\ record[row[d].key].entry = d
      BY <2>2, <3>1 DEF RequestsInv, RequestsForm, Rows, NoRow, Exists, KeyInv
    <3> QED BY <1>2, <3>1, <3>2
  <2> QED BY <2>1, <2>2 DEF KeyInv, Exists
<1>8. SeenInv'
  <2>1. ASSUME NEW d \in EntryIds, NEW v, NEW q, Noted(d, v, q) PROVE Noted(d, v, q)'
    BY <1>1, <1>3, <2>1 DEF Noted, Exists
  <2>2. ASSUME NEW b \in Clients, client[b].stage \in {"prior", "decide"}
        PROVE  Noted(client[b].entry, client[b].version, client[b].saw)'
    <3>1. Noted(client[b].entry, client[b].version, client[b].saw) /\ client[b].entry \in EntryIds
      BY <2>2, Acting DEF RequestsInv, SeenInv, Reviews
    <3> QED BY <1>1, <2>1, <3>1 DEF Noted, Exists
  <2>3. ASSUME NEW d \in EntryIds, NEW i \in 1 .. Len(decisions'[d])
        PROVE  Noted(d, decisions[d][i].version, decisions[d][i].saw)'
    <3>1. d # e /\ decisions'[d] = decisions[d]
      BY <1>2, <2>3 DEF RequestsInv, RequestsForm
    <3>2. Noted(d, decisions[d][i].version, decisions[d][i].saw)
      BY <2>3, <3>1 DEF RequestsInv, SeenInv
    <3> QED BY <1>1, <1>3, <3>1, <3>2 DEF Noted, Exists
  <2> QED BY <1>1, <2>2, <2>3 DEF SeenInv
<1>9. AnswersTellTheTruth'
  BY <1>1 DEF RequestsInv, AnswersTellTheTruth
<1> QED BY <1>5, <1>6, <1>7, <1>8, <1>9 DEF RequestsInv

LEMMA RequestsInitially == RequestsInit => RequestsInv
<1> SUFFICES ASSUME RequestsInit PROVE RequestsInv
  OBVIOUS
<1>1. Empty \in [Links -> SUBSET (Payloads \X Nat)]
  BY DEF Empty
<1>2. RequestsForm
  BY <1>1, RequestsAssumption DEF RequestsInit, RequestsForm, LinkTables
<1>3. GoneInv /\ KeyInv /\ SeenInv /\ AnswersTellTheTruth
  BY DEF RequestsInit, GoneInv, KeyInv, SeenInv, AnswersTellTheTruth, Exists, NoRow, Resting
<1> QED BY <1>2, <1>3 DEF RequestsInv

LEMMA RequestsKept == RequestsInv /\ [RequestsNext]_requestVars => RequestsInv'
<1> SUFFICES ASSUME RequestsInv, [RequestsNext]_requestVars PROVE RequestsInv'
  OBVIOUS
<1>1. ASSUME NEW c \in Clients, ClientStep(c) PROVE RequestsInv'
  BY <1>1, AsksKept, FindKept, CreateKept, ReadKept, UpdateKept, PublishKept, ClearKept,
     ReplaceKept, FailKept, PriorKept, DecideKept DEF ClientStep
<1>2. CASE UNCHANGED requestVars
  BY <1>2 DEF requestVars, RequestsInv, RequestsForm, GoneInv, KeyInv, SeenInv, Noted, AnswersTellTheTruth, Exists
<1> QED BY <1>1, <1>2, DeleteKept DEF RequestsNext

-----------------------------------------------------------------------------
(* The strengthening that is inductive: records and keys are each other's
   inverse, and who noted a version noted its payload.                     *)
THEOREM RequestsConsistent == RequestsSpec => []RequestsInv
<1>1. RequestsInit => RequestsInv
  BY RequestsInitially
<1>2. RequestsInv /\ [RequestsNext]_requestVars => RequestsInv'
  BY RequestsKept
<1> QED BY <1>1, <1>2, PTL DEF RequestsSpec

(* Nothing is left of an entry that is gone, and a record's entry exists
   (the cascades of 000032 and 000028).                                    *)
THEOREM RequestsTyped == RequestsSpec => []RequestsTypeOK
<1>1. RequestsInv => RequestsTypeOK
  <2> SUFFICES ASSUME RequestsInv PROVE RequestsTypeOK
    OBVIOUS
  <2>1. ASSUME NEW e \in EntryIds
        PROVE  /\ row[e].version \in Nat
               /\ \A l \in Links : links[e][l] \cup shown[e][l] \subseteq Payloads \X Nat
    BY DEF RequestsInv, RequestsForm, LinkTables, Rows, NoRow
  <2> QED BY <2>1 DEF RequestsInv, RequestsForm, GoneInv, KeyInv, RequestsTypeOK
<1> QED BY <1>1, RequestsConsistent, PTL

(* One entry that lives was created under a key (content_service.go:1332). *)
THEOREM KeysAreSpentOnce == RequestsSpec => []OneEntryPerKey
<1>1. RequestsInv => OneEntryPerKey
  <2> SUFFICES ASSUME RequestsInv, NEW d \in EntryIds, NEW e \in EntryIds, Exists(d), Exists(e),
                      row[d].key = row[e].key, row[d].key # NoKey
               PROVE  d = e
    BY DEF OneEntryPerKey
  <2> QED BY DEF RequestsInv, KeyInv
<1> QED BY <1>1, RequestsConsistent, PTL

(* A replay is answered with the entry of its own request
   (entry_idempotency.go:128).                                             *)
THEOREM ReplaysTellTheTruth == RequestsSpec => []AnswersTellTheTruth
<1>1. RequestsInv => AnswersTellTheTruth
  BY DEF RequestsInv
<1> QED BY <1>1, RequestsConsistent, PTL

(* A version is sent back on what its reviewer read
   (review_decision.go:186).                                               *)
THEOREM SentBackWasRead == RequestsSpec => []HiddenWasRead
<1>1. RequestsInv => HiddenWasRead
  <2> SUFFICES ASSUME RequestsInv, NEW e \in EntryIds, SentBack(e)
               PROVE  Latest(e).saw = row[e].payload
    BY DEF HiddenWasRead
  <2>1. decisions[e] \in Seq(Decisions) /\ decisions[e] # << >>
    BY DEF RequestsInv, RequestsForm, SentBack
  <2>2. Len(decisions[e]) \in 1 .. Len(decisions[e])
    BY <2>1
  <2>3. Noted(e, Latest(e).version, Latest(e).saw)
    BY <2>2 DEF RequestsInv, SeenInv, Latest
  <2> QED BY <2>3 DEF SentBack, Noted
<1> QED BY <1>1, RequestsConsistent, PTL

-----------------------------------------------------------------------------
(* The link tables of an entry no two requests wrote at once.              *)
Of(S) == {r[1] : r \in S}

LEMMA OfOne ==
  ASSUME NEW p, NEW v
  PROVE  Of({<<p, v>>}) = {p}
<1>1. ASSUME NEW q PROVE q \in Of({<<p, v>>}) <=> q = p
  BY DEF Of
<1> QED BY <1>1

Writer(c, e) == client[c].stage \in {"write", "clear", "link"} /\ client[c].entry = e

Following(e) ==
  /\ \A c, d \in Clients : Writer(c, e) /\ Writer(d, e) => c = d
  /\ row[e].published => \A l \in Links : Of(shown[e][l]) = {row[e].snapshot}
  /\ (\A c \in Clients : Writer(c, e) => client[c].stage = "write")
       => \A l \in Links : Of(links[e][l]) = {row[e].payload}
  /\ \A c \in Clients : Writer(c, e) /\ client[c].stage # "write" =>
       /\ client[c].payload = row[e].payload
       /\ client[c].table = "relations" => Of(links[e]["media"]) = {row[e].payload}
       /\ client[c].stage = "link" => client[c].cleared = links[e][client[c].table]

LinkInv ==
  /\ \A e \in EntryIds \ disturbed : Exists(e) => Following(e)
  /\ \A c \in Clients, e \in EntryIds : Writer(c, e) => born[e] # "none"

(* The same of the state after a step, of one entry.                       *)
FollowingNext(e) ==
  /\ \A c, d \in Clients : Writer(c, e)' /\ Writer(d, e)' => c = d
  /\ row'[e].published => \A l \in Links : Of(shown'[e][l]) = {row'[e].snapshot}
  /\ (\A c \in Clients : Writer(c, e)' => client'[c].stage = "write")
       => \A l \in Links : Of(links'[e][l]) = {row'[e].payload}
  /\ \A c \in Clients : Writer(c, e)' /\ client'[c].stage # "write" =>
       /\ client'[c].payload = row'[e].payload
       /\ client'[c].table = "relations" => Of(links'[e]["media"]) = {row'[e].payload}
       /\ client'[c].stage = "link" => client'[c].cleared = links'[e][client'[c].table]

(* An entry whose tables and writers a step leaves alone.                  *)
LEMMA Quiet ==
  ASSUME NEW e, Following(e),
         row'[e] = row[e], links'[e] = links[e], shown'[e] = shown[e],
         \A b \in Clients : /\ Writer(b, e)' <=> Writer(b, e)
                            /\ Writer(b, e) => client'[b] = client[b]
  PROVE  FollowingNext(e)
BY DEF Following, FollowingNext

(* A step of one client that no entry but e feels.                         *)
LEMMA OneEntry ==
  ASSUME RequestsForm, LinkInv, NEW c \in Clients, NEW r, NEW e \in EntryIds,
         client' = [client EXCEPT ![c] = r],
         \A d \in EntryIds : d # e => row'[d] = row[d] /\ links'[d] = links[d] /\ shown'[d] = shown[d],
         disturbed \subseteq disturbed', UNCHANGED born,
         \A d \in EntryIds : d # e => ~Writer(c, d),
         r.stage \in {"write", "clear", "link"} => r.entry = e /\ born[e] # "none",
         e \notin disturbed' /\ row'[e].version > 0 => FollowingNext(e)
  PROVE  LinkInv'
<1>1. ASSUME NEW b \in Clients
      PROVE  /\ b # c => client'[b] = client[b]
             /\ b = c => client'[b] = r
  BY DEF RequestsForm
<1>2. ASSUME NEW d \in EntryIds \ disturbed', row'[d].version > 0 PROVE FollowingNext(d)
  <2>1. CASE d = e
    BY <1>2, <2>1
  <2>2. CASE d # e
    <3>1. Exists(d) /\ Following(d)
      BY <1>2, <2>2 DEF Exists, LinkInv
    <3>2. ASSUME NEW b \in Clients
          PROVE  /\ Writer(b, d)' <=> Writer(b, d)
                 /\ Writer(b, d) => client'[b] = client[b]
      BY <1>1, <2>2 DEF Writer
    <3> QED BY <2>2, <3>1, <3>2, Quiet
  <2> QED BY <2>1, <2>2
<1>3. ASSUME NEW b \in Clients, NEW d \in EntryIds, Writer(b, d)' PROVE born'[d] # "none"
  BY <1>1, <1>3 DEF Writer, LinkInv
<1> QED BY <1>2, <1>3 DEF LinkInv, Exists, Following, FollowingNext

(* A request that is no writer before or after.                            *)
LEMMA Bystander ==
  ASSUME RequestsForm, LinkInv, NEW c \in Clients, NEW r,
         client' = [client EXCEPT ![c] = r],
         client[c].stage \notin {"write", "clear", "link"},
         r.stage \notin {"write", "clear", "link"},
         UNCHANGED <<row, links, shown, born>>, disturbed \subseteq disturbed'
  PROVE  LinkInv'
<1>1. ASSUME NEW b \in Clients, NEW d
      PROVE  /\ Writer(b, d)' <=> Writer(b, d)
             /\ Writer(b, d) => client'[b] = client[b]
  BY DEF RequestsForm, Writer
<1>2. ASSUME NEW d \in EntryIds \ disturbed', row'[d].version > 0 PROVE FollowingNext(d)
  BY <1>1, <1>2, Quiet DEF LinkInv, Exists
<1>3. ASSUME NEW b \in Clients, NEW d \in EntryIds, Writer(b, d)' PROVE born'[d] # "none"
  BY <1>1, <1>3 DEF LinkInv
<1> QED BY <1>2, <1>3 DEF LinkInv, Exists, Following, FollowingNext

(* Steps of requests that write nothing yet, or no longer.                 *)
LEMMA AnswerIsOne ==
  ASSUME RequestsForm, NEW c \in Clients, NEW a, Answer(c, a)
  PROVE  \E r : /\ client' = [client EXCEPT ![c] = r]
                /\ client[c].stage \notin {"idle", "answered"} => r.stage = "answered"
<1>1. client' = [client EXCEPT ![c] = [client[c] EXCEPT !.stage = "answered", !.answer = a]]
  BY DEF Answer, RequestsForm
<1>2. ASSUME client[c].stage \notin {"idle", "answered"}
      PROVE  [client[c] EXCEPT !.stage = "answered", !.answer = a].stage = "answered"
  <2>1. client[c] \in Under
    BY <1>2 DEF RequestsForm, Resting
  <2> QED BY <2>1 DEF Under, Creates, Asks, Edits, Reviews, Writes, Clears, Linkers
<1> QED BY <1>1, <1>2

LEMMA StageIsOne ==
  ASSUME RequestsForm, NEW c \in Clients, NEW s, Stage(c, s), client[c].stage \notin {"idle"}
  PROVE  \E r : client' = [client EXCEPT ![c] = r] /\ r.stage = s
<1>1. client' = [client EXCEPT ![c] = [client[c] EXCEPT !.stage = s]]
  BY DEF Stage, RequestsForm
<1>2. client[c] \in Under
  BY DEF RequestsForm, Resting
<1>3. [client[c] EXCEPT !.stage = s].stage = s
  BY <1>2 DEF Under, Creates, Asks, Edits, Reviews, Writes, Clears, Linkers
<1> QED BY <1>1, <1>3

LEMMA AsideFollows ==
  ASSUME RequestsForm, LinkInv, NEW c \in Clients,
         \/ AskCreate(c) \/ AskChange(c) \/ AskUpdate(c)
         \/ FindRecord(c) \/ ReplayTaken(c) \/ ReadPrior(c) \/ RequestChanges(c)
  PROVE  LinkInv'
<1>1. CASE AskCreate(c) \/ AskChange(c) \/ AskUpdate(c)
  <2>1. ASSUME NEW r, Request(c, r), r.stage \in {"insert", "find", "read"} PROVE LinkInv'
    BY <2>1, Bystander DEF Request, stored
  <2>2. CASE AskCreate(c)
    <3>1. PICK p \in Payloads, k \in IdemKeys \cup {NoKey} :
            Request(c, [op |-> "create", payload |-> p, key |-> k, answer |-> "none",
                        stage |-> IF k = NoKey THEN "insert" ELSE "find"])
      BY <2>2 DEF AskCreate
    <3> QED BY <2>1, <3>1
  <2>3. CASE AskChange(c)
    <3>1. PICK e \in EntryIds, op \in {"publish", "retract", "review"} :
            Request(c, [op |-> op, entry |-> e, answer |-> "none", stage |-> "read"])
      BY <2>3 DEF AskChange
    <3> QED BY <2>1, <3>1
  <2>4. CASE AskUpdate(c)
    <3>1. PICK e \in EntryIds, p \in Payloads :
            Request(c, [op |-> "update", entry |-> e, payload |-> p, answer |-> "none", stage |-> "read"])
      BY <2>4 DEF AskUpdate
    <3> QED BY <2>1, <3>1
  <2> QED BY <1>1, <2>2, <2>3, <2>4
<1>2. CASE \/ FindRecord(c) \/ ReplayTaken(c) \/ ReadPrior(c) \/ RequestChanges(c)
  <2>1. /\ client[c].stage \in {"find", "replay", "prior", "decide"}
        /\ UNCHANGED <<row, links, shown, born, disturbed>>
    BY <1>2 DEF FindRecord, ReplayTaken, ReadPrior, RequestChanges, stored
  <2>2. (\E a : Answer(c, a)) \/ (\E s \in {"insert", "decide"} : Stage(c, s))
    BY <1>2 DEF FindRecord, ReplayTaken, ReadPrior, RequestChanges, Refuse, Replay
  <2>3. PICK r : client' = [client EXCEPT ![c] = r] /\ r.stage \in {"answered", "insert", "decide"}
    BY <2>1, <2>2, AnswerIsOne, StageIsOne
  <2> QED BY <2>1, <2>3, Bystander
<1> QED BY <1>1, <1>2

LEMMA CreateFollows ==
  ASSUME RequestsInv, LinkInv, NEW c \in Clients, CreateEntry(c)
  PROVE  LinkInv'
<1>1. client[c] \in Creates /\ client[c].stage = "insert"
  BY Acting DEF CreateEntry, RequestsInv
<1>2. CASE KeyTaken(c)
  <2>1. Stage(c, "replay") /\ UNCHANGED stored
    BY <1>2 DEF CreateEntry
  <2>2. PICK r : client' = [client EXCEPT ![c] = r] /\ r.stage = "replay"
    BY <1>1, <2>1, StageIsOne DEF RequestsInv
  <2> QED BY <1>1, <2>1, <2>2, Bystander DEF RequestsInv, stored
<1>3. CASE ~KeyTaken(c)
  <2> DEFINE p == client[c].payload
  <2>1. PICK e \in EntryIds :
          /\ born[e] = "none"
          /\ row' = [row EXCEPT ![e] = [version |-> 1, payload |-> p, published |-> FALSE,
                                        snapshot |-> "none", key |-> client[c].key]]
          /\ links' = [links EXCEPT ![e] = [l \in Links |-> {<<p, 1>>}]]
          /\ born' = [born EXCEPT ![e] = p]
          /\ Answer(c, e)
          /\ UNCHANGED <<shown, disturbed>>
    BY <1>3 DEF CreateEntry
  <2>2. PICK r : client' = [client EXCEPT ![c] = r] /\ r.stage = "answered"
    BY <1>1, <2>1, AnswerIsOne DEF RequestsInv
  <2>3. ASSUME NEW b \in Clients, NEW d \in EntryIds
        PROVE  /\ Writer(b, d)' <=> Writer(b, d)
               /\ Writer(b, d) => client'[b] = client[b]
               /\ Writer(b, d) => d # e
    BY <1>1, <2>1, <2>2 DEF RequestsInv, RequestsForm, Writer, LinkInv
  <2>4. p \in Payloads /\ p # "none"
    BY <1>1, RequestsAssumption DEF Creates
  <2>5. FollowingNext(e)
    <3>1. /\ ~row'[e].published /\ row'[e].payload = p
          /\ \A l \in Links : links'[e][l] = {<<p, 1>>}
      BY <2>1 DEF RequestsInv, RequestsForm, LinkTables
    <3>2. \A l \in Links : Of(links'[e][l]) = {row'[e].payload}
      BY <3>1, OfOne
    <3>3. \A b \in Clients : ~Writer(b, e)'
      BY <2>3
    <3> QED BY <3>1, <3>2, <3>3 DEF FollowingNext
  <2>6. ASSUME NEW d \in EntryIds \ disturbed', row'[d].version > 0, d # e PROVE FollowingNext(d)
    <3>1. row'[d] = row[d] /\ links'[d] = links[d] /\ shown'[d] = shown[d]
      BY <2>1, <2>6 DEF RequestsInv, RequestsForm, LinkTables
    <3>2. Following(d)
      BY <2>1, <2>6, <3>1 DEF LinkInv, Exists
    <3> QED BY <2>3, <3>1, <3>2, Quiet
  <2>7. ASSUME NEW b \in Clients, NEW d \in EntryIds, Writer(b, d)' PROVE born'[d] # "none"
    <3>1. Writer(b, d) /\ d # e
      BY <2>3, <2>7
    <3>2. born[d] # "none"
      BY <3>1 DEF LinkInv
    <3> QED BY <2>1, <3>1, <3>2 DEF RequestsInv, RequestsForm
  <2>8. \A d \in EntryIds \ disturbed' : row'[d].version > 0 => FollowingNext(d)
    BY <2>5, <2>6
  <2>9. \A b \in Clients, d \in EntryIds : Writer(b, d)' => born'[d] # "none"
    BY <2>7
  <2> HIDE DEF p
  <2> QED BY <2>8, <2>9 DEF LinkInv, Exists, Following, FollowingNext
<1> QED BY <1>2, <1>3

LEMMA DeleteFollows ==
  ASSUME RequestsInv, LinkInv, NEW e \in EntryIds, DeleteEntry(e)
  PROVE  LinkInv'
<1>1. /\ row' = [row EXCEPT ![e] = NoRow] /\ links' = [links EXCEPT ![e] = Empty]
      /\ shown' = [shown EXCEPT ![e] = Empty] /\ UNCHANGED <<client, disturbed, born>>
  BY DEF DeleteEntry
<1>2. ASSUME NEW d \in EntryIds \ disturbed', row'[d].version > 0 PROVE FollowingNext(d)
  <2>1. d # e
    BY <1>1, <1>2 DEF RequestsInv, RequestsForm, NoRow
  <2>2. row'[d] = row[d] /\ links'[d] = links[d] /\ shown'[d] = shown[d]
    BY <1>1, <2>1 DEF RequestsInv, RequestsForm, LinkTables
  <2>3. Following(d)
    BY <1>1, <1>2, <2>2 DEF LinkInv, Exists
  <2>4. ASSUME NEW b \in Clients
        PROVE  /\ Writer(b, d)' <=> Writer(b, d)
               /\ Writer(b, d) => client'[b] = client[b]
    BY <1>1 DEF Writer
  <2> QED BY <2>2, <2>3, <2>4, Quiet
<1>3. ASSUME NEW b \in Clients, NEW d \in EntryIds, Writer(b, d)' PROVE born'[d] # "none"
  BY <1>1, <1>3 DEF LinkInv, Writer
<1> QED BY <1>2, <1>3 DEF LinkInv, Exists, Following, FollowingNext

LEMMA ReadFollows ==
  ASSUME RequestsInv, LinkInv, NEW c \in Clients, ReadEntry(c)
  PROVE  LinkInv'
<1> DEFINE e == client[c].entry
<1>1. client[c] \in Asks \cup Edits /\ client[c].stage = "read" /\ e \in EntryIds
  BY Acting DEF ReadEntry, RequestsInv, Asks, Edits
<1>2. UNCHANGED <<row, links, shown, born>> /\ disturbed \subseteq disturbed'
  BY DEF ReadEntry, stored
<1>3. CASE Refuse(c)
  <2>1. PICK r : client' = [client EXCEPT ![c] = r] /\ r.stage = "answered"
    BY <1>1, <1>3, AnswerIsOne DEF Refuse, RequestsInv
  <2> QED BY <1>1, <1>2, <2>1, Bystander DEF RequestsInv
<1>4. ASSUME Exists(e), ~Refuse(c) PROVE LinkInv'
  <2>1. CASE client[c].op = "review"
    <3> DEFINE r == [stage |-> "prior", op |-> "review", entry |-> e, answer |-> "none",
                     version |-> row[e].version, saw |-> row[e].payload]
    <3>1. client' = [client EXCEPT ![c] = r]
      BY <1>4, <2>1 DEF ReadEntry
    <3> QED BY <1>1, <1>2, <3>1, Bystander DEF RequestsInv
  <2>2. CASE client[c].op # "review"
    <3> DEFINE r == [stage |-> "write", op |-> client[c].op, entry |-> e,
                     payload |-> IF client[c].op = "update" THEN client[c].payload ELSE row[e].payload,
                     answer |-> "none", version |-> row[e].version]
    <3>1. /\ client' = [client EXCEPT ![c] = r]
          /\ disturbed' = IF Writing(e) # {} THEN disturbed \cup {e} ELSE disturbed
      BY <1>4, <2>2 DEF ReadEntry, RequestsInv, RequestsForm
    <3>2. r.stage = "write" /\ r.entry = e /\ born[e] # "none"
      BY <1>1, <1>4 DEF RequestsInv, GoneInv
    <3>3. \A d \in EntryIds : d # e => ~Writer(c, d)
      BY <1>1 DEF Writer
    <3>4. ASSUME e \notin disturbed' PROVE FollowingNext(e)
      <4>1. e \notin disturbed /\ \A b \in Clients : ~Writer(b, e)
        BY <1>1, <3>1, <3>4 DEF Writing, Writer
      <4>2. Following(e)
        BY <1>1, <1>4, <4>1 DEF LinkInv
      <4>3. ASSUME NEW b \in Clients
            PROVE  (Writer(b, e)' <=> b = c) /\ client'[c].stage = "write"
        BY <3>1, <3>2, <4>1 DEF Writer, RequestsInv, RequestsForm
      <4> HIDE DEF r
      <4> QED BY <1>2, <4>1, <4>2, <4>3 DEF Following, FollowingNext
    <3> HIDE DEF r
    <3> QED BY <1>1, <1>2, <3>1, <3>2, <3>3, <3>4, OneEntry DEF RequestsInv
  <2> QED BY <2>1, <2>2
<1> QED BY <1>3, <1>4 DEF ReadEntry

(* The last step of a writer, and those between.                           *)
LEMMA WriterFollows ==
  ASSUME RequestsInv, LinkInv, NEW c \in Clients, NEW e \in EntryIds, e = client[c].entry,
         \/ UpdateEntry(c) \/ SetPublishState(c) \/ ClearLinks(c)
         \/ ReplaceLinks(c) \/ LinksFail(c)
  PROVE  LinkInv'
<1>1. /\ client[c].stage \in {"write", "clear", "link"} /\ e = client[c].entry
      /\ client[c].stage = "write" => client[c] \in Writes
      /\ client[c].stage = "clear" => client[c] \in Clears
      /\ client[c].stage = "link" => client[c] \in Linkers
  BY Acting DEF UpdateEntry, SetPublishState, ClearLinks, ReplaceLinks, LinksFail,
                RequestsInv, Writes, Clears, Linkers
<1>2. Writer(c, e) /\ born[e] # "none" /\ \A d \in EntryIds : d # e => ~Writer(c, d)
  BY <1>1 DEF Writer, LinkInv
<1>3. UNCHANGED born /\ disturbed \subseteq disturbed'
  <2>1. CASE UpdateEntry(c) \/ SetPublishState(c)
    BY <2>1 DEF UpdateEntry, SetPublishState
  <2>2. CASE ClearLinks(c) \/ ReplaceLinks(c) \/ LinksFail(c)
    BY <2>2 DEF ClearLinks, ReplaceLinks, LinksFail, stored
  <2> QED BY <2>1, <2>2
<1>4. ASSUME NEW r, client' = [client EXCEPT ![c] = r],
             r.stage \in {"write", "clear", "link"} => r.entry = e,
             \A d \in EntryIds : d # e => row'[d] = row[d] /\ links'[d] = links[d] /\ shown'[d] = shown[d],
             e \notin disturbed' /\ row'[e].version > 0 => FollowingNext(e)
      PROVE  LinkInv'
  BY <1>1, <1>2, <1>3, <1>4, OneEntry DEF RequestsInv
(* Whose entry nobody else writes.                                         *)
<1>5. ASSUME NEW r, client' = [client EXCEPT ![c] = r],
             r.stage \in {"write", "clear", "link"} => r.entry = e,
             e \notin disturbed', Exists(e)
      PROVE  /\ Following(e) /\ row[e] \in Rows
             /\ \A b \in Clients : Writer(b, e) <=> b = c
             /\ \A b \in Clients : Writer(b, e)' <=> b = c /\ r.stage \in {"write", "clear", "link"}
             /\ client'[c] = r
  <2>1. Following(e) /\ row[e] \in Rows
    BY <1>1, <1>3, <1>5 DEF LinkInv, RequestsInv, RequestsForm, Exists, NoRow
  <2>2. \A b \in Clients : Writer(b, e) <=> b = c
    BY <1>2, <2>1 DEF Following
  <2>3. client'[c] = r /\ \A b \in Clients : b # c => client'[b] = client[b]
    BY <1>5 DEF RequestsInv, RequestsForm
  <2>4. \A b \in Clients : Writer(b, e)' <=> b = c /\ r.stage \in {"write", "clear", "link"}
    BY <1>5, <2>2, <2>3 DEF Writer
  <2> QED BY <2>1, <2>2, <2>3, <2>4
<1>6. ASSUME Refuse(c), UNCHANGED <<row, links, shown>>,
             client[c].stage = "write" \/ ~Exists(e) \/ e \in disturbed'
      PROVE  LinkInv'
  <2>1. PICK r : client' = [client EXCEPT ![c] = r] /\ r.stage = "answered"
    BY <1>1, <1>6, AnswerIsOne DEF Refuse, RequestsInv
  <2>2. ASSUME e \notin disturbed', row'[e].version > 0 PROVE FollowingNext(e)
    <3>1. client[c].stage = "write" /\ Exists(e)
      BY <1>6, <2>2 DEF Exists
    <3>2. /\ Following(e) /\ \A b \in Clients : Writer(b, e) <=> b = c
          /\ \A b \in Clients : ~Writer(b, e)'
      BY <1>5, <2>1, <2>2, <3>1
    <3> QED BY <1>6, <3>1, <3>2 DEF Following, FollowingNext
  <2> QED BY <1>4, <1>6, <2>1, <2>2
<1>7. CASE UpdateEntry(c)
  <2>1. CASE ~Unmoved(c)
    BY <1>6, <1>7, <2>1 DEF UpdateEntry
  <2>2. CASE Unmoved(c)
    <3> DEFINE r == [stage |-> "clear", op |-> "update", entry |-> e, payload |-> client[c].payload,
                     answer |-> "none", version |-> client[c].version + 1, table |-> "media"]
    <3>1. /\ row' = [row EXCEPT ![e].version = @ + 1, ![e].payload = client[c].payload]
          /\ client' = [client EXCEPT ![c] = r]
          /\ UNCHANGED <<links, shown, disturbed>>
      BY <1>7, <2>2 DEF UpdateEntry
    <3>2. r.stage = "clear" /\ r.entry = e /\ r.payload = client[c].payload /\ r.table = "media"
      OBVIOUS
    <3> HIDE DEF r
    <3>3. \A d \in EntryIds : d # e => row'[d] = row[d] /\ links'[d] = links[d] /\ shown'[d] = shown[d]
      BY <1>1, <3>1 DEF RequestsInv, RequestsForm
    <3>4. Exists(e)
      BY <1>1, <1>7, <2>2 DEF UpdateEntry, Unmoved, Exists, Writes
    <3>5. ASSUME e \notin disturbed' PROVE FollowingNext(e)
      <4>1. /\ Following(e) /\ row[e] \in Rows /\ client'[c] = r
            /\ \A b \in Clients : Writer(b, e)' <=> b = c
        BY <1>5, <3>1, <3>2, <3>4, <3>5
      <4>2. /\ row'[e].published = row[e].published /\ row'[e].snapshot = row[e].snapshot
            /\ row'[e].payload = client[c].payload
        BY <1>1, <3>1, <4>1 DEF RequestsInv, RequestsForm, Rows
      <4>3. row'[e].published => \A l \in Links : Of(shown'[e][l]) = {row'[e].snapshot}
        BY <3>1, <4>1, <4>2 DEF Following
      <4> QED BY <3>2, <4>1, <4>2, <4>3 DEF FollowingNext
    <3> QED BY <1>4, <3>1, <3>2, <3>3, <3>5
  <2> QED BY <2>1, <2>2
<1>8. CASE SetPublishState(c)
  <2> DEFINE goes == client[c].op = "publish"
  <2>1. client[c].stage = "write" /\ UNCHANGED <<links, disturbed>>
    BY <1>8 DEF SetPublishState
  <2>2. CASE Refuse(c) /\ UNCHANGED <<row, shown>>
    BY <1>6, <2>1, <2>2
  <2>3. CASE /\ Unmoved(c)
             /\ row' = [row EXCEPT ![e].version = @ + 1, ![e].published = goes,
                               ![e].snapshot = IF goes THEN row[e].payload ELSE @]
             /\ shown' = IF goes THEN [shown EXCEPT ![e] = links[e]] ELSE shown
             /\ Answer(c, e)
    <3>1. PICK r : client' = [client EXCEPT ![c] = r] /\ r.stage = "answered"
      BY <2>1, <2>3, AnswerIsOne DEF RequestsInv
    <3>2. Exists(e)
      BY <1>1, <2>1, <2>3 DEF Unmoved, Exists, Writes
    <3>3. \A d \in EntryIds : d # e => row'[d] = row[d] /\ links'[d] = links[d] /\ shown'[d] = shown[d]
      BY <1>1, <2>1, <2>3 DEF RequestsInv, RequestsForm, LinkTables
    <3>4. ASSUME e \notin disturbed' PROVE FollowingNext(e)
      <4>1. /\ Following(e) /\ row[e] \in Rows
            /\ \A b \in Clients : Writer(b, e) <=> b = c
            /\ \A b \in Clients : ~Writer(b, e)'
        BY <1>5, <3>1, <3>2, <3>4
      <4>2. \A l \in Links : Of(links[e][l]) = {row[e].payload}
        BY <2>1, <4>1 DEF Following
      <4>3. /\ row'[e].payload = row[e].payload /\ row'[e].published = goes
            /\ row'[e].snapshot = IF goes THEN row[e].payload ELSE row[e].snapshot
        BY <1>1, <2>3, <4>1 DEF RequestsInv, RequestsForm, Rows
      <4>4. shown'[e] = IF goes THEN links[e] ELSE shown[e]
        BY <1>1, <2>3 DEF RequestsInv, RequestsForm, LinkTables
      <4>5. row'[e].published => \A l \in Links : Of(shown'[e][l]) = {row'[e].snapshot}
        BY <4>2, <4>3, <4>4
      <4> QED BY <2>1, <4>1, <4>2, <4>3, <4>5 DEF FollowingNext
    <3> QED BY <1>4, <3>1, <3>3, <3>4
  <2> QED BY <1>8, <2>2, <2>3 DEF SetPublishState
<1>9. CASE ClearLinks(c)
  <2> DEFINE r == [stage |-> "link", op |-> "update", entry |-> e, payload |-> client[c].payload,
                   answer |-> "none", version |-> client[c].version, table |-> client[c].table,
                   cleared |-> links[e][client[c].table]]
  <2>1. client[c].stage = "clear" /\ client' = [client EXCEPT ![c] = r] /\ UNCHANGED stored
    BY <1>9 DEF ClearLinks, RequestsInv, RequestsForm
  <2>2. /\ r.stage = "link" /\ r.entry = e /\ r.payload = client[c].payload
        /\ r.table = client[c].table /\ r.cleared = links[e][client[c].table]
    OBVIOUS
  <2> HIDE DEF r
  <2>3. ASSUME e \notin disturbed', Exists(e) PROVE FollowingNext(e)
    <3>1. /\ Following(e) /\ client'[c] = r /\ Writer(c, e)
          /\ \A b \in Clients : Writer(b, e)' <=> b = c
      BY <1>2, <1>5, <2>1, <2>2, <2>3
    <3>2. /\ client[c].payload = row[e].payload
          /\ client[c].table = "relations" => Of(links[e]["media"]) = {row[e].payload}
          /\ row[e].published => \A l \in Links : Of(shown[e][l]) = {row[e].snapshot}
      BY <2>1, <3>1 DEF Following
    <3>3. UNCHANGED <<row, links, shown>>
      BY <2>1 DEF stored
    <3> QED BY <2>2, <3>1, <3>2, <3>3 DEF FollowingNext
  <2> QED BY <1>4, <2>1, <2>2, <2>3 DEF stored, Exists
<1>10. CASE ReplaceLinks(c)
  <2> DEFINE t == client[c].table
  <2>1. client[c].stage = "link" /\ t \in Links /\ UNCHANGED <<row, shown, disturbed>>
    BY <1>1, <1>10 DEF ReplaceLinks, Linkers
  <2>2. CASE ~Exists(e)
    BY <1>6, <1>10, <2>1, <2>2 DEF ReplaceLinks
  <2>3. CASE Exists(e)
    <3>1. links' = [links EXCEPT ![e][t] = LinkRows(c)]
      BY <1>10, <2>3 DEF ReplaceLinks
    <3>2. PICK r : /\ client' = [client EXCEPT ![c] = r]
                   /\ t = "media" => /\ r.stage = "clear" /\ r.entry = e /\ r.table = "relations"
                                     /\ r.payload = client[c].payload
                   /\ t # "media" => r.stage = "answered"
      <4>1. CASE t = "media"
        <5> DEFINE r == [stage |-> "clear", op |-> "update", entry |-> e, payload |-> client[c].payload,
                         answer |-> "none", version |-> client[c].version, table |-> "relations"]
        <5>1. client' = [client EXCEPT ![c] = r]
          BY <1>10, <2>3, <4>1 DEF ReplaceLinks, RequestsInv, RequestsForm
        <5> QED BY <4>1, <5>1
      <4>2. CASE t # "media"
        BY <1>10, <2>1, <2>3, <4>2, AnswerIsOne DEF ReplaceLinks, RequestsInv
      <4> QED BY <4>1, <4>2
    <3>3. \A d \in EntryIds : d # e => row'[d] = row[d] /\ links'[d] = links[d] /\ shown'[d] = shown[d]
      BY <1>1, <2>1, <3>1 DEF RequestsInv, RequestsForm, LinkTables
    <3>4. ASSUME e \notin disturbed' PROVE FollowingNext(e)
      <4>1. /\ Following(e) /\ client'[c] = r /\ Writer(c, e)
            /\ \A b \in Clients : Writer(b, e)' <=> b = c /\ r.stage \in {"write", "clear", "link"}
        BY <1>2, <1>5, <2>3, <3>2, <3>4
      <4>2. /\ client[c].payload = row[e].payload /\ client[c].cleared = links[e][t]
            /\ t = "relations" => Of(links[e]["media"]) = {row[e].payload}
            /\ row[e].published => \A l \in Links : Of(shown[e][l]) = {row[e].snapshot}
        BY <2>1, <4>1 DEF Following
      <4>3. LinkRows(c) = {<<client[c].payload, client[c].version>>}
        BY <4>2 DEF LinkRows
      <4>4. Of(LinkRows(c)) = {row[e].payload}
        <5>1. Of({<<client[c].payload, client[c].version>>}) = {client[c].payload}
          BY OfOne
        <5> QED BY <4>2, <4>3, <5>1
      <4>5. links'[e][t] = LinkRows(c) /\ \A l \in Links : l # t => links'[e][l] = links[e][l]
        BY <1>1, <2>1, <3>1 DEF RequestsInv, RequestsForm, LinkTables
      <4>6. CASE t = "media"
        <5>1. Of(links'[e]["media"]) = {row[e].payload}
          BY <4>4, <4>5, <4>6
        <5> QED BY <2>1, <3>2, <4>1, <4>2, <4>6, <5>1 DEF FollowingNext
      <4>7. CASE t = "relations"
        <5>1. \A l \in Links : Of(links'[e][l]) = {row[e].payload}
          BY <4>2, <4>4, <4>5, <4>7 DEF Links
        <5> QED BY <2>1, <3>2, <4>1, <4>2, <4>7, <5>1 DEF FollowingNext
      <4> QED BY <2>1, <4>6, <4>7 DEF Links
    <3> QED BY <1>4, <3>2, <3>3, <3>4
  <2> QED BY <2>2, <2>3
<1>11. CASE LinksFail(c)
  BY <1>6, <1>11 DEF LinksFail
<1> QED BY <1>7, <1>8, <1>9, <1>10, <1>11

(* An entry's links follow its payload as long as no two of its writers
   overlapped and no statement failed between its row and its links
   (content_service.go:1544).                                              *)
THEOREM LinksFollow == RequestsSpec => []LinksFollowUndisturbed
<1>1. RequestsInit => LinkInv
  BY DEF RequestsInit, LinkInv, Exists, NoRow, Writer, Resting
<1>2. RequestsInv /\ LinkInv /\ [RequestsNext]_requestVars => LinkInv'
  <2> SUFFICES ASSUME RequestsInv, LinkInv, [RequestsNext]_requestVars PROVE LinkInv'
    OBVIOUS
  <2>1. ASSUME NEW c \in Clients, ClientStep(c) PROVE LinkInv'
    <3>1. ASSUME \/ UpdateEntry(c) \/ SetPublishState(c) \/ ClearLinks(c)
                 \/ ReplaceLinks(c) \/ LinksFail(c)
          PROVE  LinkInv'
      <4>1. client[c].entry \in EntryIds
        BY <3>1, Acting DEF UpdateEntry, SetPublishState, ClearLinks, ReplaceLinks, LinksFail,
                            RequestsInv, Writes, Clears, Linkers
      <4> QED BY <3>1, <4>1, WriterFollows
    <3> QED BY <2>1, <3>1, AsideFollows, CreateFollows, ReadFollows DEF ClientStep, RequestsInv
  <2>2. CASE UNCHANGED requestVars
    <3>1. ASSUME NEW b, NEW d PROVE Writer(b, d)' <=> Writer(b, d)
      BY <2>2 DEF requestVars, Writer
    <3>2. ASSUME NEW d, Following(d) PROVE FollowingNext(d)
      BY <2>2, <3>1, <3>2, Quiet DEF requestVars
    <3>3. \A d \in EntryIds \ disturbed' : row'[d].version > 0 => FollowingNext(d)
      BY <2>2, <3>2 DEF requestVars, LinkInv, Exists
    <3>4. \A b \in Clients, d \in EntryIds : Writer(b, d)' => born'[d] # "none"
      BY <2>2, <3>1 DEF requestVars, LinkInv
    <3> QED BY <3>3, <3>4 DEF LinkInv, Exists, Following, FollowingNext
  <2> QED BY <2>1, <2>2, DeleteFollows DEF RequestsNext
<1>3. RequestsInv /\ LinkInv => LinksFollowUndisturbed
  <2> SUFFICES ASSUME RequestsInv, LinkInv, NEW e \in EntryIds \ disturbed, Exists(e), Writing(e) = {},
                      NEW l \in Links
               PROVE  /\ {r[1] : r \in links[e][l]} = {row[e].payload}
                      /\ Released(e) => {r[1] : r \in shown[e][l]} = {row[e].snapshot}
    BY DEF LinksFollowUndisturbed
  <2>1. Following(e) /\ \A c \in Clients : ~Writer(c, e)
    BY DEF LinkInv, Writing, Writer
  <2> QED BY <2>1 DEF Following, Released, Of
<1> QED BY <1>1, <1>2, <1>3, RequestsConsistent, PTL DEF RequestsSpec

(* What the runs check of requests, for every instance.                    *)
THEOREM RequestsAreSound == RequestsSpec => []RequestsSound
BY RequestsTyped, KeysAreSpentOnce, ReplaysTellTheTruth, SentBackWasRead, LinksFollow,
   PTL DEF RequestsSound

-----------------------------------------------------------------------------
(* EntryHistory.                                                           *)

Stages == {"idle", "asked", "ready", "over"}
CallForm == [stage : Stages, op : Ops \cup {"none"}, at : Nat, patch : Document, no : Nat,
            expect : Nat, saw : Nat, fields : SUBSET FieldKeys, to : Document,
            keys : SUBSET FieldKeys, dropped : SUBSET FieldKeys, firstAt : Nat,
            outcome : {"none", "success", "denied", "cancelled"}, crossed : BOOLEAN]
EntryRow == [payload : Document, version : Nat, status : {"draft", "published"},
             snapshot : Document, released : Nat, firstAt : Nat]

MemoryForm ==
  /\ entry \in EntryRow /\ entry.version # 0
  /\ entry.status = "draft" <=> entry.firstAt = 0
  /\ ticks \in Nat /\ entry.firstAt < ticks
  /\ defined \subseteq FieldKeys /\ unsure \subseteq FieldKeys
  /\ releases \subseteq PublishRevisions /\ activity \subseteq Activity
  /\ calls \in [Callers -> CallForm] /\ viewed \in [Callers -> Comparisons]
  /\ writer \in [FieldKeys -> Callers \cup {Founder}]

Succeeded(c) == calls[c].outcome = "success"
IsOpen(c) == calls[c].stage \in {"asked", "ready"}

(* The numbers of the releases that are kept, of which n is the last.      *)
Kept(n) == {m \in 1..n : m > n - MaxReleases}

ShelfIs(n) ==
  /\ {r.no : r \in releases} = Kept(n)
  /\ \A r \in releases : r.no = n =>
       /\ r.version <= entry.released
       /\ \A k \in KeysIn(entry.snapshot) : entry.snapshot[k] = r.payload[k]
  /\ n = 0 => entry.released = 0 /\ entry.snapshot = EmptyDocument

ReleasesInv ==
  /\ \E n \in Nat : ShelfIs(n)
  /\ \A r, s \in releases : /\ r.no < s.no <=> r.version < s.version
                            /\ r.no = s.no => r = s
  /\ \A r \in releases : r.version <= entry.version

(* Requests and lines are told apart by the time they began.               *)
TimesInv ==
  /\ \A l \in activity : l.at < ticks
  /\ \A l, m \in activity : l.at = m.at => l = m
  /\ \A c \in Callers : calls[c].stage # "idle" =>
       /\ calls[c].at < ticks
       /\ \A l \in activity : l.at # calls[c].at
       /\ \A d \in Callers \ {c} : calls[d].stage # "idle" => calls[d].at # calls[c].at

SaveOps == {"update", "restore"}
StatusOps == {"publish", "unpublish"}

CallOk(c) ==
  LET call == calls[c] IN
  /\ call.stage = "idle" => call = NoRequest
  /\ Succeeded(c) => call.stage = "over"
  /\ call.stage = "over" => call.outcome # "none"
  /\ call.stage = "asked" \/ call.op \notin SaveOps => call.keys = {}
  /\ call.stage = "ready" \/ Succeeded(c) => c \notin Services
  /\ call.stage # "idle" /\ call.op = "restore" => call.expect \in {0, viewed[c].version}
  /\ call.stage # "idle" => call.op \in SaveOps \cup StatusOps
  /\ call.stage = "ready" /\ call.op \in StatusOps =>
       call.firstAt < ticks /\ (call.op = "publish" => call.firstAt # 0)
-----------------------------------------------------------------------------
(* What the actions do, handler by handler.                                *)
AllButCalls == <<entry, defined, releases, saves, activity, viewed, writer, unsure>>
SetCall(c, r) == calls' = [calls EXCEPT ![c] = r] /\ UNCHANGED AllButCalls

Begun(c, r) ==
  /\ r \in CallForm /\ r.stage = "asked" /\ r.op \in SaveOps \cup StatusOps
  /\ r.at = ticks /\ r.keys = {} /\ r.outcome = "none" /\ ~r.crossed
  /\ r.op = "restore" => r.expect \in {0, viewed[c].version}

Begins(c) == /\ calls[c] = NoRequest /\ ticks' = ticks + 1
           /\ \E r : Begun(c, r) /\ SetCall(c, r)

CallEnds(c) == /\ IsOpen(c) /\ ticks' = ticks
               /\ \E o \in {"denied", "cancelled"} :
                    SetCall(c, [calls[c] EXCEPT !.stage = "over", !.outcome = o])

MayUpdate(c) ==
  /\ WritableKeys(c, Pruned(calls[c].patch, defined))
  /\ KeysIn(calls[c].patch) \subseteq defined

Prepares(c) ==
  /\ calls[c].stage = "asked" /\ calls[c].op \in SaveOps /\ c \notin Services
  /\ ~Moved(c) /\ ticks' = ticks /\ SetCall(c, Prepared(c))
  /\ calls[c].op = "update" => MayUpdate(c)
  /\ calls[c].op = "restore" => /\ \E r \in releases : r.no = calls[c].no
                                /\ MayRestore(c, Prepared(c).keys, Prepared(c).to)

FirstAt(c) == IF calls[c].op = "unpublish" THEN 0
              ELSE IF entry.firstAt = 0 THEN ticks ELSE entry.firstAt

Readies(c) ==
  /\ calls[c].stage = "asked" /\ calls[c].op \in StatusOps /\ c \notin Services
  /\ ticks' = ticks + 1
  /\ SetCall(c, [calls[c] EXCEPT !.stage = "ready", !.saw = entry.version, !.firstAt = FirstAt(c)])

CallWrites(c, ops) == /\ calls[c].stage = "ready" /\ calls[c].op \in ops
                      /\ calls[c].saw = entry.version /\ Wrote(c)
                      /\ UNCHANGED <<defined, activity, viewed, ticks>>

Saves(c) ==
  /\ CallWrites(c, SaveOps) /\ UNCHANGED releases
  /\ entry' = [entry EXCEPT !.payload = calls[c].to, !.version = @ + 1]
  /\ saves' = saves \cup {[version |-> entry.version + 1, payload |-> calls[c].to]}
  /\ writer' = [k \in FieldKeys |-> IF k \in calls[c].keys THEN c ELSE writer[k]]
  /\ unsure' = (unsure \ calls[c].keys) \cup (IF calls[c].crossed THEN calls[c].keys ELSE {})

Publishes(c) ==
  /\ CallWrites(c, {"publish"}) /\ UNCHANGED <<saves, writer, unsure>>
  /\ entry' = [entry EXCEPT !.status = "published", !.firstAt = calls[c].firstAt,
               !.snapshot = entry.payload, !.released = entry.version + 1, !.version = @ + 1]
  /\ releases' = Trimmed(releases \cup {[no |-> LastNo + 1, payload |-> entry.payload,
                                         version |-> entry.version + 1]}, LastNo + 1)

Unpublishes(c) ==
  /\ CallWrites(c, {"unpublish"}) /\ UNCHANGED <<releases, saves, writer, unsure>>
  /\ entry' = [entry EXCEPT !.status = "draft", !.firstAt = 0, !.version = @ + 1]

(* A request that the step is not about: it may have been overlapped.      *)
Same(c) ==
  /\ calls'[c].stage = calls[c].stage /\ calls'[c].op = calls[c].op
  /\ calls'[c].at = calls[c].at /\ calls'[c].no = calls[c].no
  /\ calls'[c].expect = calls[c].expect /\ calls'[c].saw = calls[c].saw
  /\ calls'[c].fields = calls[c].fields /\ calls'[c].to = calls[c].to
  /\ calls'[c].keys = calls[c].keys /\ calls'[c].dropped = calls[c].dropped
  /\ calls'[c].firstAt = calls[c].firstAt /\ calls'[c].outcome = calls[c].outcome
  /\ calls[c].crossed => calls'[c].crossed
  /\ ~IsOpen(c) => calls'[c] = calls[c]

LEMMA HistoryEffects ==
  ASSUME MemoryForm, [HistoryNext]_historyVars
  PROVE  \/ UNCHANGED historyVars
         \/ \E c \in Callers : \/ Begins(c) \/ CallEnds(c) \/ Prepares(c) \/ Readies(c)
                               \/ Saves(c) \/ Publishes(c) \/ Unpublishes(c)
                               \/ RecordActivity(c) \/ Lose(c) \/ DiffEntryRevision(c)
         \/ \E k \in FieldKeys : DeleteField(k) \/ AddField(k)
<1>0. NoRequest \in CallForm /\ EmptyDocument \in Document
  <2>1. EmptyDocument \in Document
        BY DEF EmptyDocument, Document
  <2> QED BY <2>1 DEF NoRequest, CallForm, Stages, Ops
<1>a. ASSUME NEW c \in Callers, Denied(c), IsOpen(c) PROVE CallEnds(c)
      BY <1>a DEF Denied, Over, OnlyCall, CallEnds, SetCall, AllButCalls
<1>1. ASSUME NEW c \in Callers, AskSave(c) PROVE Begins(c)
  <2>1. PICK k \in FieldKeys, v \in FieldValues :
          Ask(c, [NoRequest EXCEPT !.op = "update", !.patch = [EmptyDocument EXCEPT ![k] = v]])
        BY <1>1 DEF AskSave
  <2> DEFINE r == [[NoRequest EXCEPT !.op = "update", !.patch = [EmptyDocument EXCEPT ![k] = v]]
                     EXCEPT !.stage = "asked", !.at = ticks]
  <2>2. [EmptyDocument EXCEPT ![k] = v] \in Document
        BY <1>0 DEF Document
  <2>3. r \in CallForm /\ r.stage = "asked" /\ r.op = "update" /\ r.at = ticks
          /\ r.keys = {} /\ r.outcome = "none" /\ r.crossed = FALSE
        BY <1>0, <2>2 DEF NoRequest, CallForm, Stages, Ops, MemoryForm
  <2>4. calls[c] = NoRequest /\ ticks' = ticks + 1 /\ SetCall(c, r)
        BY <2>1 DEF Ask, SetCall, AllButCalls
  <2> HIDE DEF r
  <2> QED BY <2>3, <2>4 DEF Begins, Begun, SaveOps
<1>2. ASSUME NEW c \in Callers, AskRestore(c) PROVE Begins(c)
  <2>1. PICK no \in 1..LastNo, expect \in {0, viewed[c].version} :
          Ask(c, [NoRequest EXCEPT !.op = "restore", !.no = no, !.expect = expect])
        BY <1>2 DEF AskRestore
  <2> DEFINE r == [[NoRequest EXCEPT !.op = "restore", !.no = no, !.expect = expect]
                     EXCEPT !.stage = "asked", !.at = ticks]
  <2>2. no \in Nat /\ expect \in Nat
        BY DEF MemoryForm, Comparisons
  <2>3. r \in CallForm /\ r.stage = "asked" /\ r.op = "restore" /\ r.at = ticks /\ r.expect = expect
          /\ r.keys = {} /\ r.outcome = "none" /\ r.crossed = FALSE
        BY <1>0, <2>2 DEF NoRequest, CallForm, Stages, Ops, MemoryForm
  <2>4. calls[c] = NoRequest /\ ticks' = ticks + 1 /\ SetCall(c, r)
        BY <2>1 DEF Ask, SetCall, AllButCalls
  <2> HIDE DEF r
  <2> QED BY <2>1, <2>3, <2>4 DEF Begins, Begun, SaveOps
<1>3. ASSUME NEW c \in Callers, AskStatus(c) PROVE Begins(c)
  <2>1. PICK op \in StatusOps : Ask(c, [NoRequest EXCEPT !.op = op])
        BY <1>3 DEF AskStatus, StatusOps
  <2> DEFINE r == [[NoRequest EXCEPT !.op = op] EXCEPT !.stage = "asked", !.at = ticks]
  <2>3. r \in CallForm /\ r.stage = "asked" /\ r.op = op /\ r.at = ticks
          /\ r.keys = {} /\ r.outcome = "none" /\ r.crossed = FALSE
        BY <1>0 DEF NoRequest, CallForm, Stages, Ops, MemoryForm, StatusOps
  <2>4. calls[c] = NoRequest /\ ticks' = ticks + 1 /\ SetCall(c, r)
        BY <2>1 DEF Ask, SetCall, AllButCalls
  <2> HIDE DEF r
  <2> QED BY <2>3, <2>4 DEF Begins, Begun, StatusOps
<1>4. ASSUME NEW c \in Callers, FetchUpdate(c) \/ FetchRestore(c) PROVE CallEnds(c) \/ Prepares(c)
      BY <1>4, <1>a DEF FetchUpdate, FetchRestore, IsOpen, Prepares, SetCall, AllButCalls, OnlyCall,
                        MayUpdate, Authorized, SaveOps
<1>5. ASSUME NEW c \in Callers, FetchStatus(c) PROVE CallEnds(c) \/ Readies(c)
  <2>1. CASE ~Authorized(c, calls[c].op)
        BY <1>5, <1>a, <2>1 DEF FetchStatus, IsOpen
  <2> DEFINE status == IF calls[c].op = "publish" THEN "published" ELSE "draft"
  <2>2. CASE /\ Authorized(c, calls[c].op)
             /\ entry.status = status /\ ~HasUnpublishedChanges(entry)
        BY <1>5, <2>2 DEF FetchStatus, IsOpen, Over, OnlyCall, CallEnds, SetCall, AllButCalls
  <2>3. CASE /\ Authorized(c, calls[c].op)
             /\ ~(entry.status = status /\ ~HasUnpublishedChanges(entry))
        BY <1>5, <2>3 DEF FetchStatus, IsOpen, Over, OnlyCall, Readies, SetCall, AllButCalls,
           FirstAt, StatusOps, Authorized
  <2> QED BY <2>1, <2>2, <2>3
<1>6. ASSUME NEW c \in Callers, Invalid(c) PROVE CallEnds(c)
      BY <1>6, <1>a DEF Invalid, IsOpen
<1>7. ASSUME NEW c \in Callers, SaveEntry(c) PROVE CallEnds(c) \/ Saves(c)
  <2>1. CASE Outdated(c)
        BY <1>7, <1>a, <2>1 DEF SaveEntry, IsOpen
  <2>2. CASE ~Outdated(c)
        BY <1>7, <2>2 DEF SaveEntry, Outdated, Saves, CallWrites, SaveOps
  <2> QED BY <2>1, <2>2
<1>8. ASSUME NEW c \in Callers, SetEntryPublishState(c) PROVE CallEnds(c) \/ Publishes(c) \/ Unpublishes(c)
  <2>1. CASE Outdated(c)
        BY <1>8, <1>a, <2>1 DEF SetEntryPublishState, IsOpen
  <2>2. CASE ~Outdated(c) /\ calls[c].op = "publish"
        BY <1>8, <2>2 DEF SetEntryPublishState, Outdated, Publishes, CallWrites
  <2>3. CASE ~Outdated(c) /\ calls[c].op # "publish"
        BY <1>8, <2>3 DEF SetEntryPublishState, Outdated, Unpublishes, CallWrites
  <2> QED BY <2>1, <2>2, <2>3
<1> QED BY <1>1, <1>2, <1>3, <1>4, <1>5, <1>6, <1>7, <1>8 DEF HistoryNext, HistoryStep

LEMMA PrunedDocument ==
  ASSUME NEW d \in Document, NEW keys
  PROVE  /\ Pruned(d, keys) \in Document
         /\ \A k \in FieldKeys : Pruned(d, keys)[k] = IF k \in keys THEN d[k] ELSE Blank
BY DEF Pruned, Document

LEMMA OverlaidDocument ==
  ASSUME NEW d \in Document, NEW p \in Document
  PROVE  /\ Overlay(d, p) \in Document
         /\ \A k \in FieldKeys : Overlay(d, p)[k] = IF p[k] # Blank THEN p[k] ELSE d[k]
BY DEF Overlay, Document

(* A release is named by its number.                                       *)
LEMMA NamedRelease ==
  ASSUME ReleasesInv, NEW r \in releases
  PROVE  Revision(r.no) = r
BY DEF ReleasesInv, Revision

(* What a request has prepared, field by field.                            *)
LEMMA PreparedForm ==
  ASSUME MemoryForm, ReleasesInv, NEW c \in Callers, Prepares(c)
  PROVE  LET p == Prepared(c) IN
         /\ p \in CallForm
         /\ p.stage = "ready" /\ p.op = calls[c].op /\ p.at = calls[c].at
         /\ p.no = calls[c].no /\ p.expect = calls[c].expect
         /\ p.outcome = calls[c].outcome /\ p.crossed = calls[c].crossed
         /\ p.saw = entry.version /\ p.fields = defined /\ p.to \in Document
         /\ \A k \in FieldKeys : k \in p.keys <=>
              p.to[k] # (IF k \in defined THEN entry.payload[k] ELSE Blank)
         /\ p.op = "update" => \A k \in FieldKeys :
              p.to[k] = IF calls[c].patch[k] # Blank THEN calls[c].patch[k]
                        ELSE IF k \in defined THEN entry.payload[k] ELSE Blank
         /\ p.op = "restore" => \E r \in releases :
              /\ r.no = p.no /\ p.dropped = KeysIn(r.payload) \ defined
              /\ \A k \in FieldKeys : p.to[k] = IF k \in defined THEN r.payload[k] ELSE Blank
<1> DEFINE base == Pruned(entry.payload, defined)
           to == IF calls[c].op = "update" THEN Overlay(base, calls[c].patch)
                 ELSE Pruned(Revision(calls[c].no).payload, defined)
           keys == ChangedKeysBetween(base, to)
           dropped == IF calls[c].op = "restore"
                      THEN KeysIn(Revision(calls[c].no).payload) \ defined ELSE {}
           p == Prepared(c)
<1>1. p = [calls[c] EXCEPT !.stage = "ready", !.saw = entry.version, !.fields = defined, !.to = to,
             !.keys = keys, !.dropped = dropped]
      BY DEF Prepared
<1>2. /\ calls[c] \in CallForm /\ calls[c].patch \in Document /\ entry.payload \in Document
      /\ entry.version \in Nat
      BY DEF MemoryForm, CallForm, EntryRow
<1>3. base \in Document /\ \A k \in FieldKeys : base[k] = IF k \in defined THEN entry.payload[k] ELSE Blank
      BY <1>2, PrunedDocument
<1>4. calls[c].op = "restore" => \E r \in releases :
        /\ r.no = calls[c].no /\ r.payload \in Document /\ Revision(calls[c].no) = r
      BY NamedRelease DEF Prepares, MemoryForm, PublishRevisions
<1>5. /\ to \in Document
      /\ calls[c].op = "update" => \A k \in FieldKeys :
              to[k] = IF calls[c].patch[k] # Blank THEN calls[c].patch[k] ELSE base[k]
      /\ calls[c].op = "restore" => \E r \in releases :
              /\ r.no = calls[c].no /\ dropped = KeysIn(r.payload) \ defined
              /\ \A k \in FieldKeys : to[k] = IF k \in defined THEN r.payload[k] ELSE Blank
  <2>1. CASE calls[c].op = "update"
        BY <1>2, <1>3, <2>1, OverlaidDocument
  <2>2. CASE calls[c].op = "restore"
    <3>1. PICK r \in releases : /\ r.no = calls[c].no /\ r.payload \in Document
                                /\ Revision(calls[c].no) = r
          BY <1>4, <2>2
    <3>2. to = Pruned(r.payload, defined) /\ dropped = KeysIn(r.payload) \ defined
          BY <2>2, <3>1
    <3> QED BY <2>2, <3>1, <3>2, PrunedDocument
  <2> QED BY <2>1, <2>2 DEF Prepares, SaveOps
<1>6. keys \subseteq FieldKeys /\ \A k \in FieldKeys : k \in keys <=> to[k] # base[k]
      BY DEF ChangedKeysBetween
<1>7. dropped \subseteq FieldKeys /\ defined \subseteq FieldKeys
      BY DEF KeysIn, MemoryForm
<1> HIDE DEF to, keys, dropped, base
<1>8. /\ p.stage = "ready" /\ p.op = calls[c].op /\ p.at = calls[c].at
      /\ p.no = calls[c].no /\ p.expect = calls[c].expect
      /\ p.outcome = calls[c].outcome /\ p.crossed = calls[c].crossed
      /\ p.saw = entry.version /\ p.fields = defined /\ p.to = to /\ p.keys = keys /\ p.dropped = dropped
  <2> HIDE DEF p
  <2> QED BY <1>1, <1>2 DEF CallForm
<1>9. p \in CallForm
  <2> HIDE DEF p
  <2> QED BY <1>1, <1>2, <1>5, <1>6, <1>7 DEF CallForm, Stages
<1> HIDE DEF p
<1> QED BY <1>3, <1>5, <1>6, <1>8, <1>9 DEF p

(* Calls after the others noticed a write.                                 *)
Crossed(d) == [calls[d] EXCEPT !.crossed = @ \/ IsOpen(d)]

LEMMA WroteForm ==
  ASSUME MemoryForm, NEW c \in Callers, Wrote(c)
  PROVE  /\ calls' \in [Callers -> CallForm]
         /\ calls'[c] = [calls[c] EXCEPT !.stage = "over", !.outcome = "success"]
         /\ \A d \in Callers \ {c} :
              /\ calls'[d] \in CallForm /\ Same(d)
              /\ IsOpen(d) => calls'[d].crossed
<1> DEFINE Call(d) == IF d = c THEN [calls[c] EXCEPT !.stage = "over", !.outcome = "success"]
                      ELSE Crossed(d)
<1>0. calls' = [d \in Callers |-> Call(d)]
      BY DEF Wrote, Crossed, IsOpen
<1>00. \A d \in Callers : calls'[d] = Call(d)
  <2> HIDE DEF Call
  <2> QED BY <1>0
<1>1. /\ calls'[c] = [calls[c] EXCEPT !.stage = "over", !.outcome = "success"]
      /\ \A d \in Callers \ {c} : calls'[d] = Crossed(d)
      BY <1>00
<1>2. calls'[c] \in CallForm
  <2>1. calls[c] \in CallForm
        BY DEF MemoryForm
  <2> QED BY <1>1, <2>1 DEF CallForm, Stages
<1>3. ASSUME NEW d \in Callers \ {c}
      PROVE  /\ calls'[d] \in CallForm
             /\ Same(d)
             /\ IsOpen(d) => calls'[d].crossed
  <2> DEFINE b == calls[d].crossed \/ IsOpen(d)
  <2>1. calls'[d] = [calls[d] EXCEPT !.crossed = b] /\ calls[d] \in CallForm /\ b \in BOOLEAN
        BY <1>1 DEF Crossed, MemoryForm, CallForm, IsOpen
  <2>2. ~IsOpen(d) => b = calls[d].crossed
        BY <2>1 DEF MemoryForm, CallForm
  <2>3. IsOpen(d) => b = TRUE
        OBVIOUS
  <2>4. calls[d].crossed => b
        OBVIOUS
  <2> HIDE DEF b
  <2> QED BY <2>1, <2>2, <2>3, <2>4 DEF CallForm, Same
<1>4. \A d \in Callers : Call(d) \in CallForm
      BY <1>0, <1>2, <1>3
<1>5. calls' \in [Callers -> CallForm]
  <2> HIDE DEF Call
  <2> QED BY <1>0, <1>4
<1> QED BY <1>1, <1>3, <1>5

(* The last release is the one the shelf shows.                            *)
LEMMA LastRelease ==
  ASSUME MemoryForm, ReleasesInv, NEW n \in Nat, ShelfIs(n)
  PROVE  /\ LastNo = n
         /\ n = 0 <=> releases = {}
         /\ n # 0 => \E r \in releases : r.no = n /\ Revision(n) = r
<1> USE HistoryAssumption
<1>1. \A r \in releases : r.no \in Nat \ {0} /\ r.no \in Kept(n)
      BY DEF MemoryForm, PublishRevisions, ShelfIs
<1>2. CASE n = 0
  <2>1. releases = {}
        BY <1>1, <1>2 DEF Kept
  <2> QED BY <1>2, <2>1 DEF LastNo
<1>3. CASE n # 0
  <2>1. n \in Kept(n)
        BY <1>3 DEF Kept
  <2>2. PICK r \in releases : r.no = n
        BY <2>1 DEF ShelfIs
  <2>3. \A s \in releases : s.no \in Nat /\ s.no <= n
        BY <1>1 DEF Kept
  <2> DEFINE last == CHOOSE s \in releases : \A t \in releases : t.no <= s.no
  <2>4. last \in releases /\ \A t \in releases : t.no <= last.no
    <3>1. \A t \in releases : t.no <= r.no
          BY <2>2, <2>3
    <3> QED BY <3>1
  <2>5. last.no = n
    <3> HIDE DEF last
    <3> QED BY <2>2, <2>3, <2>4
  <2> QED BY <1>3, <2>2, <2>5, NamedRelease DEF LastNo
<1> QED BY <1>2, <1>3

(* A row that is written again is a row, field by field.                   *)
LEMMA RowForm ==
  ASSUME NEW e \in EntryRow, NEW p \in Document, NEW q \in Document,
         NEW f \in Nat, NEW n \in Nat, NEW v \in Nat, NEW s \in {"draft", "published"}
  PROVE  /\ LET w == [e EXCEPT !.payload = p, !.version = v] IN
            w \in EntryRow /\ w.status = e.status /\ w.firstAt = e.firstAt /\ w.version = v
         /\ LET w == [e EXCEPT !.status = s, !.firstAt = f, !.snapshot = q, !.released = n,
                               !.version = v] IN
            w \in EntryRow /\ w.status = s /\ w.firstAt = f /\ w.version = v
         /\ LET w == [e EXCEPT !.status = s, !.firstAt = f, !.version = v] IN
            w \in EntryRow /\ w.status = s /\ w.firstAt = f /\ w.version = v
BY DEF EntryRow

LEMMA MemoryFormStep ==
  ASSUME MemoryForm, ReleasesInv, \A c \in Callers : CallOk(c), [HistoryNext]_historyVars
  PROVE  MemoryForm'
<1> USE DEF MemoryForm
<1> DEFINE AsItWas == UNCHANGED <<entry, defined, releases, activity, viewed, writer, unsure>>
<1>0. CASE UNCHANGED historyVars
      BY <1>0 DEF historyVars
<1>1. ASSUME NEW c \in Callers, Begins(c) PROVE MemoryForm'
  <2>1. calls' \in [Callers -> CallForm]
        BY <1>1 DEF Begins, Begun, SetCall
  <2>2. AsItWas /\ ticks' = ticks + 1
        BY <1>1 DEF Begins, SetCall, AllButCalls
  <2>3. ticks' \in Nat /\ entry.firstAt < ticks'
        BY <2>2 DEF EntryRow
  <2> QED BY <2>1, <2>2, <2>3
<1>2. ASSUME NEW c \in Callers, CallEnds(c) PROVE MemoryForm'
  <2>1. PICK o \in {"denied", "cancelled"} :
          SetCall(c, [calls[c] EXCEPT !.stage = "over", !.outcome = o])
        BY <1>2 DEF CallEnds
  <2>2. calls[c] \in CallForm
        OBVIOUS
  <2>3. [calls[c] EXCEPT !.stage = "over", !.outcome = o] \in CallForm
        BY <2>2 DEF CallForm, Stages
  <2> QED BY <1>2, <2>1, <2>3 DEF CallEnds, SetCall, AllButCalls
<1>3. ASSUME NEW c \in Callers, Prepares(c) PROVE MemoryForm'
  <2>1. Prepared(c) \in CallForm
        BY <1>3, PreparedForm
  <2> QED BY <1>3, <2>1 DEF Prepares, SetCall, AllButCalls
<1>4. ASSUME NEW c \in Callers, Readies(c) PROVE MemoryForm'
  <2> DEFINE r == [calls[c] EXCEPT !.stage = "ready", !.saw = entry.version, !.firstAt = FirstAt(c)]
  <2>1. calls[c] \in CallForm /\ FirstAt(c) \in Nat /\ entry.version \in Nat
        BY DEF FirstAt, EntryRow
  <2>2. r \in CallForm
    <3> HIDE <1>4
    <3> QED BY <2>1 DEF CallForm, Stages
  <2>3. AsItWas /\ ticks' = ticks + 1 /\ calls' = [calls EXCEPT ![c] = r]
        BY <1>4 DEF Readies, SetCall, AllButCalls
  <2> HIDE DEF r
  <2>4. calls' \in [Callers -> CallForm]
        BY <2>2, <2>3
  <2>5. ticks' \in Nat /\ entry.firstAt < ticks'
        BY <2>3 DEF EntryRow
  <2> QED BY <2>3, <2>4, <2>5
<1>5. ASSUME NEW c \in Callers, Saves(c) PROVE MemoryForm'
  <2>1. calls' \in [Callers -> CallForm]
        BY <1>5, WroteForm DEF Saves, CallWrites
  <2>2. calls[c].to \in Document /\ entry.version \in Nat
        BY DEF CallForm, EntryRow
  <2>3. entry' \in EntryRow /\ entry'.version # 0 /\ entry'.status = entry.status
          /\ entry'.firstAt = entry.firstAt
    <3>1. entry \in EntryRow /\ entry.version + 1 \in Nat /\ entry.version + 1 # 0
          BY DEF EntryRow
    <3> DEFINE v == entry.version + 1
    <3> HIDE DEF v
    <3>2. entry' = [entry EXCEPT !.payload = calls[c].to, !.version = v]
          BY <1>5 DEF Saves, v
    <3>3. v \in Nat /\ v # 0
          BY <3>1 DEF v
    <3> HIDE DEF MemoryForm
    <3> QED BY <2>2, <3>1, <3>2, <3>3, RowForm DEF EntryRow
  <2>4. writer' \in [FieldKeys -> Callers \cup {Founder}]
        BY <1>5 DEF Saves
  <2>5. unsure' \subseteq FieldKeys
        BY <1>5 DEF Saves, CallForm
  <2> QED BY <1>5, <2>1, <2>3, <2>4, <2>5 DEF Saves, CallWrites
<1>6. ASSUME NEW c \in Callers, Publishes(c) PROVE MemoryForm'
  <2>1. calls' \in [Callers -> CallForm]
        BY <1>6, WroteForm DEF Publishes, CallWrites
  <2>2. calls[c].firstAt \in Nat /\ calls[c].firstAt # 0 /\ calls[c].firstAt < ticks
        BY <1>6 DEF Publishes, CallWrites, CallOk, StatusOps, CallForm
  <2>3. entry' \in EntryRow /\ entry'.version # 0 /\ entry'.status = "published"
          /\ entry'.firstAt = calls[c].firstAt
    <3>1. entry \in EntryRow /\ entry.version + 1 \in Nat /\ entry.version + 1 # 0
          BY DEF EntryRow
    <3> DEFINE v == entry.version + 1
    <3> HIDE DEF v
    <3>2. entry' = [entry EXCEPT !.status = "published", !.firstAt = calls[c].firstAt,
               !.snapshot = entry.payload, !.released = entry.version + 1, !.version = v]
          BY <1>6 DEF Publishes, v
    <3>3. v \in Nat /\ v # 0
          BY <3>1 DEF v
    <3> HIDE DEF MemoryForm
    <3> QED BY <2>2, <3>1, <3>2, <3>3, RowForm DEF EntryRow
  <2>4. PICK n \in Nat : ShelfIs(n)
        BY DEF ReleasesInv
  <2>5. LastNo + 1 \in Nat \ {0} /\ entry.payload \in Document /\ entry.version + 1 \in Nat
        BY <2>4, LastRelease DEF EntryRow
  <2>6. releases' \subseteq PublishRevisions
        BY <1>6, <2>5 DEF Publishes, Trimmed, PublishRevisions
  <2> QED BY <1>6, <2>1, <2>2, <2>3, <2>6 DEF Publishes, CallWrites
<1>7. ASSUME NEW c \in Callers, Unpublishes(c) PROVE MemoryForm'
  <2>1. calls' \in [Callers -> CallForm]
        BY <1>7, WroteForm DEF Unpublishes, CallWrites
  <2>3. entry' \in EntryRow /\ entry'.version # 0 /\ entry'.status = "draft" /\ entry'.firstAt = 0
    <3>1. entry \in EntryRow /\ entry.version + 1 \in Nat /\ entry.version + 1 # 0
          BY DEF EntryRow
    <3> DEFINE v == entry.version + 1
    <3> HIDE DEF v
    <3>2. entry' = [entry EXCEPT !.status = "draft", !.firstAt = 0, !.version = v]
          BY <1>7 DEF Unpublishes, v
    <3>3. v \in Nat /\ v # 0
          BY <3>1 DEF v
    <3> HIDE DEF MemoryForm
    <3> QED BY <3>1, <3>2, <3>3, RowForm DEF EntryRow
  <2>4. 0 < ticks
        BY DEF EntryRow
  <2> QED BY <1>7, <2>1, <2>3, <2>4 DEF Unpublishes, CallWrites
<1>8. ASSUME NEW c \in Callers, RecordActivity(c) PROVE MemoryForm'
  <2>1. calls' \in [Callers -> CallForm]
    <3>1. EmptyDocument \in Document
          BY DEF EmptyDocument, Document
    <3>2. NoRequest \in CallForm
          BY <3>1 DEF NoRequest, CallForm, Stages, Ops
    <3> QED BY <1>8, <3>2 DEF RecordActivity
  <2>2. ShouldRecord(c) => Line(c) \in Activity
    <3> SUFFICES ASSUME ShouldRecord(c) PROVE Line(c) \in Activity
        OBVIOUS
    <3>1. calls[c] \in CallForm
          OBVIOUS
    <3> DEFINE keys == IF calls[c].outcome = "denied" THEN {} ELSE calls[c].keys
               dropped == IF calls[c].outcome = "denied" THEN {} ELSE calls[c].dropped
    <3>2. keys \subseteq FieldKeys /\ dropped \subseteq FieldKeys
          BY <3>1 DEF CallForm
    <3>3. calls[c].op \in Ops /\ calls[c].outcome \in {"success", "denied"} /\ calls[c].at \in Nat
      <4>1. calls[c].op \in SaveOps \cup StatusOps
            BY <1>8 DEF RecordActivity, CallOk
      <4>2. calls[c].outcome # "none"
            BY <1>8 DEF RecordActivity, CallOk
      <4> QED BY <3>1, <4>1, <4>2 DEF ShouldRecord, CallForm, SaveOps, StatusOps, Ops
    <3> HIDE DEF keys, dropped
    <3> QED BY <3>2, <3>3 DEF Line, Activity, keys, dropped
  <2> QED BY <1>8, <2>1, <2>2 DEF RecordActivity
<1>9. ASSUME NEW c \in Callers, Lose(c) PROVE MemoryForm'
  <2>1. calls' \in [Callers -> CallForm]
    <3>1. EmptyDocument \in Document
          BY DEF EmptyDocument, Document
    <3>2. NoRequest \in CallForm
          BY <3>1 DEF NoRequest, CallForm, Stages, Ops
    <3> QED BY <1>9, <3>2 DEF Lose
  <2>2. unsure' \subseteq FieldKeys
        BY <1>9 DEF Lose, CallForm
  <2> QED BY <1>9, <2>1, <2>2 DEF Lose
<1>10. ASSUME NEW c \in Callers, DiffEntryRevision(c) PROVE MemoryForm'
  <2> DEFINE hidden == UnreadableKeys(c) \cap defined
             cur == Pruned(entry.payload, defined)
             view(r) == [version |-> entry.version, no |-> r.no, fields |-> defined,
                         keys |-> VisibleKeys(ChangedKeysBetween(cur, Compared(r.payload)), hidden),
                         hidden |-> \E k \in hidden : cur[k] # Compared(r.payload)[k],
                         dropped |-> KeysIn(r.payload) \ defined]
  <2>1. PICK r \in releases : viewed' = [viewed EXCEPT ![c] = view(r)]
        BY <1>10 DEF DiffEntryRevision
  <2> DEFINE h == \E k \in hidden : cur[k] # Compared(r.payload)[k]
  <2>2. h \in BOOLEAN
        OBVIOUS
  <2> HIDE DEF h, cur, hidden
  <2>3. VisibleKeys(ChangedKeysBetween(cur, Compared(r.payload)), hidden) \subseteq FieldKeys
        BY DEF VisibleKeys, ChangedKeysBetween
  <2>4. KeysIn(r.payload) \ defined \subseteq FieldKeys
        BY DEF KeysIn
  <2>5. entry.version \in Nat /\ r.no \in Nat
        BY DEF EntryRow, PublishRevisions
  <2>6. view(r) \in Comparisons
        BY <2>2, <2>3, <2>4, <2>5 DEF Comparisons, h
  <2> HIDE DEF view
  <2>7. viewed' \in [Callers -> Comparisons]
        BY <2>1, <2>6
  <2> QED BY <1>10, <2>7 DEF DiffEntryRevision
<1>11. ASSUME NEW k \in FieldKeys, DeleteField(k) PROVE MemoryForm'
  <2> DEFINE Call(d) == [calls[d] EXCEPT !.crossed = @ \/ calls[d].stage \in {"asked", "ready"}]
  <2>1. calls' = [d \in Callers |-> Call(d)]
        BY <1>11 DEF DeleteField
  <2>2. ASSUME NEW d \in Callers PROVE Call(d) \in CallForm
    <3> DEFINE b == calls[d].crossed \/ calls[d].stage \in {"asked", "ready"}
    <3>1. calls[d] \in CallForm /\ b \in BOOLEAN
          BY DEF CallForm
    <3> HIDE DEF b
    <3>2. [calls[d] EXCEPT !.crossed = b] \in CallForm
          BY <3>1 DEF CallForm
    <3> QED BY <3>2 DEF b
  <2> HIDE DEF Call
  <2>3. calls' \in [Callers -> CallForm]
        BY <2>1, <2>2
  <2>4. /\ [entry.payload EXCEPT ![k] = Blank] \in Document
        /\ [entry.snapshot EXCEPT ![k] = Blank] \in Document
        BY DEF EntryRow, Document
  <2>5. entry' \in EntryRow /\ entry'.version # 0 /\ entry'.status = entry.status
          /\ entry'.firstAt = entry.firstAt
    <3>1. PICK p, q \in {0, 1} :
            entry' = [entry EXCEPT !.payload = [entry.payload EXCEPT ![k] = Blank],
                                   !.snapshot = [entry.snapshot EXCEPT ![k] = Blank],
                                   !.version = entry.version + p, !.released = entry.released + q]
          BY <1>11 DEF DeleteField
    <3> DEFINE v == entry.version + p
               n == entry.released + q
    <3>2. v \in Nat /\ v # 0 /\ n \in Nat /\ entry \in EntryRow
          BY DEF EntryRow
    <3> HIDE DEF v, n
    <3>3. entry' = [entry EXCEPT !.payload = [entry.payload EXCEPT ![k] = Blank],
                                 !.snapshot = [entry.snapshot EXCEPT ![k] = Blank],
                                 !.version = v, !.released = n]
          BY <3>1 DEF v, n
    <3> HIDE DEF MemoryForm
    <3> DEFINE p1 == [entry.payload EXCEPT ![k] = Blank]
               q1 == [entry.snapshot EXCEPT ![k] = Blank]
    <3>4. entry' = [entry EXCEPT !.payload = p1, !.snapshot = q1, !.version = v, !.released = n]
          BY <3>3
    <3>5. p1 \in Document /\ q1 \in Document
          BY <2>4
    <3> HIDE DEF p1, q1
    <3>6. entry' \in EntryRow /\ entry'.status = entry.status /\ entry'.firstAt = entry.firstAt
            /\ entry'.version = v
          BY <3>2, <3>4, <3>5 DEF EntryRow
    <3> QED BY <3>2, <3>6
  <2> QED BY <1>11, <2>3, <2>5 DEF DeleteField
<1>12. ASSUME NEW k \in FieldKeys, AddField(k) PROVE MemoryForm'
       BY <1>12 DEF AddField
<1> QED BY <1>0, <1>1, <1>2, <1>3, <1>4, <1>5, <1>6, <1>7, <1>8, <1>9, <1>10, <1>11, <1>12,
           HistoryEffects

-----------------------------------------------------------------------------
Acts(c) == \/ Begins(c) \/ CallEnds(c) \/ Prepares(c) \/ Readies(c)
           \/ Saves(c) \/ Publishes(c) \/ Unpublishes(c) \/ RecordActivity(c) \/ Lose(c)

(* A write that is not the request's own overlaps it if it is under way.   *)
StandsBy(c) ==
  /\ Same(c)
  /\ \/ UNCHANGED <<entry, defined>> \/ IsOpen(c) => calls'[c].crossed
     \/ UNCHANGED entry /\ defined \subseteq defined'
  /\ viewed'[c] = viewed[c] \/ DiffEntryRevision(c)

(* What DeleteField does to a request.                                     *)
LEMMA CrossedForm ==
  ASSUME MemoryForm, NEW k \in FieldKeys, DeleteField(k), NEW c \in Callers
  PROVE  StandsBy(c)
<1> DEFINE Call(d) == [calls[d] EXCEPT !.crossed = @ \/ calls[d].stage \in {"asked", "ready"}]
<1>1. calls' = [d \in Callers |-> Call(d)]
      BY DEF DeleteField
<1>2. calls'[c] = Call(c)
  <2> HIDE DEF Call
  <2> QED BY <1>1
<1> DEFINE b == calls[c].crossed \/ IsOpen(c)
<1>3. calls'[c] = [calls[c] EXCEPT !.crossed = b] /\ calls[c] \in CallForm /\ b \in BOOLEAN
      BY <1>2 DEF MemoryForm, CallForm, IsOpen
<1>4. ~IsOpen(c) => b = calls[c].crossed
      BY <1>3 DEF CallForm
<1>5. (IsOpen(c) => b) /\ (calls[c].crossed => b)
      OBVIOUS
<1> HIDE DEF b
<1>6. Same(c) /\ (IsOpen(c) => calls'[c].crossed)
      BY <1>3, <1>4, <1>5 DEF Same, CallForm
<1>7. viewed' = viewed
      BY DEF DeleteField
<1> QED BY <1>6, <1>7 DEF StandsBy

LEMMA CallStep ==
  ASSUME MemoryForm, [HistoryNext]_historyVars, NEW c \in Callers
  PROVE  Acts(c) \/ StandsBy(c)
<1> DEFINE Still == UNCHANGED <<entry, defined>>
<1>a. ASSUME calls'[c] = calls[c] PROVE Same(c)
      BY <1>a DEF Same
<1>1. CASE UNCHANGED historyVars
      BY <1>1, <1>a DEF historyVars, StandsBy
<1>2. ASSUME NEW d \in Callers \ {c}, Begins(d) \/ CallEnds(d) \/ Prepares(d) \/ Readies(d)
      PROVE  StandsBy(c)
  <2>1. calls'[c] = calls[c] /\ UNCHANGED <<entry, defined, viewed>>
        BY <1>2 DEF Begins, CallEnds, Prepares, Readies, SetCall, AllButCalls, MemoryForm
  <2> QED BY <2>1, <1>a DEF StandsBy
<1>3. ASSUME NEW d \in Callers \ {c}, Saves(d) \/ Publishes(d) \/ Unpublishes(d)
      PROVE  StandsBy(c)
  <2>1. Wrote(d) /\ UNCHANGED viewed
        BY <1>3 DEF Saves, Publishes, Unpublishes, CallWrites
  <2>2. IsOpen(c) => calls'[c].crossed
        BY <2>1, WroteForm
  <2>3. Same(c)
        BY <2>1, WroteForm
  <2> QED BY <2>1, <2>2, <2>3 DEF StandsBy
<1>4. ASSUME NEW d \in Callers \ {c}, RecordActivity(d) \/ Lose(d) PROVE StandsBy(c)
  <2>1. calls'[c] = calls[c] /\ UNCHANGED <<entry, defined, viewed>>
        BY <1>4 DEF RecordActivity, Lose, MemoryForm
  <2> QED BY <2>1, <1>a DEF StandsBy
<1>5. ASSUME NEW d \in Callers, DiffEntryRevision(d) PROVE StandsBy(c)
  <2>1. calls'[c] = calls[c] /\ UNCHANGED <<entry, defined>>
        BY <1>5 DEF DiffEntryRevision
  <2>2. d # c => viewed'[c] = viewed[c]
        BY <1>5 DEF DiffEntryRevision, MemoryForm
  <2> QED BY <1>5, <2>1, <2>2, <1>a DEF StandsBy
<1>6. ASSUME NEW k \in FieldKeys, DeleteField(k) \/ AddField(k) PROVE StandsBy(c)
  <2>1. CASE AddField(k)
        BY <2>1, <1>a DEF AddField, StandsBy
  <2> QED BY <1>6, <2>1, CrossedForm
<1> QED BY <1>1, <1>2, <1>3, <1>4, <1>5, <1>6, HistoryEffects DEF Acts

(* The clock and the version only grow, and a version names one payload.   *)
LEMMA VersionStep ==
  ASSUME MemoryForm, [HistoryNext]_historyVars
  PROVE  /\ ticks' >= ticks /\ entry'.version >= entry.version
         /\ entry'.version = entry.version =>
              /\ entry'.payload = entry.payload /\ releases' = releases
              /\ unsure \subseteq unsure'
<1> USE DEF MemoryForm
<1>0. ticks \in Nat /\ entry.version \in Nat /\ entry.payload \in Document
      BY DEF EntryRow
<1>1. CASE UNCHANGED historyVars
      BY <1>0, <1>1 DEF historyVars
<1>2. ASSUME NEW c \in Callers, Begins(c) \/ CallEnds(c) \/ Prepares(c) \/ Readies(c) PROVE ticks' >= ticks /\ UNCHANGED AllButCalls
      BY <1>0, <1>2 DEF Begins, CallEnds, Prepares, Readies, SetCall
<1>3. ASSUME NEW c \in Callers, Saves(c) \/ Publishes(c) \/ Unpublishes(c)
      PROVE  ticks' = ticks /\ entry'.version = entry.version + 1
      BY <1>3 DEF Saves, Publishes, Unpublishes, CallWrites, EntryRow
<1>4. ASSUME NEW c \in Callers, RecordActivity(c) \/ Lose(c) \/ DiffEntryRevision(c)
      PROVE  UNCHANGED <<entry, releases, ticks>> /\ unsure \subseteq unsure'
      BY <1>4 DEF RecordActivity, Lose, DiffEntryRevision
<1>5. ASSUME NEW k \in FieldKeys, AddField(k)
      PROVE  UNCHANGED <<entry, releases, ticks, unsure>>
      BY <1>5 DEF AddField
<1>6. ASSUME NEW k \in FieldKeys, DeleteField(k)
      PROVE  /\ UNCHANGED <<releases, ticks, unsure>>
             /\ entry'.version >= entry.version
             /\ entry'.version = entry.version => entry'.payload = entry.payload
  <2>1. entry'.payload = [entry.payload EXCEPT ![k] = Blank]
        BY <1>6 DEF DeleteField, EntryRow
  <2>2. entry'.version = entry.version + (IF entry.payload[k] # Blank THEN 1 ELSE 0)
        BY <1>6 DEF DeleteField, EntryRow
  <2>3. UNCHANGED <<releases, ticks, unsure>>
        BY <1>6 DEF DeleteField
  <2>4. CASE entry.payload[k] # Blank
        BY <1>0, <2>2, <2>3, <2>4
  <2>5. CASE entry.payload[k] = Blank
    <3>1. entry'.payload = entry.payload
          BY <1>0, <2>1, <2>5 DEF Document
    <3> QED BY <1>0, <2>2, <2>3, <2>5, <3>1
  <2> QED BY <2>4, <2>5
<1> QED BY <1>0, <1>1, <1>2, <1>3, <1>4, <1>5, <1>6, HistoryEffects DEF AllButCalls

-----------------------------------------------------------------------------
(* What an action makes of its own request.                                *)
Forgotten(c) == calls'[c] = NoRequest
Done(c, o) == calls'[c] = [calls[c] EXCEPT !.stage = "over", !.outcome = o]

LEMMA ActorForm ==
  ASSUME MemoryForm, NEW c \in Callers
  PROVE  /\ Begins(c) => \E r : Begun(c, r) /\ calls'[c] = r
         /\ CallEnds(c) => Done(c, "denied") \/ Done(c, "cancelled")
         /\ Prepares(c) => calls'[c] = Prepared(c)
         /\ Readies(c) => calls'[c] = [calls[c] EXCEPT !.stage = "ready", !.saw = entry.version,
                                                       !.firstAt = FirstAt(c)]
         /\ Saves(c) \/ Publishes(c) \/ Unpublishes(c) => Done(c, "success")
         /\ RecordActivity(c) \/ Lose(c) => Forgotten(c)
         /\ Acts(c) => viewed' = viewed
<1> USE DEF MemoryForm
<1>1. Begins(c) => \E r : Begun(c, r) /\ calls'[c] = r
      BY DEF Begins, SetCall
<1>2. CallEnds(c) => Done(c, "denied") \/ Done(c, "cancelled")
  <2> SUFFICES ASSUME CallEnds(c) PROVE Done(c, "denied") \/ Done(c, "cancelled")
      OBVIOUS
  <2>1. PICK o \in {"denied", "cancelled"} :
          calls' = [calls EXCEPT ![c] = [calls[c] EXCEPT !.stage = "over", !.outcome = o]]
        BY DEF CallEnds, SetCall
  <2>2. Done(c, o)
        BY <2>1 DEF Done
  <2> QED BY <2>2
<1>3. Prepares(c) => calls'[c] = Prepared(c)
      BY DEF Prepares, SetCall
<1>4. Readies(c) => calls'[c] = [calls[c] EXCEPT !.stage = "ready", !.saw = entry.version,
                                                 !.firstAt = FirstAt(c)]
      BY DEF Readies, SetCall
<1>5. Saves(c) \/ Publishes(c) \/ Unpublishes(c) => Done(c, "success")
      BY WroteForm DEF Saves, Publishes, Unpublishes, CallWrites, Done
<1>6. RecordActivity(c) \/ Lose(c) => Forgotten(c)
      BY DEF RecordActivity, Lose, Forgotten
<1>7. Acts(c) => viewed' = viewed
      BY DEF Acts, Begins, CallEnds, Prepares, Readies, SetCall, AllButCalls, Saves, Publishes, Unpublishes,
             CallWrites, RecordActivity, Lose
<1> QED BY <1>1, <1>2, <1>3, <1>4, <1>5, <1>6, <1>7

LEMMA CallOkStep ==
  ASSUME MemoryForm, ReleasesInv, [HistoryNext]_historyVars, NEW c \in Callers, CallOk(c)
  PROVE  CallOk(c)'
<1> DEFINE call == calls[c]
<1>0. /\ call \in CallForm /\ entry \in EntryRow /\ ticks \in Nat /\ entry.firstAt < ticks
      /\ ticks' >= ticks /\ ticks' \in Int
  <2>1. MemoryForm' \/ UNCHANGED ticks \/ ticks' = ticks + 1
        BY HistoryEffects DEF historyVars, Begins, CallEnds, Prepares, Readies, Saves, Publishes,
           Unpublishes, CallWrites, RecordActivity, Lose, DiffEntryRevision, DeleteField, AddField
  <2> QED BY <2>1, VersionStep DEF MemoryForm
<1>1. CASE StandsBy(c)
  <2>1. CASE viewed'[c] = viewed[c]
        BY <1>0, <1>1, <2>1 DEF StandsBy, Same, CallOk, Succeeded, IsOpen, CallForm
  <2>2. CASE DiffEntryRevision(c)
    <3>1. calls'[c] = NoRequest
          BY <2>2 DEF DiffEntryRevision
    <3> QED BY <3>1 DEF CallOk, NoRequest, Succeeded, SaveOps, StatusOps
  <2> QED BY <1>1, <2>1, <2>2 DEF StandsBy
<1>2. CASE Acts(c)
  <2> viewed'[c] = viewed[c]
      BY <1>2, ActorForm
  <2>1. CASE Begins(c)
    <3>1. PICK r : Begun(c, r) /\ calls'[c] = r
          BY <2>1, ActorForm
    <3> QED BY <3>1 DEF Begun, CallOk, Succeeded
  <2>2. CASE CallEnds(c)
    <3>1. PICK o \in {"denied", "cancelled"} : Done(c, o)
          BY <2>2, ActorForm
    <3>2. IsOpen(c)
          BY <2>2 DEF CallEnds
    <3> QED BY <1>0, <3>1, <3>2 DEF Done, CallOk, Succeeded, CallForm, IsOpen
  <2>3. CASE Prepares(c)
    <3>1. calls'[c] = Prepared(c)
          BY <2>3, ActorForm
    <3>2. LET p == Prepared(c) IN
          /\ p.stage = "ready" /\ p.op = calls[c].op /\ p.expect = calls[c].expect
          /\ p.outcome = calls[c].outcome
          BY <2>3, PreparedForm
    <3> HIDE DEF call
    <3> QED BY <2>3, <3>1, <3>2 DEF CallOk, Succeeded, Prepares, SaveOps, StatusOps
  <2>4. CASE Readies(c)
    <3> DEFINE f == FirstAt(c)
    <3>1. calls'[c] = [calls[c] EXCEPT !.stage = "ready", !.saw = entry.version, !.firstAt = f]
          BY <2>4, ActorForm
    <3>2. ticks' = ticks + 1 /\ c \notin Services /\ calls[c].op \in StatusOps /\ calls[c].stage = "asked"
          BY <2>4 DEF Readies
    <3>3. f < ticks' /\ (calls[c].op = "publish" => f # 0)
      <4>1. ticks # 0
            BY <1>0 DEF EntryRow
      <4> QED BY <1>0, <3>2, <4>1 DEF FirstAt, EntryRow
    <3> HIDE DEF f
    <3> QED BY <1>0, <3>1, <3>2, <3>3 DEF CallOk, Succeeded, CallForm, SaveOps, StatusOps
  <2>5. CASE Saves(c) \/ Publishes(c) \/ Unpublishes(c)
    <3>1. Done(c, "success")
          BY <2>5, ActorForm
    <3>2. calls[c].stage = "ready"
          BY <2>5 DEF Saves, Publishes, Unpublishes, CallWrites
    <3> QED BY <1>0, <3>1, <3>2 DEF Done, CallOk, Succeeded, CallForm
  <2>6. CASE RecordActivity(c) \/ Lose(c)
    <3>1. calls'[c] = NoRequest
          BY <2>6, ActorForm DEF Forgotten
    <3> QED BY <3>1 DEF CallOk, NoRequest, Succeeded, SaveOps, StatusOps
  <2> QED BY <1>2, <2>1, <2>2, <2>3, <2>4, <2>5, <2>6 DEF Acts
<1> QED BY <1>1, <1>2, CallStep

-----------------------------------------------------------------------------
(* What is about to be written names the keys it moves, and moves none     *)
(* that its caller may not write.                                          *)
WriteOk(c) ==
  LET call == calls[c] IN
  (call.stage = "ready" /\ call.op \in SaveOps) =>
    /\ call.saw <= entry.version
    /\ call.keys \subseteq call.fields /\ KeysIn(call.to) \subseteq call.fields
    /\ \A k \in call.keys : CanWriteField(c, k)
    /\ call.saw = entry.version =>
         /\ \A k \in call.fields : k \in call.keys <=> call.to[k] # entry.payload[k]
         /\ \A k \in FieldKeys \ call.fields : k \in unsure \/ entry.payload[k] = Blank
    /\ ~call.crossed => call.fields \subseteq defined

(* A key that the type does not define is in neither copy.                 *)
UndefinedInv == \A k \in FieldKeys \ (defined \cup unsure) :
  entry.payload[k] = Blank /\ entry.snapshot[k] = Blank

(* A prepared write moves only what its caller may write.                  *)
LEMMA PreparedMayWrite ==
  ASSUME MemoryForm, ReleasesInv, NEW c \in Callers, Prepares(c), NEW k \in Prepared(c).keys
  PROVE  CanWriteField(c, k)
<1> DEFINE p == Prepared(c)
<1>0. k \in FieldKeys /\ p \in CallForm /\ p.to \in Document /\ p.op = calls[c].op
        /\ p.to[k] # (IF k \in defined THEN entry.payload[k] ELSE Blank)
      BY PreparedForm DEF CallForm
<1>1. CASE calls[c].op = "update"
  <2>1. p.to[k] = IF calls[c].patch[k] # Blank THEN calls[c].patch[k]
                  ELSE IF k \in defined THEN entry.payload[k] ELSE Blank
        BY <1>0, <1>1, PreparedForm
  <2>2. calls[c].patch[k] # Blank /\ k \in KeysIn(calls[c].patch) /\ calls[c].patch \in Document
        BY <1>0, <2>1 DEF KeysIn, MemoryForm, CallForm
  <2>3. MayUpdate(c)
        BY <1>1 DEF Prepares
  <2>4. k \in KeysIn(Pruned(calls[c].patch, defined))
        BY <1>0, <2>2, <2>3, PrunedDocument DEF MayUpdate, KeysIn
  <2> QED BY <2>3, <2>4 DEF MayUpdate, WritableKeys
<1>2. CASE calls[c].op = "restore"
  <2>1. MayRestore(c, p.keys, p.to)
        BY <1>2 DEF Prepares
  <2>2. CASE p.to[k] = Blank
        BY <1>0, <2>1, <2>2 DEF MayRestore, GuardRemovedKeys, KeysIn
  <2>3. CASE p.to[k] # Blank
    <3>1. KeepKeys(p.to, p.keys) = Pruned(p.to, p.keys)
          BY DEF KeepKeys
    <3>2. k \in KeysIn(Pruned(p.to, p.keys))
          BY <1>0, <2>3, PrunedDocument DEF KeysIn
    <3> QED BY <2>1, <3>1, <3>2 DEF MayRestore, WritableKeys
  <2> QED BY <2>2, <2>3
<1> QED BY <1>1, <1>2 DEF Prepares, SaveOps

(* Only an update or a restore that was just prepared is about to save.    *)
LEMMA OnlyPreparesSaves ==
  ASSUME MemoryForm, NEW c \in Callers, Acts(c), ~Prepares(c)
  PROVE  calls'[c].stage # "ready" \/ calls'[c].op \in StatusOps
<1>0. calls[c] \in CallForm
      BY DEF MemoryForm
<1>1. CASE Begins(c)
      BY <1>1, ActorForm DEF Begun
<1>2. CASE CallEnds(c) \/ Saves(c) \/ Publishes(c) \/ Unpublishes(c)
  <2>1. PICK o \in {"denied", "cancelled", "success"} : Done(c, o)
        BY <1>2, ActorForm
  <2>2. calls'[c].stage = "over"
        BY <1>0, <2>1 DEF Done, CallForm
  <2> QED BY <2>2
<1>3. CASE Readies(c)
  <2>1. calls[c].op \in StatusOps
        BY <1>3 DEF Readies
  <2>2. PICK f : calls'[c] = [calls[c] EXCEPT !.stage = "ready", !.saw = entry.version,
                                               !.firstAt = f]
        BY <1>3, ActorForm
  <2>3. calls'[c].op = calls[c].op
        BY <1>0, <2>2 DEF CallForm
  <2> QED BY <2>1, <2>3
<1>4. CASE RecordActivity(c) \/ Lose(c)
  <2>1. calls'[c] = NoRequest
        BY <1>4, ActorForm DEF Forgotten
  <2> QED BY <2>1 DEF NoRequest
<1> QED BY <1>1, <1>2, <1>3, <1>4 DEF Acts

LEMMA WriteOkStep ==
  ASSUME MemoryForm, MemoryForm', ReleasesInv, UndefinedInv, [HistoryNext]_historyVars,
         NEW c \in Callers, WriteOk(c)
  PROVE  WriteOk(c)'
<1>0. /\ calls[c] \in CallForm /\ entry \in EntryRow /\ entry.version \in Nat /\ defined \subseteq FieldKeys
      /\ entry'.version \in Nat
      BY DEF MemoryForm, EntryRow
<1>1. CASE StandsBy(c)
  <2> SUFFICES ASSUME calls'[c].stage = "ready", calls'[c].op \in SaveOps
               PROVE  WriteOk(c)'
      BY DEF WriteOk
  <2>1. /\ calls[c].stage = "ready" /\ calls[c].op \in SaveOps /\ IsOpen(c)
        /\ calls'[c].saw = calls[c].saw /\ calls'[c].keys = calls[c].keys
        /\ calls'[c].fields = calls[c].fields /\ calls'[c].to = calls[c].to
        /\ calls[c].crossed => calls'[c].crossed
        BY <1>1 DEF StandsBy, Same, IsOpen
  <2>2. calls[c].saw \in Nat /\ calls[c].saw <= entry.version /\ entry'.version >= entry.version
        BY <1>0, <2>1, VersionStep DEF WriteOk, CallForm
  <2>3. calls'[c].saw <= entry'.version
        BY <1>0, <2>1, <2>2
  <2>4. calls'[c].saw = entry'.version =>
           /\ calls[c].saw = entry.version /\ entry'.payload = entry.payload /\ unsure \subseteq unsure'
        BY <1>0, <2>1, <2>2, VersionStep
  <2>5. ~calls'[c].crossed => ~calls[c].crossed /\ defined \subseteq defined'
        BY <1>1, <2>1 DEF StandsBy
  <2> QED BY <2>1, <2>3, <2>4, <2>5 DEF WriteOk
<1>2. CASE Prepares(c)
  <2> DEFINE p == Prepared(c)
  <2>1. calls'[c] = p /\ UNCHANGED <<entry, defined, unsure>>
        BY <1>2, ActorForm DEF Prepares, SetCall, AllButCalls
  <2>2. /\ p \in CallForm /\ p.saw = entry.version /\ p.fields = defined /\ p.to \in Document
        /\ \A k \in FieldKeys : k \in p.keys <=>
             p.to[k] # (IF k \in defined THEN entry.payload[k] ELSE Blank)
        BY <1>2, PreparedForm
  <2>3. \A k \in FieldKeys \ defined : p.to[k] = Blank
    <3> TAKE k \in FieldKeys \ defined
    <3>1. CASE calls[c].op = "update"
      <4>1. calls[c].patch[k] = Blank
            BY <1>2, <3>1 DEF Prepares, MayUpdate, KeysIn
      <4> QED BY <1>2, <3>1, <4>1, PreparedForm
    <3>2. CASE calls[c].op = "restore"
          BY <1>2, <3>2, PreparedForm
    <3> QED BY <1>2, <3>1, <3>2 DEF Prepares, SaveOps
  <2>4. \A k \in p.keys : CanWriteField(c, k)
        BY <1>2, PreparedMayWrite
  <2>5. p.keys \subseteq defined /\ KeysIn(p.to) \subseteq defined
        BY <2>2, <2>3 DEF KeysIn, CallForm
  <2>6. \A k \in FieldKeys \ defined : k \in unsure \/ entry.payload[k] = Blank
        BY DEF UndefinedInv
  <2> HIDE DEF p
  <2> QED BY <1>0, <2>1, <2>2, <2>4, <2>5, <2>6 DEF WriteOk
<1>3. CASE Acts(c) /\ ~Prepares(c)
  <2>1. calls'[c].stage # "ready" \/ calls'[c].op \in StatusOps
        BY <1>3, OnlyPreparesSaves
  <2> QED BY <2>1 DEF WriteOk, SaveOps, StatusOps
<1> QED BY <1>1, <1>2, <1>3, CallStep

LEMMA UndefinedStep ==
  ASSUME MemoryForm, UndefinedInv, \A c \in Callers : WriteOk(c), [HistoryNext]_historyVars
  PROVE  UndefinedInv'
<1> USE DEF MemoryForm
<1>1. ASSUME UNCHANGED entry, defined \subseteq defined', unsure \subseteq unsure' PROVE UndefinedInv'
      BY <1>1 DEF UndefinedInv
<1>2. ASSUME NEW c \in Callers, Saves(c) PROVE UndefinedInv'
  <2> SUFFICES ASSUME NEW k \in FieldKeys, k \notin defined, k \notin unsure'
               PROVE  entry'.payload[k] = Blank /\ entry'.snapshot[k] = Blank
      BY <1>2 DEF UndefinedInv, Saves, CallWrites
  <2>1. entry'.payload = calls[c].to /\ entry'.snapshot = entry.snapshot
        BY <1>2 DEF Saves, EntryRow
  <2>2. calls[c].stage = "ready" /\ calls[c].op \in SaveOps /\ calls[c].saw = entry.version
        BY <1>2 DEF Saves, CallWrites
  <2>3. k \notin calls[c].keys
        BY <1>2, <2>2 DEF Saves, WriteOk
  <2>4. k \notin unsure
        BY <1>2, <2>3 DEF Saves
  <2>5. entry.payload[k] = Blank /\ entry.snapshot[k] = Blank
        BY <2>4 DEF UndefinedInv
  <2>6. calls[c].to[k] = Blank
        BY <2>2, <2>3, <2>5 DEF WriteOk, KeysIn
  <2> QED BY <2>1, <2>5, <2>6
<1>3. ASSUME NEW c \in Callers, Publishes(c) PROVE UndefinedInv'
  <2>1. entry'.payload = entry.payload /\ entry'.snapshot = entry.payload
        BY <1>3 DEF Publishes, EntryRow
  <2> QED BY <1>3, <2>1 DEF UndefinedInv, Publishes, CallWrites
<1>4. ASSUME NEW c \in Callers, Unpublishes(c) PROVE UndefinedInv'
  <2>1. entry'.payload = entry.payload /\ entry'.snapshot = entry.snapshot
        BY <1>4 DEF Unpublishes, EntryRow
  <2> QED BY <1>4, <2>1 DEF UndefinedInv, Unpublishes, CallWrites
<1>5. ASSUME NEW k \in FieldKeys, DeleteField(k) PROVE UndefinedInv'
  <2>1. /\ entry'.payload = [entry.payload EXCEPT ![k] = Blank]
        /\ entry'.snapshot = [entry.snapshot EXCEPT ![k] = Blank]
        BY <1>5 DEF DeleteField, EntryRow
  <2>2. entry.payload \in Document /\ entry.snapshot \in Document
        BY DEF EntryRow
  <2>3. defined' = defined \ {k} /\ unsure' = unsure
        BY <1>5 DEF DeleteField
  <2> QED BY <2>1, <2>2, <2>3 DEF UndefinedInv, Document
<1>6. ASSUME NEW c \in Callers, \/ Begins(c) \/ CallEnds(c) \/ Prepares(c) \/ Readies(c)
                                \/ RecordActivity(c) \/ Lose(c) \/ DiffEntryRevision(c)
      PROVE  UndefinedInv'
      BY <1>1, <1>6 DEF Begins, CallEnds, Prepares, Readies, SetCall, AllButCalls, RecordActivity, Lose,
                        DiffEntryRevision
<1>7. CASE UNCHANGED historyVars
      BY <1>1, <1>7 DEF historyVars
<1>8. ASSUME NEW k \in FieldKeys, AddField(k) PROVE UndefinedInv'
      BY <1>1, <1>8 DEF AddField
<1> QED BY <1>2, <1>3, <1>4, <1>5, <1>6, <1>7, <1>8, HistoryEffects

-----------------------------------------------------------------------------
(* A comparison holds as long as the version it was made at.               *)
Compares(v, r, hidden) ==
  LET changed == ChangedKeysBetween(Pruned(entry.payload, v.fields), Pruned(r.payload, v.fields)) IN
  /\ v.keys = VisibleKeys(changed, hidden)
  /\ v.hidden <=> changed \cap hidden # {}
  /\ v.dropped = KeysIn(r.payload) \ v.fields

ViewedOk(c) ==
  LET v == viewed[c]
      hidden == UnreadableKeys(c) \cap v.fields IN
  /\ v.version <= entry.version
  /\ v.version = entry.version => \A r \in releases : r.no = v.no => Compares(v, r, hidden)

LEMMA ViewedStep ==
  ASSUME MemoryForm, MemoryForm', ReleasesInv, [HistoryNext]_historyVars,
         NEW c \in Callers, ViewedOk(c)
  PROVE  ViewedOk(c)'
<1>0. /\ viewed[c].version \in Nat /\ entry.version \in Nat /\ entry'.version \in Nat
      /\ entry'.version >= entry.version
      BY VersionStep DEF MemoryForm, EntryRow, Comparisons
<1>1. CASE viewed'[c] = viewed[c]
  <2>1. CASE entry'.version = entry.version
    <3>1. entry'.payload = entry.payload /\ releases' = releases
          BY <2>1, VersionStep
    <3> QED BY <1>0, <1>1, <2>1, <3>1 DEF ViewedOk, Compares
  <2>2. CASE entry'.version # entry.version
        BY <1>0, <1>1, <2>2 DEF ViewedOk
  <2> QED BY <2>1, <2>2
<1>2. CASE DiffEntryRevision(c)
  <2> DEFINE hidden == UnreadableKeys(c) \cap defined
             cur == Pruned(entry.payload, defined)
             view(r) == [version |-> entry.version, no |-> r.no, fields |-> defined,
                         keys |-> VisibleKeys(ChangedKeysBetween(cur, Compared(r.payload)), hidden),
                         hidden |-> \E k \in hidden : cur[k] # Compared(r.payload)[k],
                         dropped |-> KeysIn(r.payload) \ defined]
  <2>1. PICK r \in releases : viewed' = [viewed EXCEPT ![c] = view(r)]
        BY <1>2 DEF DiffEntryRevision
  <2> DEFINE v == view(r)
  <2>2. UNCHANGED <<entry, defined, releases>>
        BY <1>2 DEF DiffEntryRevision
  <2>3. \A s \in releases : s.no = r.no => s = r
        BY DEF ReleasesInv
  <2> DEFINE changed == ChangedKeysBetween(cur, Compared(r.payload))
  <2>4. v.hidden <=> changed \cap hidden # {}
    <3>1. hidden \subseteq FieldKeys
          BY DEF MemoryForm
    <3>2. v.hidden <=> \E k \in hidden : cur[k] # Compared(r.payload)[k]
          OBVIOUS
    <3> HIDE DEF cur, hidden, v
    <3> QED BY <3>1, <3>2 DEF ChangedKeysBetween
  <2>5. /\ v.version = entry.version /\ v.no = r.no /\ v.fields = defined
        /\ v.keys = VisibleKeys(changed, hidden) /\ v.dropped = KeysIn(r.payload) \ defined
        OBVIOUS
  <2> HIDE DEF v, view
  <2>6. Compares(v, r, hidden)
        BY <2>4, <2>5 DEF Compares, Compared
  <2>7. viewed'[c] = v
        BY <2>1 DEF MemoryForm, v
  <2> HIDE DEF changed, cur
  <2> QED BY <1>0, <2>2, <2>3, <2>5, <2>7, <2>6 DEF ViewedOk, Compares
<1>3. viewed'[c] = viewed[c] \/ DiffEntryRevision(c)
      BY CallStep, ActorForm DEF StandsBy
<1> QED BY <1>1, <1>2, <1>3

(* A restore that named the version it was shown does what it was shown.   *)
Shown(c) ==
  LET call == calls[c]
      hidden == UnreadableKeys(c) \cap call.fields IN
  (call.stage = "ready" /\ call.op = "restore" /\ call.expect # 0 /\ call.no = viewed[c].no
     /\ viewed[c].fields = call.fields)
  => /\ VisibleKeys(call.keys, hidden) = viewed[c].keys
     /\ viewed[c].hidden <=> call.keys \cap hidden # {}
     /\ viewed[c].dropped = call.dropped

LEMMA ShownStep ==
  ASSUME MemoryForm, ReleasesInv, [HistoryNext]_historyVars,
         NEW c \in Callers, CallOk(c), ViewedOk(c), Shown(c)
  PROVE  Shown(c)'
<1>0. calls[c] \in CallForm
      BY DEF MemoryForm
<1>1. CASE StandsBy(c)
  <2>1. CASE viewed'[c] = viewed[c]
        BY <1>1, <2>1 DEF StandsBy, Same, Shown
  <2>2. CASE DiffEntryRevision(c)
    <3>1. calls'[c] = NoRequest
          BY <2>2 DEF DiffEntryRevision
    <3> QED BY <3>1 DEF Shown, NoRequest
  <2> QED BY <1>1, <2>1, <2>2 DEF StandsBy
<1>2. CASE Prepares(c)
  <2> DEFINE p == Prepared(c)
             hidden == UnreadableKeys(c) \cap p.fields
  <2>1. calls'[c] = p /\ viewed' = viewed
        BY <1>2, ActorForm DEF Acts
  <2> SUFFICES ASSUME p.op = "restore", p.expect # 0, p.no = viewed[c].no, viewed[c].fields = p.fields
               PROVE  /\ VisibleKeys(p.keys, hidden) = viewed[c].keys
                      /\ viewed[c].hidden <=> p.keys \cap hidden # {}
                      /\ viewed[c].dropped = p.dropped
      BY <2>1 DEF Shown
  <2>2. /\ p.op = calls[c].op /\ p.expect = calls[c].expect /\ p.fields = defined
        /\ p \in CallForm /\ p.to \in Document
        /\ \A k \in FieldKeys : k \in p.keys <=>
             p.to[k] # (IF k \in defined THEN entry.payload[k] ELSE Blank)
        BY <1>2, PreparedForm
  <2>3. PICK r \in releases :
              /\ r.no = p.no /\ p.dropped = KeysIn(r.payload) \ defined
              /\ \A k \in FieldKeys : p.to[k] = IF k \in defined THEN r.payload[k] ELSE Blank
        BY <1>2, PreparedForm
  <2>4. viewed[c].version = entry.version
        BY <1>2, <2>2 DEF Prepares, Moved, CallOk
  <2>5. Compares(viewed[c], r, hidden)
        BY <2>2, <2>3, <2>4 DEF ViewedOk
  <2> DEFINE changed == ChangedKeysBetween(Pruned(entry.payload, defined), Pruned(r.payload, defined))
  <2>6. /\ viewed[c].keys = VisibleKeys(changed, hidden)
        /\ viewed[c].hidden <=> changed \cap hidden # {}
        /\ viewed[c].dropped = KeysIn(r.payload) \ defined
        BY <2>2, <2>5 DEF Compares
  <2>7. changed = p.keys
    <3>1. entry.payload \in Document /\ r.payload \in Document
          BY DEF MemoryForm, EntryRow, PublishRevisions
    <3>2. \A k \in FieldKeys : k \in changed <=> k \in p.keys
          BY <2>2, <2>3, <3>1, PrunedDocument DEF ChangedKeysBetween
    <3>3. changed \subseteq FieldKeys /\ p.keys \subseteq FieldKeys
          BY <2>2 DEF ChangedKeysBetween, CallForm
    <3> QED BY <3>2, <3>3
  <2> HIDE DEF changed, p, hidden
  <2> QED BY <2>3, <2>6, <2>7
<1>3. CASE Acts(c) /\ ~Prepares(c)
  <2>1. calls'[c].stage # "ready" \/ calls'[c].op \in StatusOps
        BY <1>3, OnlyPreparesSaves
  <2> QED BY <2>1 DEF Shown, StatusOps
<1> QED BY <1>1, <1>2, <1>3, CallStep

-----------------------------------------------------------------------------
(* Only a write succeeds.                                                  *)
LEMMA SucceedsForm ==
  ASSUME MemoryForm, ReleasesInv, [HistoryNext]_historyVars, NEW c \in Callers, Succeeds(c)
  PROVE  Saves(c) \/ Publishes(c) \/ Unpublishes(c)
<1>0. calls[c] \in CallForm
      BY DEF MemoryForm
<1>1. ~StandsBy(c)
      BY DEF StandsBy, Same, Succeeds
<1>2. ~Begins(c)
      BY ActorForm DEF Begun, Succeeds
<1>3. ~CallEnds(c)
  <2> SUFFICES ASSUME CallEnds(c) PROVE FALSE
      OBVIOUS
  <2>1. PICK o \in {"denied", "cancelled"} : Done(c, o)
        BY ActorForm
  <2>2. calls'[c].outcome = o
        BY <1>0, <2>1 DEF Done, CallForm
  <2> QED BY <2>2 DEF Succeeds
<1>4. ~Prepares(c)
  <2> SUFFICES ASSUME Prepares(c) PROVE FALSE
      OBVIOUS
  <2>1. calls'[c] = Prepared(c)
        BY ActorForm
  <2>2. Prepared(c).outcome = calls[c].outcome
        BY PreparedForm
  <2> QED BY <2>1, <2>2 DEF Succeeds
<1>5. ~Readies(c)
  <2> SUFFICES ASSUME Readies(c) PROVE FALSE
      OBVIOUS
  <2>1. PICK f : calls'[c] = [calls[c] EXCEPT !.stage = "ready", !.saw = entry.version, !.firstAt = f]
        BY ActorForm
  <2>2. calls'[c].outcome = calls[c].outcome
        BY <1>0, <2>1 DEF CallForm
  <2> QED BY <2>2 DEF Succeeds
<1>6. ~(RecordActivity(c) \/ Lose(c))
  <2> SUFFICES ASSUME RecordActivity(c) \/ Lose(c) PROVE FALSE
      OBVIOUS
  <2>1. calls'[c] = NoRequest
        BY ActorForm DEF Forgotten
  <2> QED BY <2>1 DEF Succeeds, NoRequest
<1> QED BY <1>1, <1>2, <1>3, <1>4, <1>5, <1>6, CallStep DEF Acts

LEMMA RestoreStep ==
  ASSUME MemoryForm, ReleasesInv, [HistoryNext]_historyVars, NEW c \in Callers,
         WriteOk(c), Shown(c), Succeeds(c), calls[c].op \in {"update", "restore"}
  PROVE  LET call == calls[c]
             changes == ChangedKeysBetween(entry.payload, entry'.payload)
             hidden == UnreadableKeys(c) \cap call.fields IN
          /\ call.keys \subseteq changes /\ changes \cap call.fields \subseteq call.keys
          /\ \A k \in changes \cap call.fields : CanWriteField(c, k)
          /\ (/\ call.op = "restore" /\ call.expect # 0 /\ call.no = viewed[c].no
              /\ viewed[c].fields = call.fields)
             => /\ VisibleKeys(call.keys, hidden) = viewed[c].keys
                /\ viewed[c].hidden <=> call.keys \cap hidden # {}
                /\ viewed[c].dropped = call.dropped
<1>1. Saves(c)
      BY SucceedsForm DEF Publishes, Unpublishes, CallWrites
<1>2. calls[c].stage = "ready" /\ calls[c].op \in SaveOps /\ calls[c].saw = entry.version
      BY <1>1 DEF Saves, CallWrites
<1>3. entry'.payload = calls[c].to
      BY <1>1 DEF Saves, MemoryForm, EntryRow
<1>4. /\ calls[c].keys \subseteq calls[c].fields
      /\ \A k \in calls[c].keys : CanWriteField(c, k)
      /\ \A k \in calls[c].fields : k \in calls[c].keys <=> calls[c].to[k] # entry.payload[k]
      BY <1>2 DEF WriteOk
<1>5. calls[c].keys \subseteq FieldKeys
      BY DEF MemoryForm, CallForm
<1> DEFINE changes == ChangedKeysBetween(entry.payload, entry'.payload)
<1>6. calls[c].keys \subseteq changes /\ changes \cap calls[c].fields \subseteq calls[c].keys
      BY <1>3, <1>4, <1>5 DEF ChangedKeysBetween
<1> HIDE DEF changes
<1>7. \A k \in changes \cap calls[c].fields : CanWriteField(c, k)
      BY <1>4, <1>6
<1> QED BY <1>2, <1>6, <1>7 DEF Shown, changes

-----------------------------------------------------------------------------
(* The releases, the saved versions and the times.                         *)
LEMMA ReleasesStep ==
  ASSUME MemoryForm, MemoryForm', ReleasesInv, [HistoryNext]_historyVars
  PROVE  ReleasesInv'
<1> USE HistoryAssumption
<1>a. entry \in EntryRow /\ releases \subseteq PublishRevisions /\ entry' \in EntryRow
      BY DEF MemoryForm
<1>1. ASSUME UNCHANGED releases, entry'.snapshot = entry.snapshot, entry'.released = entry.released,
             entry'.version >= entry.version
      PROVE  ReleasesInv'
      BY <1>1, <1>a DEF ReleasesInv, ShelfIs, EntryRow, PublishRevisions
<1>2. ASSUME NEW c \in Callers, Saves(c) \/ Unpublishes(c) PROVE ReleasesInv'
  <2>1. /\ UNCHANGED releases /\ entry'.snapshot = entry.snapshot
        /\ entry'.released = entry.released
        BY <1>a, <1>2 DEF Saves, Unpublishes, EntryRow
  <2> QED BY <2>1, <1>1, VersionStep
<1>3. ASSUME NEW c \in Callers, Publishes(c) PROVE ReleasesInv'
  <2>1. PICK n \in Nat : ShelfIs(n)
        BY DEF ReleasesInv
  <2>2. LastNo = n
        BY <2>1, LastRelease
  <2> DEFINE new == [no |-> n + 1, payload |-> entry.payload, version |-> entry.version + 1]
  <2>3. /\ releases' = {r \in releases \cup {new} : r.no > (n + 1) - MaxReleases}
        /\ entry'.snapshot = entry.payload /\ entry'.released = entry.version + 1
        /\ entry'.version = entry.version + 1
        BY <1>a, <1>3, <2>2 DEF Publishes, Trimmed, EntryRow
  <2>4. new.no = n + 1 /\ new.payload = entry.payload /\ new.version = entry.version + 1
        OBVIOUS
  <2> HIDE DEF new
  <2>5. /\ entry.version \in Nat
        /\ \A r \in releases : r.no \in Nat \ {0} /\ r.version \in Nat /\ r.version <= entry.version
                                 /\ r.no <= n /\ r.no > n - MaxReleases
    <3>1. \A r \in releases : r.no \in Kept(n)
          BY <2>1 DEF ShelfIs
    <3> QED BY <1>a, <3>1 DEF ReleasesInv, EntryRow, PublishRevisions, Kept
  <2>6. new \in releases'
        BY <2>3, <2>4
  <2>7. \A r \in releases' : r = new \/ r \in releases
        BY <2>3
  <2>8. {r.no : r \in releases'} = Kept(n + 1)
    <3>1. ASSUME NEW r \in releases' PROVE r.no \in Kept(n + 1)
          BY <2>3, <2>4, <2>5 DEF Kept
    <3>2. ASSUME NEW m \in Kept(n + 1) PROVE \E r \in releases' : r.no = m
      <4>1. CASE m = n + 1
            BY <2>4, <2>6, <4>1
      <4>2. CASE m # n + 1
        <5>1. m \in Kept(n)
              BY <4>2 DEF Kept
        <5>2. PICK r \in releases : r.no = m
              BY <2>1, <5>1 DEF ShelfIs
        <5>3. r \in releases'
              BY <2>3, <5>2 DEF Kept
        <5> QED BY <5>2, <5>3
      <4> QED BY <4>1, <4>2
    <3> QED BY <3>1, <3>2
  <2>9. \A r \in releases' : r.no = n + 1 => r = new
        BY <2>5, <2>7
  <2>10. ShelfIs(n + 1)'
    <3>1. n + 1 # 0
          OBVIOUS
    <3>2. new.version <= entry'.released
          BY <2>3, <2>4, <2>5
    <3> QED BY <2>3, <2>4, <2>8, <2>9, <3>1, <3>2 DEF ShelfIs, Kept
  <2>11. \A r, s \in releases' : /\ r.no < s.no <=> r.version < s.version
                                 /\ r.no = s.no => r = s
    <3> TAKE r, s \in releases'
    <3>1. CASE r \in releases /\ s \in releases
          BY <3>1 DEF ReleasesInv
    <3>2. CASE r = new \/ s = new
          BY <2>4, <2>5, <2>7, <3>2
    <3> QED BY <2>7, <3>1, <3>2
  <2>12. \A r \in releases' : r.version <= entry'.version
        BY <2>3, <2>4, <2>5, <2>7
  <2> QED BY <2>10, <2>11, <2>12 DEF ReleasesInv
<1>4. ASSUME NEW k \in FieldKeys, DeleteField(k) PROVE ReleasesInv'
  <2>1. /\ UNCHANGED releases
        /\ entry'.snapshot = [entry.snapshot EXCEPT ![k] = Blank]
        /\ entry'.released = entry.released + (IF entry.snapshot[k] # Blank THEN 1 ELSE 0)
        BY <1>a, <1>4 DEF DeleteField, EntryRow
  <2>2. PICK n \in Nat : ShelfIs(n)
        BY DEF ReleasesInv
  <2>3. /\ entry.snapshot \in Document /\ entry.released \in Nat /\ entry'.released >= entry.released
        /\ entry.version \in Nat /\ entry'.version \in Nat /\ entry'.version >= entry.version
        BY <1>a, <2>1, VersionStep DEF EntryRow
  <2>4. \A j \in KeysIn(entry'.snapshot) : j \in KeysIn(entry.snapshot) /\ entry'.snapshot[j] = entry.snapshot[j]
        BY <2>1, <2>3 DEF KeysIn, Document
  <2>5. n = 0 => entry'.released = 0 /\ entry'.snapshot = EmptyDocument
    <3> SUFFICES ASSUME n = 0 PROVE entry'.released = 0 /\ entry'.snapshot = EmptyDocument
        OBVIOUS
    <3>1. entry.released = 0 /\ entry.snapshot = EmptyDocument
          BY <2>2 DEF ShelfIs
    <3>2. entry.snapshot[k] = Blank
          BY <3>1 DEF EmptyDocument
    <3>3. entry'.snapshot = EmptyDocument
          BY <2>1, <3>1, <3>2 DEF EmptyDocument
    <3> QED BY <2>1, <3>1, <3>2, <3>3
  <2>6. \A r \in releases : r.version \in Nat
        BY <1>a DEF PublishRevisions
  <2>7. ShelfIs(n)'
        BY <2>1, <2>2, <2>3, <2>4, <2>5, <2>6 DEF ShelfIs
  <2>8. \A r \in releases' : r.version <= entry'.version
        BY <2>1, <2>3, <2>6 DEF ReleasesInv
  <2> QED BY <2>1, <2>7, <2>8 DEF ReleasesInv
<1>5. ASSUME UNCHANGED <<entry, releases>> PROVE ReleasesInv'
      BY <1>5, <1>1, <1>a DEF EntryRow
<1>6. ASSUME NEW c \in Callers, \/ Begins(c) \/ CallEnds(c) \/ Prepares(c) \/ Readies(c)
                                \/ RecordActivity(c) \/ Lose(c) \/ DiffEntryRevision(c)
      PROVE  ReleasesInv'
      BY <1>5, <1>6 DEF Begins, CallEnds, Prepares, Readies, SetCall, AllButCalls, RecordActivity, Lose,
                        DiffEntryRevision
<1>7. CASE UNCHANGED historyVars
      BY <1>5, <1>7 DEF historyVars
<1>8. ASSUME NEW k \in FieldKeys, AddField(k) PROVE ReleasesInv'
      BY <1>5, <1>8 DEF AddField
<1> QED BY <1>2, <1>3, <1>4, <1>6, <1>7, <1>8, HistoryEffects

-----------------------------------------------------------------------------
(* A request keeps the time it began at; a new one takes the clock's.      *)
LEMMA AtStep ==
  ASSUME MemoryForm, ReleasesInv, [HistoryNext]_historyVars, NEW c \in Callers,
         calls'[c].stage # "idle"
  PROVE  \/ calls[c].stage # "idle" /\ calls'[c].at = calls[c].at
         \/ Begins(c) /\ calls'[c].at = ticks
<1>0. calls[c] \in CallForm
      BY DEF MemoryForm
<1>1. CASE StandsBy(c)
      BY <1>1 DEF StandsBy, Same
<1>2. CASE Begins(c)
      BY <1>2, ActorForm DEF Begun
<1>3. CASE CallEnds(c) \/ Saves(c) \/ Publishes(c) \/ Unpublishes(c)
  <2>1. PICK o \in {"denied", "cancelled", "success"} : Done(c, o)
        BY <1>3, ActorForm
  <2>2. calls'[c].at = calls[c].at
        BY <1>0, <2>1 DEF Done, CallForm
  <2>3. calls[c].stage # "idle"
        BY <1>3 DEF CallEnds, IsOpen, Saves, Publishes, Unpublishes, CallWrites
  <2> QED BY <2>2, <2>3
<1>4. CASE Prepares(c)
  <2>1. calls'[c] = Prepared(c)
        BY <1>4, ActorForm
  <2>2. Prepared(c).at = calls[c].at
        BY <1>4, PreparedForm
  <2> QED BY <1>4, <2>1, <2>2 DEF Prepares
<1>5. CASE Readies(c)
  <2>1. PICK f : calls'[c] = [calls[c] EXCEPT !.stage = "ready", !.saw = entry.version, !.firstAt = f]
        BY <1>5, ActorForm
  <2>2. calls'[c].at = calls[c].at
        BY <1>0, <2>1 DEF CallForm
  <2> QED BY <1>5, <2>2 DEF Readies
<1>6. CASE RecordActivity(c) \/ Lose(c)
  <2>1. calls'[c] = NoRequest
        BY <1>6, ActorForm DEF Forgotten
  <2> QED BY <2>1 DEF NoRequest
<1> QED BY <1>1, <1>2, <1>3, <1>4, <1>5, <1>6, CallStep DEF Acts

(* Only the end of a request adds a line, and it is the request's.         *)
LEMMA LinesStep ==
  ASSUME MemoryForm, [HistoryNext]_historyVars
  PROVE  \/ activity' = activity
         \/ \E c \in Callers : /\ RecordActivity(c) /\ ShouldRecord(c) /\ calls[c].stage = "over"
                               /\ activity' = activity \cup {Line(c)} /\ calls'[c] = NoRequest
<1>1. ASSUME NEW c \in Callers, RecordActivity(c)
      PROVE  \/ activity' = activity
             \/ /\ RecordActivity(c) /\ ShouldRecord(c) /\ calls[c].stage = "over"
                /\ activity' = activity \cup {Line(c)} /\ calls'[c] = NoRequest
      BY <1>1, ActorForm DEF RecordActivity, Forgotten
<1>2. ASSUME NEW c \in Callers,
             \/ Begins(c) \/ CallEnds(c) \/ Prepares(c) \/ Readies(c) \/ Saves(c) \/ Publishes(c)
             \/ Unpublishes(c) \/ Lose(c) \/ DiffEntryRevision(c)
      PROVE  activity' = activity
      BY <1>2 DEF Begins, CallEnds, Prepares, Readies, SetCall, AllButCalls, Saves, Publishes, Unpublishes,
                  CallWrites, Lose, DiffEntryRevision
<1>3. CASE UNCHANGED historyVars
      BY <1>3 DEF historyVars
<1>4. ASSUME NEW k \in FieldKeys, DeleteField(k) \/ AddField(k) PROVE activity' = activity
      BY <1>4 DEF DeleteField, AddField
<1> QED BY <1>1, <1>2, <1>3, <1>4, HistoryEffects

(* Two requests are not begun in one step.                                 *)
LEMMA OneBegins ==
  ASSUME MemoryForm, NEW c \in Callers, Begins(c)
  PROVE  /\ ticks' = ticks + 1 /\ activity' = activity
         /\ \A d \in Callers \ {c} : calls'[d] = calls[d]
BY DEF Begins, SetCall, AllButCalls, MemoryForm

LEMMA TimesStep ==
  ASSUME MemoryForm, MemoryForm', ReleasesInv, TimesInv, [HistoryNext]_historyVars
  PROVE  TimesInv'
<1>0. ticks \in Nat /\ ticks' \in Nat /\ ticks' >= ticks
        /\ (\A l \in activity : l.at \in Nat) /\ \A c \in Callers : calls[c].at \in Nat
      BY VersionStep DEF MemoryForm, Activity, CallForm
<1>1. ASSUME NEW c \in Callers, Begins(c) PROVE TimesInv'
  <2>1. /\ ticks' = ticks + 1 /\ activity' = activity
        /\ \A d \in Callers \ {c} : calls'[d] = calls[d]
        BY <1>1, OneBegins
  <2>2. calls'[c].at = ticks
        BY <1>1, ActorForm DEF Begun
  <2> QED BY <1>0, <2>1, <2>2 DEF TimesInv
<1>2. ASSUME \A c \in Callers : ~Begins(c) PROVE TimesInv'
  <2>1. \A c \in Callers : calls'[c].stage # "idle" => calls[c].stage # "idle" /\ calls'[c].at = calls[c].at
        BY <1>2, AtStep
  <2>2. CASE activity' = activity
        BY <1>0, <2>1, <2>2 DEF TimesInv
  <2>3. ASSUME NEW c \in Callers, calls[c].stage = "over", activity' = activity \cup {Line(c)},
               calls'[c] = NoRequest
        PROVE  TimesInv'
    <3>1. Line(c).at = calls[c].at
          BY DEF Line
    <3>2. calls'[c].stage = "idle"
          BY <2>3 DEF NoRequest
    <3> DEFINE new == Line(c)
    <3> HIDE DEF new
    <3>3. activity' = activity \cup {new} /\ new.at = calls[c].at
          BY <2>3, <3>1 DEF new
    <3>4. \A l \in activity' : l.at < ticks'
          BY <1>0, <2>3, <3>3 DEF TimesInv
    <3>5. \A l, m \in activity' : l.at = m.at => l = m
          BY <2>3, <3>3 DEF TimesInv
    <3>6. ASSUME NEW d \in Callers, calls'[d].stage # "idle"
          PROVE  /\ calls'[d].at < ticks'
                 /\ \A l \in activity' : l.at # calls'[d].at
                 /\ \A e \in Callers \ {d} : calls'[e].stage # "idle" => calls'[e].at # calls'[d].at
          BY <1>0, <2>1, <2>3, <3>2, <3>3, <3>6 DEF TimesInv
    <3> QED BY <3>4, <3>5, <3>6 DEF TimesInv
  <2> QED BY <2>2, <2>3, LinesStep
<1> QED BY <1>1, <1>2

(* The newest saved version is the working copy.                           *)
SavedInv ==
  /\ saves \subseteq [version : Nat, payload : Document]
  /\ SavedAsItStands

LEMMA SavedStep ==
  ASSUME MemoryForm, MemoryForm', SavedInv, [HistoryNext]_historyVars
  PROVE  SavedInv'
<1>0. /\ entry \in EntryRow /\ entry' \in EntryRow /\ entry.version \in Nat /\ entry'.version \in Nat
      /\ entry'.version >= entry.version
      BY VersionStep DEF MemoryForm, EntryRow
<1>1. PICK s \in saves : /\ \A t \in saves : t.version <= s.version
                         /\ s.version <= entry.version /\ s.payload = entry.payload
      BY DEF SavedInv, SavedAsItStands
<1>2. s.version \in Nat /\ \A t \in saves : t.version \in Nat
      BY DEF SavedInv
<1>3. ASSUME saves' = saves, entry'.payload = entry.payload PROVE SavedInv'
      BY <1>0, <1>1, <1>2, <1>3 DEF SavedInv, SavedAsItStands
<1>4. ASSUME NEW p \in Document, NEW v \in Nat, v > entry.version,
             saves' = saves \cup {[version |-> v, payload |-> p]},
             entry'.payload = p, entry'.version = v
      PROVE  SavedInv'
  <2> DEFINE new == [version |-> v, payload |-> p]
  <2>1. new \in [version : Nat, payload : Document] /\ new.version = v /\ new.payload = p
        OBVIOUS
  <2> HIDE DEF new
  <2>2. saves' = saves \cup {new}
        BY <1>4 DEF new
  <2>3. \A t \in saves' : t.version <= new.version
        BY <1>0, <1>1, <1>2, <1>4, <2>1, <2>2
  <2> QED BY <1>0, <1>4, <2>1, <2>2, <2>3 DEF SavedInv, SavedAsItStands
<1>5. ASSUME NEW c \in Callers, Saves(c) PROVE SavedInv'
  <2>1. entry'.payload = calls[c].to /\ entry'.version = entry.version + 1 /\ calls[c].to \in Document
        BY <1>0, <1>5 DEF Saves, EntryRow, MemoryForm, CallForm
  <2>2. saves' = saves \cup {[version |-> entry.version + 1, payload |-> calls[c].to]}
        BY <1>5 DEF Saves
  <2> DEFINE v == entry.version + 1
  <2>3. v \in Nat /\ v > entry.version
        BY <1>0
  <2> HIDE DEF v
  <2> QED BY <1>4, <2>1, <2>2, <2>3 DEF v
<1>6. ASSUME NEW k \in FieldKeys, DeleteField(k) PROVE SavedInv'
  <2>1. CASE entry.payload[k] = Blank
    <3>1. saves' = saves
          BY <1>6, <2>1 DEF DeleteField
    <3>2. entry'.version = entry.version
          BY <1>0, <1>6, <2>1 DEF DeleteField, EntryRow
    <3> QED BY <1>3, <3>1, <3>2, VersionStep
  <2>2. CASE entry.payload[k] # Blank
    <3> DEFINE v == entry'.version
               p == entry'.payload
    <3>1. saves' = saves \cup {[version |-> v, payload |-> p]}
          BY <1>6, <2>2 DEF DeleteField
    <3>2. v = entry.version + 1
          BY <1>0, <1>6, <2>2 DEF DeleteField, EntryRow
    <3>3. p \in Document /\ v \in Nat /\ v > entry.version
          BY <1>0, <3>2 DEF EntryRow
    <3> QED BY <1>4, <3>1, <3>3
  <2> QED BY <2>1, <2>2
<1>7. ASSUME NEW c \in Callers,
             \/ Begins(c) \/ CallEnds(c) \/ Prepares(c) \/ Readies(c) \/ Publishes(c)
             \/ Unpublishes(c) \/ RecordActivity(c) \/ Lose(c) \/ DiffEntryRevision(c)
      PROVE  saves' = saves /\ entry'.payload = entry.payload
      BY <1>0, <1>7 DEF Begins, CallEnds, Prepares, Readies, SetCall, AllButCalls, Publishes, Unpublishes,
                  CallWrites, RecordActivity, Lose, DiffEntryRevision, EntryRow
<1>8. CASE UNCHANGED historyVars
      BY <1>3, <1>8 DEF historyVars
<1>9. ASSUME NEW k \in FieldKeys, AddField(k) PROVE SavedInv'
      BY <1>3, <1>9 DEF AddField
<1> QED BY <1>3, <1>5, <1>6, <1>7, <1>8, <1>9, HistoryEffects

-----------------------------------------------------------------------------
(* Who last wrote a key.                                                   *)
RefusalsInv == \A l \in activity : l.outcome = "denied" => l.keys = {} /\ l.dropped = {}

(* What no write overlapped began after all that was written.              *)
AfterInv == \A c \in Callers : IsOpen(c) /\ ~calls[c].crossed =>
  /\ entry.firstAt < calls[c].at
  /\ \A l \in activity : l.keys # {} => l.at < calls[c].at
  /\ \A d \in Callers : Succeeded(d) => calls[d].at < calls[c].at

Awaits(k) == k \notin unsure /\ entry.status = "published" /\ entry.payload[k] # entry.snapshot[k]

(* The last write of the key began at a: it has its line, or will have it. *)
WrittenAt(k, a) ==
  /\ \/ \E l \in activity : k \in l.keys /\ l.at = a /\ l.actor = writer[k]
     \/ /\ writer[k] \in Callers /\ Succeeded(writer[k])
        /\ k \in calls[writer[k]].keys /\ calls[writer[k]].at = a
  /\ \A l \in activity : k \in l.keys => l.at <= a
  /\ \A c \in Callers : Succeeded(c) /\ k \in calls[c].keys => calls[c].at <= a
  /\ entry.firstAt < a

AuthorsInv == \A k \in FieldKeys : Awaits(k) => \E a \in Nat : WrittenAt(k, a)

LEMMA RefusalsStep ==
  ASSUME MemoryForm, RefusalsInv, [HistoryNext]_historyVars
  PROVE  RefusalsInv'
<1>1. \A c \in Callers : Line(c).outcome = "denied" => Line(c).keys = {} /\ Line(c).dropped = {}
      BY DEF Line
<1> QED BY <1>1, LinesStep DEF RefusalsInv

(* Success is a write's, and lasts until the request ends.                 *)
LEMMA SuccessStep ==
  ASSUME MemoryForm, ReleasesInv, [HistoryNext]_historyVars,
         NEW c \in Callers, CallOk(c), Succeeded(c)'
  PROVE  /\ calls'[c].keys = calls[c].keys /\ calls'[c].at = calls[c].at
         /\ \/ Succeeded(c)
            \/ Saves(c)
            \/ (Publishes(c) \/ Unpublishes(c)) /\ calls[c].keys = {}
<1>0. calls[c] \in CallForm
      BY DEF MemoryForm
<1>1. CASE Succeeded(c)
  <2>1. calls[c].stage = "over"
        BY <1>1 DEF CallOk
  <2>2. ~Forgotten(c)
        BY DEF Forgotten, NoRequest, Succeeded
  <2>3. ~Begins(c)
        BY <1>1 DEF Begins, NoRequest, Succeeded
  <2>4. ~Acts(c)
        BY <2>1, <2>2, <2>3, ActorForm DEF Acts, CallEnds, IsOpen, Prepares, Readies, Saves, Publishes,
                                      Unpublishes, CallWrites
  <2>5. StandsBy(c)
        BY <2>4, CallStep
  <2> QED BY <1>1, <2>5 DEF StandsBy, Same
<1>2. CASE ~Succeeded(c)
  <2>1. Saves(c) \/ Publishes(c) \/ Unpublishes(c)
        BY <1>2, SucceedsForm DEF Succeeds, Succeeded
  <2>2. Done(c, "success")
        BY <2>1, ActorForm
  <2>3. calls'[c].keys = calls[c].keys /\ calls'[c].at = calls[c].at
        BY <1>0, <2>2 DEF Done, CallForm
  <2>4. Publishes(c) \/ Unpublishes(c) => calls[c].keys = {}
        BY DEF Publishes, Unpublishes, CallWrites, CallOk, SaveOps
  <2> QED BY <2>1, <2>3, <2>4
<1> QED BY <1>1, <1>2

(* What is still not overlapped has seen no write in the step.             *)
LEMMA UncrossedStep ==
  ASSUME MemoryForm, ReleasesInv, [HistoryNext]_historyVars,
         NEW c \in Callers, IsOpen(c)', ~calls'[c].crossed
  PROVE  /\ entry'.firstAt = entry.firstAt
         /\ \A d \in Callers : ~(Saves(d) \/ Publishes(d) \/ Unpublishes(d))
         /\ \/ Begins(c) /\ calls'[c].at = ticks
            \/ IsOpen(c) /\ ~calls[c].crossed /\ calls'[c].at = calls[c].at
<1>0. calls[c] \in CallForm
      BY DEF MemoryForm
<1>1. ~(Done(c, "denied") \/ Done(c, "cancelled") \/ Done(c, "success") \/ Forgotten(c))
  <2>1. ~Forgotten(c)
        BY DEF Forgotten, NoRequest, IsOpen
  <2>2. ASSUME NEW o, Done(c, o) PROVE FALSE
    <3>1. calls'[c].stage = "over"
          BY <1>0, <2>2 DEF Done, CallForm
    <3> QED BY <3>1 DEF IsOpen
  <2> QED BY <2>1, <2>2
<1>2. ASSUME NEW d \in Callers, Saves(d) \/ Publishes(d) \/ Unpublishes(d) PROVE FALSE
  <2>1. d # c
        BY <1>1, <1>2, ActorForm
  <2>2. Wrote(d)
        BY <1>2 DEF Saves, Publishes, Unpublishes, CallWrites
  <2>3. Same(c) /\ (IsOpen(c) => calls'[c].crossed)
        BY <2>1, <2>2, WroteForm
  <2> QED BY <2>3 DEF Same, IsOpen
<1>3. StandsBy(c) \/ Begins(c) \/ Prepares(c) \/ Readies(c)
      BY <1>1, CallStep, ActorForm DEF Acts
<1>4. CASE Begins(c)
  <2>1. calls'[c].at = ticks
        BY <1>4, ActorForm DEF Begun
  <2>2. entry' = entry
        BY <1>4 DEF Begins, SetCall, AllButCalls
  <2> QED BY <1>2, <1>4, <2>1, <2>2
<1>5. CASE Prepares(c)
  <2>1. calls'[c] = Prepared(c)
        BY <1>5, ActorForm
  <2>2. Prepared(c).at = calls[c].at /\ Prepared(c).crossed = calls[c].crossed
        BY <1>5, PreparedForm
  <2>3. entry' = entry /\ calls[c].stage = "asked"
        BY <1>5 DEF Prepares, SetCall, AllButCalls
  <2> QED BY <1>2, <2>1, <2>2, <2>3 DEF IsOpen
<1>6. CASE Readies(c)
  <2>1. PICK f : calls'[c] = [calls[c] EXCEPT !.stage = "ready", !.saw = entry.version, !.firstAt = f]
        BY <1>6, ActorForm
  <2>2. calls'[c].at = calls[c].at /\ calls'[c].crossed = calls[c].crossed
        BY <1>0, <2>1 DEF CallForm
  <2>3. entry' = entry /\ calls[c].stage = "asked"
        BY <1>6 DEF Readies, SetCall, AllButCalls
  <2> QED BY <1>2, <2>2, <2>3 DEF IsOpen
<1>7. CASE StandsBy(c)
  <2>1. IsOpen(c) /\ ~calls[c].crossed /\ calls'[c].at = calls[c].at
        BY <1>7 DEF StandsBy, Same, IsOpen
  <2>2. entry' = entry
        BY <1>7, <2>1 DEF StandsBy
  <2> QED BY <1>2, <2>1, <2>2
<1> QED BY <1>3, <1>4, <1>5, <1>6, <1>7

LEMMA AfterStep ==
  ASSUME MemoryForm, ReleasesInv, TimesInv, AfterInv, \A c \in Callers : CallOk(c),
         [HistoryNext]_historyVars
  PROVE  AfterInv'
<1> SUFFICES ASSUME NEW c \in Callers, IsOpen(c)', ~calls'[c].crossed
             PROVE  /\ entry'.firstAt < calls'[c].at
                    /\ \A l \in activity' : l.keys # {} => l.at < calls'[c].at
                    /\ \A d \in Callers : Succeeded(d)' => calls'[d].at < calls'[c].at
    BY DEF AfterInv, IsOpen
<1>0. ticks \in Nat /\ entry.firstAt < ticks
      BY DEF MemoryForm
<1>1. /\ entry'.firstAt = entry.firstAt
      /\ \A d \in Callers : ~(Saves(d) \/ Publishes(d) \/ Unpublishes(d))
      /\ \/ Begins(c) /\ calls'[c].at = ticks
         \/ IsOpen(c) /\ ~calls[c].crossed /\ calls'[c].at = calls[c].at
      BY UncrossedStep
<1>2. \A d \in Callers : Succeeded(d)' => Succeeded(d) /\ calls'[d].at = calls[d].at
      BY <1>1, SuccessStep
<1>3. \A d \in Callers : Succeeded(d) => calls[d].stage # "idle"
      BY DEF CallOk
<1>4. /\ entry.firstAt < calls'[c].at
      /\ \A l \in activity : l.keys # {} => l.at < calls'[c].at
      /\ \A d \in Callers : Succeeded(d) => calls[d].at < calls'[c].at
      BY <1>0, <1>1, <1>3 DEF AfterInv, TimesInv
<1>5. ASSUME NEW d \in Callers, ShouldRecord(d), calls[d].stage = "over", Line(d).keys # {}
      PROVE  Line(d).at < calls'[c].at
  <2>1. Succeeded(d)
    <3>1. calls[d].outcome \in {"success", "denied"}
          BY <1>5 DEF ShouldRecord, CallOk, MemoryForm, CallForm
    <3> QED BY <1>5, <3>1 DEF Line, Succeeded
  <2>2. Line(d).at = calls[d].at
        BY DEF Line
  <2> QED BY <1>4, <2>1, <2>2
<1>6. \A l \in activity' : l.keys # {} => l.at < calls'[c].at
      BY <1>4, <1>5, LinesStep
<1> QED BY <1>1, <1>2, <1>4, <1>6

(* A key that awaits release was written now, or awaited it before.        *)
LEMMA AwaitsStep ==
  ASSUME MemoryForm, UndefinedInv, \A c \in Callers : WriteOk(c), [HistoryNext]_historyVars,
         NEW k \in FieldKeys, Awaits(k)'
  PROVE  \/ \E c \in Callers : /\ Saves(c) /\ k \in calls[c].keys /\ ~calls[c].crossed
                               /\ writer'[k] = c /\ entry'.firstAt = entry.firstAt
                               /\ activity' = activity
         \/ /\ Awaits(k) /\ writer'[k] = writer[k] /\ entry'.firstAt = entry.firstAt
            /\ \A c \in Callers : Saves(c) => k \notin calls[c].keys
<1> USE DEF MemoryForm
<1>0. entry.version \in Nat
      BY DEF EntryRow
<1>1. ASSUME NEW c \in Callers, Saves(c)
      PROVE  \/ /\ k \in calls[c].keys /\ ~calls[c].crossed
                /\ writer'[k] = c /\ entry'.firstAt = entry.firstAt
                /\ activity' = activity
             \/ /\ k \notin calls[c].keys
                /\ Awaits(k) /\ writer'[k] = writer[k] /\ entry'.firstAt = entry.firstAt
  <2>1. /\ entry'.payload = calls[c].to /\ entry'.snapshot = entry.snapshot
        /\ entry'.status = entry.status /\ entry'.firstAt = entry.firstAt
        BY <1>1 DEF Saves, EntryRow
  <2>2. calls[c].stage = "ready" /\ calls[c].op \in SaveOps /\ calls[c].saw = entry.version
        BY <1>1 DEF Saves, CallWrites
  <2>3. k \notin unsure'
        BY DEF Awaits
  <2>4. CASE k \in calls[c].keys
    <3>1. ~calls[c].crossed
          BY <1>1, <2>3, <2>4 DEF Saves
    <3>2. writer'[k] = c
          BY <1>1, <2>4 DEF Saves
    <3> QED BY <1>1, <2>1, <2>4, <3>1, <3>2 DEF Saves, CallWrites
  <2>5. CASE k \notin calls[c].keys
    <3>1. writer'[k] = writer[k] /\ k \notin unsure
          BY <1>1, <2>3, <2>5 DEF Saves
    <3>2. calls[c].to[k] = entry.payload[k]
      <4>1. CASE k \in calls[c].fields
            BY <2>2, <2>5, <4>1 DEF WriteOk
      <4>2. CASE k \notin calls[c].fields
            BY <2>2, <3>1, <4>2 DEF WriteOk, KeysIn
      <4> QED BY <4>1, <4>2
    <3> QED BY <2>1, <2>5, <3>1, <3>2 DEF Awaits
  <2> QED BY <2>4, <2>5
<1>2. ASSUME NEW c \in Callers, Saves(c), NEW d \in Callers, Saves(d), k \in calls[d].keys
      PROVE  k \in calls[c].keys
  <2>1. Wrote(c) /\ Wrote(d) /\ calls[c].stage = "ready" /\ calls[d].stage = "ready"
        BY <1>2 DEF Saves, CallWrites
  <2>2. CASE c # d
    <3>1. Same(d)
          BY <2>1, <2>2, WroteForm
    <3>2. calls'[d] = [calls[d] EXCEPT !.stage = "over", !.outcome = "success"] /\ calls[d] \in CallForm
          BY <2>1, WroteForm
    <3>3. calls'[d].stage = "over"
          BY <3>2 DEF CallForm
    <3> QED BY <2>1, <3>1, <3>3 DEF Same
  <2> QED BY <1>2, <2>2
<1>3. CASE \E c \in Callers : Saves(c)
  <2>1. PICK c \in Callers : Saves(c)
        BY <1>3
  <2>2. CASE k \in calls[c].keys
        BY <1>1, <2>1, <2>2
  <2>3. CASE k \notin calls[c].keys
        BY <1>1, <1>2, <2>1, <2>3
  <2> QED BY <2>2, <2>3
<1>4. ASSUME entry' = entry, unsure \subseteq unsure', writer' = writer
      PROVE  Awaits(k) /\ writer'[k] = writer[k] /\ entry'.firstAt = entry.firstAt
      BY <1>4 DEF Awaits
<1>5. ASSUME NEW c \in Callers,
             \/ Begins(c) \/ CallEnds(c) \/ Prepares(c) \/ Readies(c)
             \/ RecordActivity(c) \/ Lose(c) \/ DiffEntryRevision(c)
      PROVE  Awaits(k) /\ writer'[k] = writer[k] /\ entry'.firstAt = entry.firstAt
  <2>1. entry' = entry /\ unsure \subseteq unsure' /\ writer' = writer
        BY <1>5 DEF Begins, CallEnds, Prepares, Readies, SetCall, AllButCalls, RecordActivity, Lose,
                    DiffEntryRevision
  <2> QED BY <2>1, <1>4
<1>6. ASSUME NEW c \in Callers, Publishes(c) PROVE FALSE
  <2>1. entry'.payload = entry.payload /\ entry'.snapshot = entry.payload
        BY <1>6 DEF Publishes, EntryRow
  <2> QED BY <2>1 DEF Awaits
<1>7. ASSUME NEW c \in Callers, Unpublishes(c) PROVE FALSE
  <2>1. entry'.status = "draft"
        BY <1>7 DEF Unpublishes, EntryRow
  <2> QED BY <2>1 DEF Awaits
<1>8. ASSUME NEW j \in FieldKeys, DeleteField(j)
      PROVE  Awaits(k) /\ writer'[k] = writer[k] /\ entry'.firstAt = entry.firstAt
  <2>1. /\ entry'.payload = [entry.payload EXCEPT ![j] = Blank]
        /\ entry'.snapshot = [entry.snapshot EXCEPT ![j] = Blank]
        /\ entry'.status = entry.status /\ entry'.firstAt = entry.firstAt
        BY <1>8 DEF DeleteField, EntryRow
  <2>2. entry.payload \in Document /\ entry.snapshot \in Document
        BY DEF EntryRow
  <2>3. unsure' = unsure /\ writer' = writer
        BY <1>8 DEF DeleteField
  <2> QED BY <2>1, <2>2, <2>3 DEF Awaits, Document
<1>9. ASSUME NEW j \in FieldKeys, AddField(j)
      PROVE  Awaits(k) /\ writer'[k] = writer[k] /\ entry'.firstAt = entry.firstAt
      BY <1>4, <1>9 DEF AddField
<1>10. ASSUME UNCHANGED historyVars
       PROVE  Awaits(k) /\ writer'[k] = writer[k] /\ entry'.firstAt = entry.firstAt
       BY <1>4, <1>10 DEF historyVars
<1>11. CASE \A c \in Callers : ~Saves(c)
      BY <1>5, <1>6, <1>7, <1>8, <1>9, <1>10, <1>11, HistoryEffects
<1> QED BY <1>3, <1>11

(* A success ends as a line of its own, or is lost and leaves a doubt.     *)
LEMMA SuccessEnds ==
  ASSUME MemoryForm, ReleasesInv, [HistoryNext]_historyVars,
         NEW c \in Callers, CallOk(c), Succeeded(c), NEW k \in calls[c].keys
  PROVE  \/ Succeeded(c)' /\ calls'[c].keys = calls[c].keys /\ calls'[c].at = calls[c].at
         \/ \E l \in activity' : k \in l.keys /\ l.at = calls[c].at /\ l.actor = c
         \/ k \in unsure'
<1>1. calls[c].stage = "over" /\ c \notin Services
      BY DEF CallOk
<1>2. CASE StandsBy(c)
      BY <1>2 DEF StandsBy, Same, Succeeded
<1>3. CASE Lose(c)
      BY <1>3 DEF Lose, Succeeded
<1>4. CASE RecordActivity(c)
  <2>1. ShouldRecord(c)
        BY <1>1 DEF ShouldRecord, Succeeded
  <2>2. Line(c) \in activity'
        BY <1>4, <2>1 DEF RecordActivity
  <2>3. Line(c).keys = calls[c].keys /\ Line(c).at = calls[c].at /\ Line(c).actor = c
        BY DEF Line, Succeeded
  <2> QED BY <2>2, <2>3
<1>5. ~(Begins(c) \/ CallEnds(c) \/ Prepares(c) \/ Readies(c) \/ Saves(c) \/ Publishes(c) \/ Unpublishes(c))
      BY <1>1 DEF Begins, NoRequest, CallEnds, IsOpen, Prepares, Readies, Saves, Publishes, Unpublishes, CallWrites
<1> QED BY <1>2, <1>3, <1>4, <1>5, CallStep DEF Acts

LEMMA AuthorsStep ==
  ASSUME MemoryForm, ReleasesInv, UndefinedInv, AfterInv, AuthorsInv,
         \A c \in Callers : CallOk(c) /\ WriteOk(c), [HistoryNext]_historyVars
  PROVE  AuthorsInv'
<1> SUFFICES ASSUME NEW k \in FieldKeys, Awaits(k)'
             PROVE  \E a \in Nat : WrittenAt(k, a)'
    BY DEF AuthorsInv
<1>0. /\ \A c \in Callers : calls[c].at \in Nat /\ calls[c] \in CallForm
      /\ \A l \in activity : l.at \in Nat /\ l.keys \subseteq FieldKeys
      BY DEF MemoryForm, CallForm, Activity
<1>1. ASSUME NEW c \in Callers, Saves(c), k \in calls[c].keys, ~calls[c].crossed,
             writer'[k] = c, entry'.firstAt = entry.firstAt, activity' = activity
      PROVE  \E a \in Nat : WrittenAt(k, a)'
  <2> DEFINE a == calls[c].at
  <2>1. IsOpen(c)
        BY <1>1 DEF Saves, CallWrites, IsOpen
  <2>2. calls'[c].keys = calls[c].keys /\ calls'[c].at = a /\ Succeeded(c)'
    <3>1. calls'[c] = [calls[c] EXCEPT !.stage = "over", !.outcome = "success"]
          BY <1>1, ActorForm DEF Done
    <3> QED BY <1>0, <3>1 DEF CallForm, Succeeded
  <2>3. /\ entry.firstAt < a
        /\ \A l \in activity : l.keys # {} => l.at < a
        /\ \A d \in Callers : Succeeded(d) => calls[d].at < a
        BY <1>1, <2>1 DEF AfterInv
  <2>4. \A d \in Callers : Succeeded(d)' /\ k \in calls'[d].keys => calls'[d].at <= a
    <3> SUFFICES ASSUME NEW d \in Callers, Succeeded(d)', d # c PROVE calls'[d].at <= a
        BY <1>0, <2>2
    <3>1. Wrote(c)
          BY <1>1 DEF Saves, CallWrites
    <3>2. Succeeded(d) /\ calls'[d].at = calls[d].at
          BY <3>1, WroteForm DEF Same, Succeeded
    <3> QED BY <1>0, <2>3, <3>2
  <2>5. a \in Nat
        BY <1>0
  <2>6. \A l \in activity' : k \in l.keys => l.at <= a
        BY <1>0, <1>1, <2>3, <2>5
  <2> HIDE DEF a
  <2> QED
    <3> SUFFICES ASSUME NEW b \in Nat, b = a PROVE WrittenAt(k, b)'
        BY <2>5
    <3> QED BY <1>1, <2>2, <2>3, <2>4, <2>6 DEF WrittenAt, Succeeded
<1>2. ASSUME Awaits(k), writer'[k] = writer[k], entry'.firstAt = entry.firstAt,
             \A c \in Callers : Saves(c) => k \notin calls[c].keys
      PROVE  \E a \in Nat : WrittenAt(k, a)'
  <2>1. PICK a \in Nat : WrittenAt(k, a)
        BY <1>2 DEF AuthorsInv
  <2>2. \A d \in Callers : Succeeded(d)' /\ k \in calls'[d].keys =>
          Succeeded(d) /\ k \in calls[d].keys /\ calls'[d].at = calls[d].at
        BY <1>2, SuccessStep
  <2>3. \A d \in Callers : Succeeded(d)' /\ k \in calls'[d].keys => calls'[d].at <= a
        BY <2>1, <2>2 DEF WrittenAt
  <2>4. \A l \in activity' : k \in l.keys => l.at <= a
    <3>1. ASSUME NEW d \in Callers, ShouldRecord(d), calls[d].stage = "over", k \in Line(d).keys
          PROVE  Line(d).at <= a
      <4>1. calls[d].outcome \in {"success", "denied"}
            BY <1>0, <3>1 DEF ShouldRecord, CallOk, CallForm
      <4>2. Succeeded(d) /\ k \in calls[d].keys /\ Line(d).at = calls[d].at
            BY <3>1, <4>1 DEF Line, Succeeded
      <4> QED BY <2>1, <4>2 DEF WrittenAt
    <3> QED BY <2>1, <3>1, LinesStep DEF WrittenAt
  <2>5. activity \subseteq activity'
        BY LinesStep
  <2>6. k \notin unsure'
        BY DEF Awaits
  <2>7. \/ \E l \in activity' : k \in l.keys /\ l.at = a /\ l.actor = writer[k]
        \/ /\ writer[k] \in Callers /\ calls'[writer[k]].outcome = "success"
           /\ k \in calls'[writer[k]].keys /\ calls'[writer[k]].at = a
    <3>1. CASE \E l \in activity : k \in l.keys /\ l.at = a /\ l.actor = writer[k]
          BY <2>5, <3>1
    <3>2. CASE /\ writer[k] \in Callers /\ Succeeded(writer[k])
               /\ k \in calls[writer[k]].keys /\ calls[writer[k]].at = a
      <4> DEFINE w == writer[k]
      <4>1. PICK d \in Callers : d = w /\ Succeeded(d) /\ k \in calls[d].keys /\ calls[d].at = a
            BY <3>2
      <4>2. \/ Succeeded(d)' /\ calls'[d].keys = calls[d].keys /\ calls'[d].at = calls[d].at
            \/ \E l \in activity' : k \in l.keys /\ l.at = calls[d].at /\ l.actor = d
            BY <2>6, <4>1, SuccessEnds
      <4> QED BY <4>1, <4>2 DEF Succeeded
    <3> QED BY <2>1, <3>1, <3>2 DEF WrittenAt
  <2>8. entry'.firstAt < a
        BY <1>2, <2>1 DEF WrittenAt
  <2>9. WrittenAt(k, a)'
        BY <1>2, <2>3, <2>4, <2>7, <2>8 DEF WrittenAt, Succeeded
  <2> QED BY <2>9
<1> QED BY <1>1, <1>2, AwaitsStep

-----------------------------------------------------------------------------
(* The inductive invariant of the memory of an entry.                      *)
HistoryInv ==
  /\ MemoryForm /\ ReleasesInv /\ TimesInv /\ SavedInv /\ RefusalsInv
  /\ \A c \in Callers : CallOk(c) /\ WriteOk(c) /\ ViewedOk(c) /\ Shown(c)
  /\ UndefinedInv /\ AfterInv /\ AuthorsInv

LEMMA HistoryInitInv ==
  ASSUME HistoryInit
  PROVE  HistoryInv
<1> USE HistoryAssumption
<1> DEFINE Founded(d, released) ==
      /\ entry = [payload |-> d, version |-> IF released THEN 2 ELSE 1,
                 status |-> IF released THEN "published" ELSE "draft",
                 snapshot |-> IF released THEN d ELSE EmptyDocument,
                 released |-> IF released THEN 2 ELSE 0,
                 firstAt |-> IF released THEN 1 ELSE 0]
      /\ releases = IF released THEN {[no |-> 1, payload |-> d, version |-> 2]} ELSE {}
      /\ saves = {[version |-> 1, payload |-> d]}
      /\ activity = {FoundingLine(d)} \cup
            (IF released THEN {[FoundingLine(d) EXCEPT !.at = 1, !.op = "publish", !.keys = {}]}
             ELSE {})
<1>1. PICK d \in Document, released \in BOOLEAN : Founded(d, released)
  <2>1. PICK v \in FieldValues, r \in BOOLEAN, left \in {{}, Restricted} :
          Founded([k \in FieldKeys |-> IF k \in left THEN Blank ELSE v], r)
        BY DEF HistoryInit
  <2>2. [k \in FieldKeys |-> IF k \in left THEN Blank ELSE v] \in Document
        BY DEF Document
  <2> HIDE DEF Founded
  <2> QED BY <2>1, <2>2
<1>2. EmptyDocument \in Document /\ \A k \in FieldKeys : EmptyDocument[k] = Blank
      BY DEF EmptyDocument, Document
<1>3. /\ entry \in EntryRow /\ entry.payload = d /\ entry.version \in {1, 2}
      /\ entry.firstAt < 2 /\ (entry.status = "draft" <=> entry.firstAt = 0)
      /\ released => entry.snapshot = d /\ entry.released = 2 /\ entry.version = 2
      /\ ~released => entry.snapshot = EmptyDocument /\ entry.released = 0
  <2>1. CASE released
        BY <1>1, <1>2, <2>1 DEF EntryRow
  <2>2. CASE ~released
        BY <1>1, <1>2, <2>2 DEF EntryRow
  <2> QED BY <2>1, <2>2
<1>4. /\ defined = FieldKeys /\ calls = [c \in Callers |-> NoRequest]
      /\ viewed = [c \in Callers |-> NothingShown]
      /\ ticks = 2 /\ writer = [k \in FieldKeys |-> Founder] /\ unsure = {}
      BY DEF HistoryInit
<1>5. NoRequest \in CallForm /\ NothingShown \in Comparisons
      BY <1>2 DEF NoRequest, CallForm, Stages, Ops, NothingShown, Comparisons
<1> DEFINE first == FoundingLine(d)
           second == [FoundingLine(d) EXCEPT !.at = 1, !.op = "publish", !.keys = {}]
<1>6. /\ first \in Activity /\ second \in Activity /\ first.at = 0 /\ second.at = 1
      /\ first.keys = KeysIn(d) /\ first.actor = Founder
      /\ second.keys = {} /\ second.actor = Founder
      /\ first.outcome = "success" /\ second.outcome = "success"
      BY DEF FoundingLine, Activity, Ops, KeysIn
<1>7. activity = IF released THEN {first, second} ELSE {first}
      BY <1>1
<1> HIDE DEF first, second
<1>8. releases \subseteq PublishRevisions
  <2>1. [no |-> 1, payload |-> d, version |-> 2] \in PublishRevisions
        BY DEF PublishRevisions
  <2> QED BY <1>1, <2>1
<1>9. MemoryForm
      BY <1>3, <1>4, <1>5, <1>6, <1>7, <1>8 DEF MemoryForm
<1>10. ReleasesInv
  <2>1. CASE released
    <3> DEFINE r == [no |-> 1, payload |-> d, version |-> 2]
    <3>1. r.no = 1 /\ r.payload = d /\ r.version = 2 /\ releases = {r}
          BY <1>1, <2>1
    <3> HIDE DEF r
    <3>2. Kept(1) = {1}
          BY DEF Kept
    <3>3. ShelfIs(1)
          BY <1>3, <2>1, <3>1, <3>2 DEF ShelfIs
    <3>4. 1 \in Nat
          OBVIOUS
    <3> QED BY <1>3, <2>1, <3>1, <3>3, <3>4 DEF ReleasesInv
  <2>2. CASE ~released
    <3>1. releases = {}
          BY <1>1, <2>2
    <3>2. Kept(0) = {}
          BY DEF Kept
    <3>3. ShelfIs(0)
          BY <1>3, <2>2, <3>1, <3>2 DEF ShelfIs
    <3>4. 0 \in Nat
          OBVIOUS
    <3> QED BY <3>1, <3>3, <3>4 DEF ReleasesInv
  <2> QED BY <2>1, <2>2
<1>11. TimesInv
      BY <1>4, <1>6, <1>7 DEF TimesInv, NoRequest
<1>12. SavedInv
  <2>1. saves = {[version |-> 1, payload |-> d]}
        BY <1>1
  <2> QED BY <1>3, <2>1 DEF SavedInv, SavedAsItStands
<1>13. RefusalsInv
      BY <1>6, <1>7 DEF RefusalsInv
<1>14. ASSUME NEW c \in Callers PROVE CallOk(c) /\ WriteOk(c) /\ ViewedOk(c) /\ Shown(c)
  <2>1. calls[c] = NoRequest /\ viewed[c] = NothingShown
        BY <1>4
  <2>2. CallOk(c) /\ WriteOk(c) /\ Shown(c)
        BY <2>1 DEF CallOk, WriteOk, Shown, NoRequest, Succeeded, SaveOps, StatusOps
  <2>3. ViewedOk(c)
        BY <1>3, <2>1 DEF ViewedOk, NothingShown
  <2> QED BY <2>2, <2>3
<1>15. UndefinedInv
      BY <1>4 DEF UndefinedInv
<1>16. AfterInv
      BY <1>4 DEF AfterInv, IsOpen, NoRequest
<1>17. AuthorsInv
  <2> SUFFICES ASSUME NEW k \in FieldKeys, Awaits(k) PROVE FALSE
      BY DEF AuthorsInv
  <2> QED BY <1>1, <1>3 DEF Awaits
<1> QED BY <1>9, <1>10, <1>11, <1>12, <1>13, <1>14, <1>15, <1>16, <1>17 DEF HistoryInv

(* Whatever is remembered of an entry agrees with it at every step.        *)
THEOREM HistoryInductive == HistorySpec => []HistoryInv
<1>1. HistoryInit => HistoryInv
      BY HistoryInitInv
<1>2. HistoryInv /\ [HistoryNext]_historyVars => HistoryInv'
  <2> SUFFICES ASSUME HistoryInv, [HistoryNext]_historyVars PROVE HistoryInv'
      OBVIOUS
  <2> USE DEF HistoryInv
  <2>1. MemoryForm'
        BY MemoryFormStep
  <2>2. ReleasesInv' /\ TimesInv' /\ SavedInv' /\ RefusalsInv'
        BY <2>1, ReleasesStep, TimesStep, SavedStep, RefusalsStep
  <2>3. ASSUME NEW c \in Callers PROVE (CallOk(c) /\ WriteOk(c) /\ ViewedOk(c) /\ Shown(c))'
        BY <2>1, CallOkStep, WriteOkStep, ViewedStep, ShownStep
  <2>4. UndefinedInv' /\ AfterInv' /\ AuthorsInv'
        BY UndefinedStep, AfterStep, AuthorsStep
  <2> QED BY <2>1, <2>2, <2>3, <2>4
<1> QED BY <1>1, <1>2, PTL DEF HistorySpec

(* The name on a field is its last writer's.                               *)
LEMMA BylineTrue ==
  ASSUME HistoryInv
  PROVE  BylinesAreTrue
<1> USE DEF HistoryInv
<1> SUFFICES ASSUME NEW k \in FieldKeys \ unsure,
                    entry.status = "published", entry.payload[k] # entry.snapshot[k],
                    \A c \in Callers : calls[c].outcome = "success" => k \notin calls[c].keys
             PROVE  EntryFieldAuthor(k) = writer[k]
    BY DEF BylinesAreTrue, RefusalsInv
<1>1. PICK a \in Nat : WrittenAt(k, a)
      BY DEF AuthorsInv, Awaits
<1>2. PICK l \in activity : k \in l.keys /\ l.at = a /\ l.actor = writer[k]
      BY <1>1 DEF WrittenAt, Succeeded
<1> DEFINE lines == LinesOf(k)
<1>3. l \in lines
      BY <1>1, <1>2 DEF LinesOf, WrittenAt
<1>4. \A m \in lines : m \in activity /\ k \in m.keys /\ m.at <= a /\ m.at \in Nat
      BY <1>1 DEF LinesOf, WrittenAt, MemoryForm, Activity
<1> HIDE DEF lines
<1> DEFINE newest == NewestOf(lines)
<1>5. newest \in lines /\ \A m \in lines : m.at <= newest.at
      BY <1>2, <1>3, <1>4 DEF NewestOf
<1> HIDE DEF newest
<1>6. newest.at = l.at
      BY <1>2, <1>3, <1>4, <1>5
<1>7. newest = l
      BY <1>2, <1>4, <1>5, <1>6 DEF TimesInv
<1>8. EntryFieldAuthor(k) = newest.actor
      BY <1>3 DEF EntryFieldAuthor, lines, newest
<1> QED BY <1>2, <1>7, <1>8

(* The last of the releases is what delivery serves.                       *)
LEMMA ShelfFollowed ==
  ASSUME MemoryForm, ReleasesInv
  PROVE  ReleasesFollowTheShelf
<1>1. PICK n \in Nat : ShelfIs(n)
      BY DEF ReleasesInv
<1>2. LastNo = n /\ (n = 0 <=> releases = {})
        /\ (n # 0 => \E r \in releases : r.no = n /\ Revision(n) = r)
      BY <1>1, LastRelease
<1>3. {r.no : r \in releases} = {m \in 1..LastNo : m > LastNo - MaxReleases}
      BY <1>1, <1>2 DEF ShelfIs, Kept
<1>4. \A r, s \in releases : r.no < s.no <=> r.version < s.version
      BY DEF ReleasesInv
<1>5. releases # {} =>
        /\ Revision(LastNo).version <= entry.released
        /\ \A k \in KeysIn(entry.snapshot) : entry.snapshot[k] = Revision(LastNo).payload[k]
      BY <1>1, <1>2 DEF ShelfIs
<1>6. releases = {} => entry.released = 0
      BY <1>1, <1>2 DEF ShelfIs
<1> QED BY <1>3, <1>4, <1>5, <1>6 DEF ReleasesFollowTheShelf

(* The memory of an entry agrees with the entry: its releases with what is *)
(* served, its saved versions with the working copy, its lines with who    *)
(* wrote (recordPublishRevision, recordEntryRevision, EntryFieldAuthors).  *)
THEOREM HistoryIsSound == HistorySpec => []HistorySound
<1>1. HistoryInv => HistorySound
  <2> SUFFICES ASSUME HistoryInv PROVE HistorySound
      OBVIOUS
  <2>1. HistoryTypeOK
        BY DEF HistoryInv, MemoryForm, HistoryTypeOK, EntryRow, CallForm, Stages
  <2> QED BY <2>1, BylineTrue, ShelfFollowed DEF HistorySound, HistoryInv, SavedInv
<1> QED BY <1>1, HistoryInductive, PTL

(* A restore moves what its comparison announced and nothing its caller    *)
(* may not write (RestoreEntryRevision, DiffEntryRevision).                *)
THEOREM RestoresHold == HistorySpec => RestoresAsShown
<1> DEFINE Announced ==
      \A c \in Callers :
       /\ Succeeds(c) /\ calls[c].op \in {"update", "restore"}
       => LET call == calls[c]
              changes == ChangedKeysBetween(entry.payload, entry'.payload)
              hidden == UnreadableKeys(c) \cap call.fields IN
          /\ call.keys \subseteq changes /\ changes \cap call.fields \subseteq call.keys
          /\ \A k \in changes \cap call.fields : CanWriteField(c, k)
          /\ (/\ call.op = "restore" /\ call.expect # 0 /\ call.no = viewed[c].no
              /\ viewed[c].fields = call.fields)
             => /\ VisibleKeys(call.keys, hidden) = viewed[c].keys
                /\ viewed[c].hidden <=> call.keys \cap hidden # {}
                /\ viewed[c].dropped = call.dropped
<1>1. HistoryInv /\ [HistoryNext]_historyVars => [Announced]_historyVars
      BY RestoreStep DEF HistoryInv
<1>2. [][Announced]_historyVars => RestoresAsShown
      BY DEF RestoresAsShown
<1> HIDE DEF Announced
<1> QED BY <1>1, <1>2, HistoryInductive, PTL DEF HistorySpec

-----------------------------------------------------------------------------
(* Paging.                                                                 *)

(* The place of an entry in a sort: what its cursor would hold.            *)
Marks == [first : {FALSE}, sort : Sorts, created : Nat, value : Fields, id : Ids]

Ahead(s, p, q) ==
  IF s = "none" THEN p.created > q.created \/ (p.created = q.created /\ p.id > q.id)
  ELSE \/ p.value # Absent /\ q.value = Absent
       \/ p.value # Absent /\ q.value # Absent
            /\ (IF s = "desc" THEN q.value < p.value ELSE q.value > p.value)
       \/ p.value = q.value /\ (IF s = "desc" THEN q.id < p.id ELSE q.id > p.id)

Mark(s, e) == [first |-> FALSE, sort |-> s, created |-> CreatedAt[e], value |-> published[e], id |-> e]

LEMMA FieldsAreNumbers == Fields \subseteq Int /\ Ids \subseteq Nat
BY PagingAssumption DEF Fields, Absent

(* The order of a sort is a strict order, and total but for an entry and   *)
(* itself.                                                                 *)
LEMMA AheadOrder ==
  ASSUME NEW s \in Sorts
  PROVE  /\ \A p \in Marks : ~Ahead(s, p, p)
         /\ \A p, q \in Marks : p.id # q.id => Ahead(s, p, q) \/ Ahead(s, q, p)
         /\ \A p, q, r \in Marks : Ahead(s, p, q) /\ Ahead(s, q, r) => Ahead(s, p, r)
<1> USE PagingAssumption
<1>1. \A p \in Marks : p.created \in Nat /\ p.id \in Nat /\ p.value \in Int
      BY FieldsAreNumbers DEF Marks
<1>2. \A p \in Marks : ~Ahead(s, p, p)
      BY <1>1 DEF Ahead
<1>3. \A p, q \in Marks : p.id # q.id => Ahead(s, p, q) \/ Ahead(s, q, p)
      BY <1>1 DEF Ahead
<1>4. ASSUME NEW p \in Marks, NEW q \in Marks, NEW r \in Marks, Ahead(s, p, q), Ahead(s, q, r)
      PROVE  Ahead(s, p, r)
  <2>1. CASE s = "none"
        BY <1>1, <1>4, <2>1 DEF Ahead
  <2>2. CASE s = "desc"
        BY <1>1, <1>4, <2>2 DEF Ahead
  <2>3. CASE s = "asc"
        BY <1>1, <1>4, <2>3 DEF Ahead
  <2> QED BY <2>1, <2>2, <2>3 DEF Sorts
<1> QED BY <1>2, <1>3, <1>4

LEMMA PrecedesIsAhead ==
  ASSUME PagingTypeOK, NEW x \in Matching, NEW y \in Matching
  PROVE  /\ Mark(sort, x) \in Marks /\ Mark(sort, x).id = x
         /\ Precedes(x, y) <=> Ahead(sort, Mark(sort, x), Mark(sort, y))
<1>1. Mark(sort, x) \in Marks /\ Mark(sort, y) \in Marks
      BY PagingAssumption DEF PagingTypeOK, Matching, Mark, Marks
<1>2. /\ Mark(sort, x).created = CreatedAt[x] /\ Mark(sort, x).value = published[x]
      /\ Mark(sort, x).id = x
      /\ Mark(sort, y).created = CreatedAt[y] /\ Mark(sort, y).value = published[y]
      /\ Mark(sort, y).id = y
      BY DEF Mark
<1> QED BY <1>1, <1>2 DEF Precedes, Ahead, PredicateColumn, Cmp

LEMMA SeeksIsAhead ==
  ASSUME PagingTypeOK, ~cursor.first, cursor \in Marks, NEW e \in Matching
  PROVE  Seeks(e) <=> Ahead(sort, cursor, Mark(sort, e))
<1>1. /\ Mark(sort, e).created = CreatedAt[e] /\ Mark(sort, e).value = published[e]
      /\ Mark(sort, e).id = e
      BY DEF Mark
<1>2. /\ published[e] \in Int /\ cursor.value \in Int /\ CreatedAt[e] \in Nat /\ cursor.created \in Nat
      /\ e \in Nat /\ cursor.id \in Nat
  <2>1. published \in [Ids -> Fields \cup {Hidden}] /\ e \in Ids /\ published[e] # Hidden
        BY DEF PagingTypeOK, Matching
  <2> QED BY <2>1, PagingAssumption, FieldsAreNumbers DEF Marks
<1> QED BY <1>1, <1>2 DEF Seeks, Ahead, PredicateColumn, Cmp

-----------------------------------------------------------------------------
(* The places of the entries of a page: 0, 1, and so on in their order.    *)
LEMMA Places ==
  ASSUME PagingTypeOK, NEW rest \in SUBSET Matching
  PROVE  /\ IsFiniteSet(rest) /\ Cardinality(rest) \in Nat
         /\ \A e \in rest : Place(e, rest) \in Nat /\ Place(e, rest) < Cardinality(rest)
         /\ \A x, y \in rest : Precedes(x, y) <=> Place(x, rest) < Place(y, rest)
         /\ \A n \in Nat : n < Cardinality(rest) => \E e \in rest : Place(e, rest) = n
<1> DEFINE Before(e) == {x \in rest : Precedes(x, e)}
           n == Cardinality(rest)
<1>0. IsFiniteSet(rest) /\ n \in Nat
  <2>1. rest \in SUBSET Ids
        BY DEF Matching
  <2> QED BY <2>1, FS_Subset, FS_CardinalityType, PagingAssumption
<1>1. /\ \A x \in rest : ~Precedes(x, x)
      /\ \A x, y \in rest : x # y => Precedes(x, y) \/ Precedes(y, x)
      /\ \A x, y, z \in rest : Precedes(x, y) /\ Precedes(y, z) => Precedes(x, z)
  <2>1. sort \in Sorts
        BY DEF PagingTypeOK
  <2>2. \A x \in rest : Mark(sort, x) \in Marks /\ Mark(sort, x).id = x
        BY PrecedesIsAhead
  <2>3. \A x, y \in rest : Precedes(x, y) <=> Ahead(sort, Mark(sort, x), Mark(sort, y))
        BY PrecedesIsAhead
  <2> QED BY <2>1, <2>2, <2>3, AheadOrder
<1>2. \A e \in rest : Place(e, rest) = Cardinality(Before(e)) /\ Before(e) \in SUBSET rest
      BY DEF Place
<1>3. \A e \in rest : Place(e, rest) \in Nat /\ Place(e, rest) < n
  <2> TAKE e \in rest
  <2>1. Before(e) \in SUBSET (rest \ {e})
        BY <1>1
  <2>2. IsFiniteSet(rest \ {e}) /\ Cardinality(rest \ {e}) = n - 1
        BY <1>0, FS_RemoveElement
  <2> HIDE DEF Before
  <2>3. IsFiniteSet(Before(e)) /\ Cardinality(Before(e)) <= n - 1
        BY <2>1, <2>2, FS_Subset
  <2>4. Cardinality(Before(e)) \in Nat
        BY <2>3, FS_CardinalityType
  <2> QED BY <1>0, <1>2, <2>3, <2>4
<1>4. ASSUME NEW x \in rest, NEW y \in rest, Precedes(x, y)
      PROVE  Place(x, rest) < Place(y, rest)
  <2>1. Before(x) \in SUBSET (Before(y) \ {x}) /\ x \in Before(y)
        BY <1>1, <1>4
  <2> HIDE DEF Before
  <2>2. IsFiniteSet(Before(y))
        BY <1>0, <1>2, FS_Subset
  <2>3. IsFiniteSet(Before(y) \ {x}) /\ Cardinality(Before(y) \ {x}) = Cardinality(Before(y)) - 1
        BY <2>1, <2>2, FS_RemoveElement
  <2>4. Cardinality(Before(x)) <= Cardinality(Before(y)) - 1
        BY <2>1, <2>3, FS_Subset
  <2> QED BY <1>2, <1>3, <2>4
<1>5. ASSUME NEW x \in rest, NEW y \in rest, Place(x, rest) < Place(y, rest)
      PROVE  Precedes(x, y)
  <2>1. x # y /\ ~Precedes(y, x)
        BY <1>3, <1>4, <1>5
  <2> QED BY <1>1, <2>1
<1>6. ASSUME NEW m \in Nat, m < n PROVE \E e \in rest : Place(e, rest) = m
  <2> DEFINE f == [e \in rest |-> Place(e, rest)]
             image == {f[e] : e \in rest}
             all == 0 .. (n - 1)
  <2>1. \A e \in rest : f[e] = Place(e, rest)
        OBVIOUS
  <2>2. \A e \in rest : f[e] \in all
        BY <1>0, <1>3, <2>1
  <2>3. \A x, y \in rest : f[x] = f[y] => x = y
        BY <1>1, <1>3, <1>4, <2>1
  <2>4. IsFiniteSet(all) /\ Cardinality(all) = n
        BY <1>0, FS_Interval
  <2> HIDE DEF f, all
  <2>5. f \in [rest -> image]
        BY DEF f
  <2>6. f \in Bijection(rest, image)
    <3>1. f \in Injection(rest, image)
          BY <2>3, <2>5 DEF Injection, IsInjective
    <3>2. f \in Surjection(rest, image)
          BY <2>5 DEF Surjection
    <3> QED BY <3>1, <3>2 DEF Bijection
  <2>7. Cardinality(image) = n
        BY <1>0, <2>6, FS_Bijection DEF ExistsBijection
  <2>8. image \in SUBSET all
        BY <2>2
  <2> HIDE DEF image
  <2>9. image = all
        BY <2>4, <2>7, <2>8, FS_Subset
  <2>10. m \in image
        BY <1>0, <1>6, <2>9 DEF all
  <2> QED BY <2>1, <2>10 DEF image
<1> QED BY <1>0, <1>3, <1>4, <1>5, <1>6

-----------------------------------------------------------------------------
(* What a traversal has behind it.                                         *)
Behind(e) == ended \/ (~cursor.first /\ ~Ahead(cursor.sort, cursor, Mark(cursor.sort, e)))

PagesInv ==
  /\ PagingTypeOK /\ (cursor = FirstPage \/ cursor \in Marks)
  /\ \A e \in Ids \ moved : listed[e] = IF e \in Matching /\ Behind(e) THEN 1 ELSE 0

LEMMA PagesFormStep ==
  ASSUME PagesInv, [PagingNext]_pagingVars
  PROVE  PagingTypeOK' /\ (cursor' = FirstPage \/ cursor' \in Marks)
<1> USE PagingAssumption DEF PagesInv
<1>1. ASSUME NEW e \in Ids, NEW held \in Fields \cup {Unwritten}, NEW out \in Fields \cup {Hidden},
             held = Unwritten => out = Hidden, Write(e, held, out)
      PROVE  PagingTypeOK' /\ (cursor' = FirstPage \/ cursor' \in Marks)
  <2>1. /\ payload' = [payload EXCEPT ![e] = held] /\ published' = [published EXCEPT ![e] = out]
        /\ UNCHANGED <<sort, equals, cursor, listed, ended>>
        /\ writes' = writes + 1 /\ writes < MaxWrites /\ moved' \subseteq moved \cup {e}
        BY <1>1 DEF Write
  <2>2. payload' \in [Ids -> Fields \cup {Unwritten}] /\ published' \in [Ids -> Fields \cup {Hidden}]
        BY <2>1 DEF PagingTypeOK
  <2>3. \A i \in Ids : payload'[i] = Unwritten => published'[i] = Hidden
        BY <1>1, <2>1 DEF PagingTypeOK
  <2>4. writes' \in 0 .. MaxWrites
        BY <2>1 DEF PagingTypeOK
  <2> QED BY <2>1, <2>2, <2>3, <2>4 DEF PagingTypeOK
<1>2. ASSUME NEW e \in Ids, Compose(e) \/ Revise(e) \/ Release(e) \/ Retract(e) \/ Remove(e)
      PROVE  \E held \in Fields \cup {Unwritten}, out \in Fields \cup {Hidden} :
               (held = Unwritten => out = Hidden) /\ Write(e, held, out)
  <2>0. payload[e] \in Fields \cup {Unwritten} /\ published[e] \in Fields \cup {Hidden}
        BY DEF PagingTypeOK
  <2>1. \A v \in Fields : v # Unwritten
        BY DEF Fields, Absent, Unwritten
  <2>2. CASE Compose(e)
        BY <2>1, <2>2 DEF Compose
  <2>3. CASE Revise(e)
        BY <2>0, <2>1, <2>3 DEF Revise
  <2>4. CASE Release(e)
        BY <2>0, <2>4 DEF Release
  <2>5. CASE Retract(e)
        BY <2>0, <2>5 DEF Retract
  <2>6. CASE Remove(e)
        BY <2>6 DEF Remove
  <2> QED BY <1>2, <2>2, <2>3, <2>4, <2>5, <2>6
<1>3. CASE NextPage
  <2>1. /\ UNCHANGED <<payload, published, sort, equals, moved, writes>>
        /\ ended' \in BOOLEAN
        BY <1>3 DEF NextPage
  <2>2. listed' \in [Ids -> Nat]
    <3> DEFINE page == {e \in {i \in Matching : Seeks(i)} : Place(e, {i \in Matching : Seeks(i)}) < Limit}
               F(e) == IF e \in page THEN listed[e] + 1 ELSE listed[e]
    <3>1. listed' = [e \in Ids |-> F(e)]
          BY <1>3 DEF NextPage
    <3>2. \A e \in Ids : F(e) \in Nat
          BY DEF PagingTypeOK
    <3> HIDE DEF F
    <3> QED BY <3>1, <3>2
  <2>3. cursor' = cursor \/ cursor' \in Marks
    <3> DEFINE rest == {e \in Matching : Seeks(e)}
    <3>1. CASE Cardinality(rest) > Limit
      <4>1. cursor' = EncodeCursor(Last(rest))
            BY <1>3, <3>1 DEF NextPage
      <4>2. PICK e \in rest : Place(e, rest) = Limit - 1
        <5>1. rest \in SUBSET Matching
              OBVIOUS
        <5> HIDE DEF rest
        <5>2. Cardinality(rest) \in Nat /\ \A n \in Nat : n < Cardinality(rest) => \E e \in rest : Place(e, rest) = n
              BY <5>1, Places
        <5> QED BY <3>1, <5>2
      <4> HIDE DEF rest
      <4>3. Last(rest) \in rest
            BY <4>2 DEF Last
      <4>4. Last(rest) \in Matching
            BY <4>3 DEF rest
      <4>5. EncodeCursor(Last(rest)) \in Marks
            BY <4>4, PrecedesIsAhead DEF EncodeCursor, Mark
      <4> QED BY <4>1, <4>5
    <3>2. CASE ~(Cardinality(rest) > Limit)
          BY <1>3, <3>2 DEF NextPage
    <3> QED BY <3>1, <3>2
  <2> QED BY <2>1, <2>2, <2>3 DEF PagingTypeOK, Marks
<1>4. CASE ChangeSort
  <2>1. ~cursor.first /\ (sort' \in Sorts \/ sort' = cursor.sort)
          /\ UNCHANGED <<payload, published, equals, cursor, listed, ended, moved, writes>>
        BY <1>4 DEF ChangeSort
  <2> QED BY <2>1 DEF PagingTypeOK
<1>5. CASE UNCHANGED pagingVars
      BY <1>5 DEF pagingVars, PagingTypeOK
<1> QED BY <1>1, <1>2, <1>3, <1>4, <1>5 DEF PagingNext

(* A page lists what the seek had left, up to the cursor that it hands out.*)
LEMMA PageListed ==
  ASSUME PagesInv, PagingTypeOK', NextPage, NEW e \in Ids \ moved
  PROVE  listed'[e] = IF e \in Matching /\ Behind(e)' THEN 1 ELSE 0
<1> DEFINE rest == {i \in Matching : Seeks(i)}
           page == {i \in rest : Place(i, rest) < Limit}
<1>1. /\ ~ended /\ (~cursor.first => cursor.sort = sort)
      /\ listed' = [i \in Ids |-> IF i \in page THEN listed[i] + 1 ELSE listed[i]]
      /\ ended' = ~(Cardinality(rest) > Limit)
      /\ cursor' = IF Cardinality(rest) > Limit THEN EncodeCursor(Last(rest)) ELSE cursor
      /\ published' = published
      BY DEF NextPage, CursorMatches
<1>2. rest \in SUBSET Matching
      OBVIOUS
<1>3. /\ Cardinality(rest) \in Nat /\ Limit \in Nat \ {0} /\ sort \in Sorts
      /\ \A i \in rest : Place(i, rest) \in Nat /\ Place(i, rest) < Cardinality(rest)
      /\ \A x, y \in rest : Precedes(x, y) <=> Place(x, rest) < Place(y, rest)
      /\ \A n \in Nat : n < Cardinality(rest) => \E i \in rest : Place(i, rest) = n
  <2> HIDE DEF rest
  <2> QED BY <1>2, Places, PagingAssumption DEF PagesInv, PagingTypeOK
<1>4. /\ e \in Ids /\ listed'[e] = IF e \in page THEN listed[e] + 1 ELSE listed[e]
      /\ listed[e] = IF e \in Matching /\ Behind(e) THEN 1 ELSE 0
      BY <1>1 DEF PagesInv
<1>5. e \in Matching => (Behind(e) <=> e \notin rest)
  <2> SUFFICES ASSUME e \in Matching PROVE Behind(e) <=> ~Seeks(e)
      OBVIOUS
  <2>1. CASE cursor.first
        BY <1>1, <2>1 DEF Behind, Seeks
  <2>2. CASE ~cursor.first
    <3>1. cursor \in Marks /\ cursor.sort = sort
          BY <1>1, <2>2 DEF PagesInv, FirstPage
    <3>2. Seeks(e) <=> Ahead(sort, cursor, Mark(sort, e))
          BY <2>2, <3>1, SeeksIsAhead DEF PagesInv
    <3> QED BY <1>1, <2>2, <3>1, <3>2 DEF Behind
  <2> QED BY <2>1, <2>2
<1>6. ASSUME Cardinality(rest) > Limit, e \in Matching
      PROVE  Behind(e)' <=> e \notin rest \/ Place(e, rest) < Limit
  <2> DEFINE last == Last(rest)
  <2>1. last \in rest /\ Place(last, rest) = Limit - 1
    <3> HIDE DEF rest
    <3>1. PICK i \in rest : Place(i, rest) = Limit - 1
          BY <1>3, <1>6
    <3> QED BY <3>1 DEF Last
  <2> HIDE DEF last
  <2>2. cursor' = Mark(sort, last)
        BY <1>1, <1>6 DEF EncodeCursor, Mark, last
  <2>3. last \in Matching /\ Seeks(last)
        BY <2>1
  <2>4. /\ Mark(sort, last) \in Marks /\ Mark(sort, e) \in Marks
        /\ Mark(sort, last).sort = sort /\ ~Mark(sort, last).first
        BY <1>6, <2>3, PrecedesIsAhead DEF PagesInv, Mark
  <2>5. Behind(e)' <=> ~Ahead(sort, Mark(sort, last), Mark(sort, e))
    <3>1. ~ended'
          BY <1>1, <1>6
    <3>2. cursor'.sort = sort /\ ~cursor'.first
          BY <2>2, <2>4
    <3>3. Behind(e)' <=> ~Ahead(cursor'.sort, cursor', [first |-> FALSE, sort |-> cursor'.sort,
              created |-> CreatedAt[e], value |-> published'[e], id |-> e])
          BY <3>1, <3>2 DEF Behind, Mark, Ahead
    <3> QED BY <1>1, <2>2, <3>2, <3>3 DEF Mark
  <2>6. CASE e \in rest
    <3>1. Precedes(last, e) <=> Ahead(sort, Mark(sort, last), Mark(sort, e))
          BY <1>6, <2>3, PrecedesIsAhead DEF PagesInv
    <3>2. Precedes(last, e) <=> Place(last, rest) < Place(e, rest)
      <4> HIDE DEF rest
      <4> QED BY <1>3, <2>1, <2>6
    <3>3. Place(e, rest) \in Nat
          BY <1>3, <2>6
    <3> HIDE DEF rest
    <3> QED BY <1>3, <2>1, <2>5, <2>6, <3>1, <3>2, <3>3
  <2>7. CASE e \notin rest
    <3>1. ~Seeks(e) /\ ~cursor.first
          BY <1>6, <2>7 DEF Seeks
    <3>2. cursor \in Marks
          BY <3>1 DEF PagesInv, FirstPage
    <3>3. ~Ahead(sort, cursor, Mark(sort, e)) /\ Ahead(sort, cursor, Mark(sort, last))
          BY <1>6, <2>3, <3>1, <3>2, SeeksIsAhead DEF PagesInv
    <3>4. ~Ahead(sort, Mark(sort, last), Mark(sort, e))
          BY <1>3, <2>4, <3>2, <3>3, AheadOrder
    <3> QED BY <2>5, <2>7, <3>4
  <2> QED BY <2>6, <2>7
<1>7. CASE Cardinality(rest) > Limit
  <2> HIDE DEF rest
  <2>1. e \in page <=> e \in rest /\ Place(e, rest) < Limit
        OBVIOUS
  <2> HIDE DEF page
  <2>2. e \in rest => e \in Matching
        BY <1>2
  <2> QED BY <1>4, <1>5, <1>6, <1>7, <2>1, <2>2
<1>8. CASE ~(Cardinality(rest) > Limit)
  <2>1. Behind(e)'
        BY <1>1, <1>8 DEF Behind
  <2> HIDE DEF rest
  <2>2. e \in page <=> e \in rest
        BY <1>3, <1>8
  <2> HIDE DEF page
  <2>3. e \in rest => e \in Matching
        BY <1>2
  <2> QED BY <1>4, <1>5, <2>1, <2>2, <2>3
<1> QED BY <1>7, <1>8

(* Everything that stays put and lies behind the cursor was listed once.   *)
THEOREM PagesInductive == PagingSpec => []PagesInv
<1>1. PagingInit => PagesInv
  <2> SUFFICES ASSUME PagingInit PROVE PagesInv
      OBVIOUS
  <2>1. PICK held \in [Ids -> Fields \cup {Unwritten}], out \in SUBSET Ids :
          /\ payload = held
          /\ published = [e \in Ids |-> IF e \in out THEN held[e] ELSE Hidden]
          /\ \A e \in out : held[e] # Unwritten
        BY DEF PagingInit
  <2>2. /\ published \in [Ids -> Fields \cup {Hidden}]
        /\ \A e \in Ids : payload[e] = Unwritten => published[e] = Hidden
        BY <2>1
  <2>3. cursor = FirstPage /\ cursor.first /\ ~ended /\ \A e \in Ids : listed[e] = 0
        BY DEF PagingInit, FirstPage
  <2>4. PagingTypeOK
    <3>1. payload \in [Ids -> Fields \cup {Unwritten}]
          BY <2>1
    <3>2. sort \in Sorts /\ equals \in Fields /\ moved \subseteq Ids /\ ended \in BOOLEAN
          BY DEF PagingInit
    <3>3. listed \in [Ids -> Nat]
          BY DEF PagingInit
    <3>4. writes \in 0 .. MaxWrites
          BY PagingAssumption DEF PagingInit
    <3> QED BY <2>2, <2>3, <3>1, <3>2, <3>3, <3>4 DEF PagingTypeOK
  <2> QED BY <2>3, <2>4 DEF PagesInv, Behind
<1>2. PagesInv /\ [PagingNext]_pagingVars => PagesInv'
  <2> SUFFICES ASSUME PagesInv, [PagingNext]_pagingVars PROVE PagesInv'
      OBVIOUS
  <2>1. PagingTypeOK' /\ (cursor' = FirstPage \/ cursor' \in Marks)
        BY PagesFormStep
  <2>2. ASSUME UNCHANGED <<equals, cursor, listed, ended>>, moved \subseteq moved',
               \A i \in Ids \ moved' : published'[i] = published[i], NEW e \in Ids \ moved'
        PROVE  listed'[e] = IF (e \in Matching /\ Behind(e))' THEN 1 ELSE 0
    <3>1. e \in Ids \ moved /\ published'[e] = published[e]
          BY <2>2
    <3>2. (e \in Matching)' <=> e \in Matching
          BY <2>2, <3>1 DEF Matching, PredicateColumn
    <3>3. Behind(e)' <=> Behind(e)
          BY <2>2, <3>1 DEF Behind, Ahead, Mark
    <3> QED BY <2>2, <3>1, <3>2, <3>3 DEF PagesInv
  <2>3. ASSUME NEW i \in Ids, Compose(i) \/ Revise(i) \/ Release(i) \/ Retract(i) \/ Remove(i)
        PROVE  PagesInv'
    <3>1. PICK held, out : Write(i, held, out)
          BY <2>3 DEF Compose, Revise, Release, Retract, Remove
    <3>2. /\ UNCHANGED <<equals, cursor, listed, ended>> /\ moved \subseteq moved'
          /\ \A j \in Ids \ moved' : published'[j] = published[j]
          BY <3>1 DEF Write, PagesInv, PagingTypeOK
    <3> QED BY <2>1, <2>2, <3>2 DEF PagesInv
  <2>4. CASE NextPage
    <3>1. moved' = moved /\ Matching' = Matching
          BY <2>4 DEF NextPage, Matching, PredicateColumn
    <3> QED BY <2>1, <2>4, <3>1, PageListed DEF PagesInv
  <2>5. CASE ChangeSort \/ UNCHANGED pagingVars
    <3>1. /\ UNCHANGED <<equals, cursor, listed, ended, moved, published>>
          BY <2>5 DEF ChangeSort, pagingVars
    <3> QED BY <2>1, <2>2, <3>1 DEF PagesInv
  <2> QED BY <2>3, <2>4, <2>5 DEF PagingNext
<1> QED BY <1>1, <1>2, PTL DEF PagingSpec

(* A traversal that has ended listed what stayed put exactly once, in any  *)
(* order, with ties and without values (ListEntries, cursor.go).           *)
THEOREM PagesAreSound == PagingSpec => []PagesSound
<1>1. PagesInv => PagesSound
      BY DEF PagesInv, PagesSound, SettledEntriesListedOnce, Behind
<1> QED BY <1>1, PagesInductive, PTL

-----------------------------------------------------------------------------
(* DeliveryUsage.                                                          *)

(* How AllNodes adds up: over the sets of replicas, each time without the   *)
(* one that CHOOSE names.                                                  *)
AnyOf(T) == CHOOSE n \in T : TRUE
AddsUp(f, s, it, D) ==
  it = [T \in D |-> IF T = {} THEN 0 ELSE f[AnyOf(T)][s] + it[T \ {AnyOf(T)}]]

LEMMA AllNodesIs ==
  ASSUME NEW f, NEW s
  PROVE  AllNodes(f, s) = (CHOOSE it : AddsUp(f, s, it, SUBSET Nodes))[Nodes]
BY DEF AllNodes, MapThenFoldSet, AnyOf, AddsUp

(* The sums exist: from the sets of k replicas to those of k + 1.          *)
UpTo(k) == {T \in SUBSET Nodes : Cardinality(T) <= k}

LEMMA SumsExist ==
  ASSUME NEW f, NEW s
  PROVE  \E it : AddsUp(f, s, it, SUBSET Nodes)
<1> DEFINE Bad == {k \in Nat : ~ \E it : AddsUp(f, s, it, UpTo(k))}
<1>0. \A T \in SUBSET Nodes : IsFiniteSet(T) /\ Cardinality(T) \in Nat
  BY UsageAssumption, FS_Subset, FS_CardinalityType
<1>1. SUFFICES Bad = {}
  <2>1. Cardinality(Nodes) \in Nat
    BY <1>0
  <2>2. UpTo(Cardinality(Nodes)) = SUBSET Nodes
    BY UsageAssumption, FS_Subset DEF UpTo
  <2> QED BY <2>1, <2>2
<1>2. SUFFICES ASSUME Bad # {} PROVE FALSE
  OBVIOUS
<1>3. PICK k \in Bad : \A w \in Bad : k <= w
  <2>1. Bad \in SUBSET Nat /\ Bad # {}
    BY <1>2
  <2> HIDE DEF Bad
  <2> QED BY <2>1, NatMin
<1>4. CASE k = 0
  <2>1. UpTo(0) = {{}}
    BY <1>0, FS_EmptySet DEF UpTo
  <2> DEFINE it == [T \in {{}} |-> 0]
  <2>2. AddsUp(f, s, it, {{}})
    BY DEF AddsUp
  <2> HIDE DEF it
  <2> QED BY <1>4, <2>1, <2>2
<1>5. CASE k # 0
  <2>1. k \in Nat /\ k - 1 \in Nat /\ k - 1 \notin Bad
    BY <1>3, <1>5
  <2>2. PICK it : AddsUp(f, s, it, UpTo(k - 1))
    BY <2>1
  <2> DEFINE up == [T \in UpTo(k) |->
                      IF T = {} THEN 0 ELSE f[AnyOf(T)][s] + it[T \ {AnyOf(T)}]]
  <2>3. \A T \in UpTo(k) : T # {} => T \ {AnyOf(T)} \in UpTo(k - 1)
    <3> SUFFICES ASSUME NEW T \in UpTo(k), T # {} PROVE T \ {AnyOf(T)} \in UpTo(k - 1)
      OBVIOUS
    <3>1. AnyOf(T) \in T
      BY DEF AnyOf
    <3>2. IsFiniteSet(T) /\ T \in SUBSET Nodes /\ Cardinality(T) <= k /\ Cardinality(T) \in Nat
      BY <1>0 DEF UpTo
    <3>3. Cardinality(T \ {AnyOf(T)}) = Cardinality(T) - 1
      BY <3>1, <3>2, FS_RemoveElement
    <3> QED BY <3>2, <3>3, <2>1 DEF UpTo
  <2>4. \A U \in UpTo(k - 1) : U \in UpTo(k)
    BY <1>0, <2>1 DEF UpTo
  <2>5. \A U \in UpTo(k - 1) : it[U] = up[U]
    BY <2>2, <2>4 DEF AddsUp
  <2>6. up = [T \in UpTo(k) |-> IF T = {} THEN 0 ELSE f[AnyOf(T)][s] + up[T \ {AnyOf(T)}]]
    <3>1. \A T \in UpTo(k) : T # {} => it[T \ {AnyOf(T)}] = up[T \ {AnyOf(T)}]
      BY <2>3, <2>5
    <3>2. \A T \in UpTo(k) : up[T] = IF T = {} THEN 0 ELSE f[AnyOf(T)][s] + it[T \ {AnyOf(T)}]
      OBVIOUS
    <3> HIDE DEF up
    <3>3. \A T \in UpTo(k) : up[T] = IF T = {} THEN 0 ELSE f[AnyOf(T)][s] + up[T \ {AnyOf(T)}]
      BY <3>1, <3>2
    <3>4. up = [T \in UpTo(k) |-> up[T]]
      BY DEF up
    <3> QED BY <3>3, <3>4
  <2>7. AddsUp(f, s, up, UpTo(k))
    BY <2>6 DEF AddsUp
  <2> HIDE DEF up
  <2> QED BY <2>7, <1>3
<1> QED BY <1>4, <1>5

Counts == [Nodes -> [Sites -> Nat]]
AgreeOff(f, g, s, n) == \A m \in Nodes \ {n} : f[m][s] = g[m][s]

MovesBy(a, b, x, y) == a \in Nat /\ b \in Nat /\ b + x = a + y

(* Sums of counts that differ at one replica differ by as much as they do. *)
LEMMA SumsDiffer ==
  ASSUME NEW f \in Counts, NEW g \in Counts, NEW s \in Sites, NEW n \in Nodes,
         AgreeOff(f, g, s, n),
         NEW i, NEW j, AddsUp(f, s, i, SUBSET Nodes) /\ AddsUp(g, s, j, SUBSET Nodes)
  PROVE  MovesBy(i[Nodes], j[Nodes], f[n][s], g[n][s])
<1> DEFINE Good(T) == /\ i[T] \in Nat /\ j[T] \in Nat
                      /\ n \notin T => i[T] = j[T]
                      /\ n \in T => j[T] + f[n][s] = i[T] + g[n][s]
           Bad == {Cardinality(T) : T \in {U \in SUBSET Nodes : ~Good(U)}}
<1>0. \A T \in SUBSET Nodes : IsFiniteSet(T) /\ Cardinality(T) \in Nat
  BY UsageAssumption, FS_Subset, FS_CardinalityType
<1>1. SUFFICES ASSUME ~Good(Nodes) PROVE FALSE
  BY DEF MovesBy
<1>2. Bad \in SUBSET Nat /\ Bad # {}
  BY <1>0, <1>1, Zenon
<1>3. PICK k \in Bad : \A w \in Bad : k <= w
  BY <1>2, NatMin
<1>4. PICK T \in SUBSET Nodes : ~Good(T) /\ k = Cardinality(T)
  BY <1>3, Zenon
<1>5. \A U \in SUBSET Nodes : Cardinality(U) < Cardinality(T) => Good(U)
  <2> SUFFICES ASSUME NEW U \in SUBSET Nodes, ~Good(U), Cardinality(U) < Cardinality(T) PROVE FALSE
    BY Zenon
  <2>1. Cardinality(U) \in Bad
    BY Zenon
  <2> HIDE DEF Bad, Good
  <2> QED BY <1>0, <2>1, <1>3, <1>4
<1>6. /\ i[T] = IF T = {} THEN 0 ELSE f[AnyOf(T)][s] + i[T \ {AnyOf(T)}]
      /\ j[T] = IF T = {} THEN 0 ELSE g[AnyOf(T)][s] + j[T \ {AnyOf(T)}]
  BY DEF AddsUp
<1>7. CASE T = {}
  BY <1>4, <1>6, <1>7
<1>8. CASE T # {}
  <2> DEFINE c == AnyOf(T)
             R == T \ {c}
  <2>1. c \in T
    BY <1>8 DEF AnyOf
  <2>2. Cardinality(R) < Cardinality(T) /\ R \in SUBSET Nodes
    BY <2>1, <1>0, FS_RemoveElement
  <2>3. Good(R)
    BY <2>2, <1>5, Zenon
  <2>4. i[T] = f[c][s] + i[R] /\ j[T] = g[c][s] + j[R]
    BY <1>6, <1>8
  <2>5. f[c][s] \in Nat /\ g[c][s] \in Nat /\ f[n][s] \in Nat /\ g[n][s] \in Nat /\ c \in Nodes
    BY <2>1 DEF Counts
  <2>6. c # n => f[c][s] = g[c][s]
    BY <2>5 DEF AgreeOff
  <2>7. c = n => n \notin R
    OBVIOUS
  <2>8. c # n => (n \in T <=> n \in R)
    OBVIOUS
  <2>9. Good(T)
    <3> HIDE DEF c, R
    <3>1. CASE c = n
      BY <2>3, <2>4, <2>5, <2>7, <2>1, <3>1
    <3>2. CASE c # n
      BY <2>3, <2>4, <2>5, <2>6, <2>8, <3>2
    <3> QED BY <3>1, <3>2
  <2> QED BY <2>9, <1>4
<1> QED BY <1>7, <1>8

LEMMA SumsDifferAll ==
  \A f, g \in Counts : \A s \in Sites, n \in Nodes : \A i, j :
     AgreeOff(f, g, s, n) /\ AddsUp(f, s, i, SUBSET Nodes) /\ AddsUp(g, s, j, SUBSET Nodes)
       => MovesBy(i[Nodes], j[Nodes], f[n][s], g[n][s])
BY SumsDiffer

LEMMA AllNodesAddsUp ==
  ASSUME NEW f, NEW s
  PROVE  \E it : AddsUp(f, s, it, SUBSET Nodes) /\ AllNodes(f, s) = it[Nodes]
<1> DEFINE i == CHOOSE it : AddsUp(f, s, it, SUBSET Nodes)
<1>1. AddsUp(f, s, i, SUBSET Nodes)
  BY SumsExist, Zenon
<1>2. AllNodes(f, s) = i[Nodes]
  BY AllNodesIs
<1> QED BY <1>1, <1>2, Zenon

LEMMA SumMoves ==
  ASSUME NEW f \in Counts, NEW g \in Counts, NEW s \in Sites, NEW n \in Nodes,
         AgreeOff(f, g, s, n)
  PROVE  /\ AllNodes(f, s) \in Nat /\ AllNodes(g, s) \in Nat
         /\ AllNodes(g, s) + f[n][s] = AllNodes(f, s) + g[n][s]
<1>1. PICK i : AddsUp(f, s, i, SUBSET Nodes) /\ AllNodes(f, s) = i[Nodes]
  BY AllNodesAddsUp, Zenon
<1>2. PICK j : AddsUp(g, s, j, SUBSET Nodes) /\ AllNodes(g, s) = j[Nodes]
  BY AllNodesAddsUp, Zenon
<1>3. MovesBy(i[Nodes], j[Nodes], f[n][s], g[n][s])
  <2>1. AddsUp(f, s, i, SUBSET Nodes) /\ AddsUp(g, s, j, SUBSET Nodes)
    BY <1>1, <1>2, Zenon
  <2>2. f \in Counts /\ g \in Counts /\ s \in Sites /\ n \in Nodes /\ AgreeOff(f, g, s, n)
    OBVIOUS
  <2> QED BY <2>1, <2>2, SumsDifferAll
<1> QED BY <1>1, <1>2, <1>3, Zenon DEF MovesBy

LEMMA SumOfZeros ==
  ASSUME NEW s \in Sites
  PROVE  AllNodes([n \in Nodes |-> Zero], s) = 0
<1> DEFINE f == [n \in Nodes |-> Zero]
           i == CHOOSE it : AddsUp(f, s, it, SUBSET Nodes)
<1>1. AddsUp(f, s, i, SUBSET Nodes)
  BY SumsExist, Zenon
<1>2. AllNodes(f, s) = i[Nodes]
  BY AllNodesIs
<1> DEFINE Bad == {Cardinality(T) : T \in {U \in SUBSET Nodes : i[U] # 0}}
<1>0. \A T \in SUBSET Nodes : IsFiniteSet(T) /\ Cardinality(T) \in Nat
  BY UsageAssumption, FS_Subset, FS_CardinalityType
<1>3. SUFFICES ASSUME i[Nodes] # 0 PROVE FALSE
  BY <1>2, Zenon
<1>4. Bad \in SUBSET Nat /\ Bad # {}
  <2>1. Cardinality(Nodes) \in Bad
    BY <1>3, Zenon
  <2>2. Bad \in SUBSET Nat
    BY <1>0, Zenon
  <2> QED BY <2>1, <2>2, Zenon
<1>5. PICK k \in Bad : \A w \in Bad : k <= w
  <2> HIDE DEF Bad
  <2> QED BY <1>4, NatMin
<1>6. PICK T \in SUBSET Nodes : i[T] # 0 /\ k = Cardinality(T)
  BY <1>5, Zenon
<1>7. \A U \in SUBSET Nodes : i[U] # 0 => Cardinality(U) \in Bad
  BY Zenon
<1> HIDE DEF i, Bad
<1>8. i[T] = IF T = {} THEN 0 ELSE f[AnyOf(T)][s] + i[T \ {AnyOf(T)}]
  BY <1>1 DEF AddsUp
<1>9. T # {} /\ AnyOf(T) \in T
  BY <1>6, <1>8 DEF AnyOf
<1>10. T \ {AnyOf(T)} \in SUBSET Nodes /\ Cardinality(T \ {AnyOf(T)}) < Cardinality(T)
  BY <1>9, <1>0, FS_RemoveElement
<1>11. i[T \ {AnyOf(T)}] = 0
  BY <1>0, <1>5, <1>6, <1>7, <1>10
<1>12. f[AnyOf(T)][s] = 0
  BY <1>9 DEF Zero
<1> QED BY <1>6, <1>8, <1>9, <1>11, <1>12

(* What a step changes at one replica and one tenant, it changes of the    *)
(* sums.                                                                   *)
ChangesAt(f, g, n) == g = [f EXCEPT ![n] = g[n]]

LEMMA ChangesSums ==
  ASSUME NEW f \in Counts, NEW g \in Counts, NEW n \in Nodes, ChangesAt(f, g, n), NEW s \in Sites
  PROVE  /\ AllNodes(f, s) \in Nat /\ AllNodes(g, s) \in Nat
         /\ f[n][s] \in Nat /\ g[n][s] \in Nat
         /\ AllNodes(g, s) + f[n][s] = AllNodes(f, s) + g[n][s]
<1>1. f[n][s] \in Nat /\ g[n][s] \in Nat
  BY DEF Counts
<1>2. AgreeOff(f, g, s, n)
  BY DEF AgreeOff, ChangesAt, Counts
<1> QED BY <1>1, <1>2, SumMoves, Zenon

Local(n, s) ==
  served'[n][s] + twice'[s] + reads[s] + unstored[s] + counts[n][s] + pending[n][s]
    = served[n][s] + twice[s] + reads'[s] + unstored'[s] + counts'[n][s] + pending'[n][s]

LEMMA StepBalances ==
  ASSUME UsageTypeOK, ReadsAreAccountedFor, UsageTypeOK', NEW n \in Nodes,
         ChangesAt(served, served', n), ChangesAt(counts, counts', n),
         ChangesAt(pending, pending', n),
         \A s \in Sites : Local(n, s)
  PROVE  ReadsAreAccountedFor'
<1>1. ASSUME NEW s \in Sites
      PROVE  AllNodes(served', s) + twice'[s]
               = reads'[s] + unstored'[s] + AllNodes(counts', s) + AllNodes(pending', s)
  <2>1. /\ counts \in Counts /\ pending \in Counts /\ served \in Counts
        /\ counts' \in Counts /\ pending' \in Counts /\ served' \in Counts
    BY UsageAssumption DEF UsageTypeOK, Counts
  <2>2. /\ reads[s] \in Nat /\ unstored[s] \in Nat /\ twice[s] \in Nat
        /\ reads'[s] \in Nat /\ unstored'[s] \in Nat /\ twice'[s] \in Nat
    BY DEF UsageTypeOK
  <2>3. AllNodes(served, s) + twice[s]
          = reads[s] + unstored[s] + AllNodes(counts, s) + AllNodes(pending, s)
    BY Zenon DEF ReadsAreAccountedFor
  <2>4. served'[n][s] + twice'[s] + reads[s] + unstored[s] + counts[n][s] + pending[n][s]
          = served[n][s] + twice[s] + reads'[s] + unstored'[s] + counts'[n][s] + pending'[n][s]
    BY Zenon DEF Local
  <2>5. /\ AllNodes(served, s) \in Nat /\ AllNodes(served', s) \in Nat
        /\ served[n][s] \in Nat /\ served'[n][s] \in Nat
        /\ AllNodes(served', s) + served[n][s] = AllNodes(served, s) + served'[n][s]
    BY <2>1, ChangesSums, Zenon
  <2>6. /\ AllNodes(counts, s) \in Nat /\ AllNodes(counts', s) \in Nat
        /\ counts[n][s] \in Nat /\ counts'[n][s] \in Nat
        /\ AllNodes(counts', s) + counts[n][s] = AllNodes(counts, s) + counts'[n][s]
    BY <2>1, ChangesSums, Zenon
  <2>7. /\ AllNodes(pending, s) \in Nat /\ AllNodes(pending', s) \in Nat
        /\ pending[n][s] \in Nat /\ pending'[n][s] \in Nat
        /\ AllNodes(pending', s) + pending[n][s] = AllNodes(pending, s) + pending'[n][s]
    BY <2>1, ChangesSums, Zenon
  <2>8. PICK S, S1, C, C1, P, P1 :
           /\ S = AllNodes(served, s) /\ S1 = AllNodes(served', s)
           /\ C = AllNodes(counts, s) /\ C1 = AllNodes(counts', s)
           /\ P = AllNodes(pending, s) /\ P1 = AllNodes(pending', s)
    BY Zenon
  <2>9. S1 + twice'[s] = reads'[s] + unstored'[s] + C1 + P1
    <3>1. S + twice[s] = reads[s] + unstored[s] + C + P
      BY <2>3, <2>8, Zenon
    <3>2. /\ S \in Nat /\ S1 \in Nat /\ served[n][s] \in Nat /\ served'[n][s] \in Nat
          /\ S1 + served[n][s] = S + served'[n][s]
      BY <2>5, <2>8, Zenon
    <3>3. /\ C \in Nat /\ C1 \in Nat /\ counts[n][s] \in Nat /\ counts'[n][s] \in Nat
          /\ C1 + counts[n][s] = C + counts'[n][s]
      BY <2>6, <2>8, Zenon
    <3>4. /\ P \in Nat /\ P1 \in Nat /\ pending[n][s] \in Nat /\ pending'[n][s] \in Nat
          /\ P1 + pending[n][s] = P + pending'[n][s]
      BY <2>7, <2>8, Zenon
    <3> QED BY <2>2, <2>4, <3>1, <3>2, <3>3, <3>4
  <2> QED BY <2>8, <2>9, Zenon
<1> QED BY <1>1, Zenon DEF ReadsAreAccountedFor

StepOf(n) ==
  /\ UsageTypeOK'
  /\ ChangesAt(served, served', n) /\ ChangesAt(counts, counts', n)
  /\ ChangesAt(pending, pending', n)
  /\ \A s \in Sites : Local(n, s)

LEMMA SameOutside ==
  ASSUME NEW f \in Counts, NEW n \in Nodes
  PROVE  ChangesAt(f, f, n)
BY DEF ChangesAt, Counts

LEMMA FormOfUsage ==
  ASSUME UsageTypeOK
  PROVE  /\ counts \in Counts /\ pending \in Counts /\ served \in Counts
         /\ served \in [Nodes -> [Sites -> 0 .. MaxReads]]
         /\ flusher \in [Nodes -> {"ticking", "flushing", "last", "stopped"}]
         /\ \A n \in Nodes : flusher[n] \in {"ticking", "stopped"} => pending[n] = Zero
         /\ reads \in [Sites -> Nat] /\ unstored \in [Sites -> Nat] /\ twice \in [Sites -> Nat]
         /\ losses \in 0 .. MaxLosses /\ Zero \in [Sites -> Nat]
BY UsageAssumption DEF UsageTypeOK, Counts, Zero

LEMMA RecordStep ==
  ASSUME UsageTypeOK, NEW n \in Nodes, Record(n)
  PROVE  StepOf(n)
<1>1. PICK t \in Sites : /\ served[n][t] < MaxReads
                         /\ served' = [served EXCEPT ![n][t] = @ + 1]
                         /\ counts' = [counts EXCEPT ![n][t] = @ + 1]
  BY DEF Record
<1>2. UNCHANGED <<pending, flusher, reads, unstored, twice, losses>>
  BY DEF Record
<1>3. UsageTypeOK'
  <2>1. counts' \in Counts
    BY <1>1, FormOfUsage DEF Counts
  <2>2. served' \in [Nodes -> [Sites -> 0 .. MaxReads]]
    BY <1>1, FormOfUsage, UsageAssumption
  <2> QED BY <1>2, <2>1, <2>2 DEF UsageTypeOK, Counts
<1>4. ChangesAt(served, served', n) /\ ChangesAt(counts, counts', n)
  BY <1>1, FormOfUsage DEF ChangesAt, Counts
<1>5. ChangesAt(pending, pending', n)
  BY <1>2, FormOfUsage, SameOutside
<1>6. ASSUME NEW s \in Sites PROVE Local(n, s)
  <2>1. /\ served[n][s] \in Nat /\ counts[n][s] \in Nat /\ pending[n][s] \in Nat
        /\ reads[s] \in Nat /\ unstored[s] \in Nat /\ twice[s] \in Nat
    BY FormOfUsage DEF Counts
  <2>2. /\ served'[n][s] = IF s = t THEN served[n][s] + 1 ELSE served[n][s]
        /\ counts'[n][s] = IF s = t THEN counts[n][s] + 1 ELSE counts[n][s]
    BY <1>1, FormOfUsage DEF Counts
  <2> QED BY <1>2, <2>1, <2>2 DEF Local
<1> QED BY <1>3, <1>4, <1>5, <1>6 DEF StepOf

LEMMA DrainStep ==
  ASSUME UsageTypeOK, NEW n \in Nodes, NEW stage \in {"flushing", "last"},
         flusher[n] = "ticking", Drain(n, stage)
  PROVE  StepOf(n)
<1>1. UsageTypeOK'
  <2>1. counts' \in Counts /\ pending' \in Counts
    BY FormOfUsage DEF Counts, Drain
  <2>2. /\ flusher' \in [Nodes -> {"ticking", "flushing", "last", "stopped"}]
        /\ \A m \in Nodes : flusher'[m] \in {"ticking", "stopped"} => pending'[m] = Zero
    BY FormOfUsage DEF Counts, Drain
  <2> QED BY <2>1, <2>2 DEF UsageTypeOK, Counts, Drain
<1>2. ChangesAt(counts, counts', n) /\ ChangesAt(pending, pending', n)
  BY FormOfUsage DEF ChangesAt, Counts, Drain
<1>3. ChangesAt(served, served', n)
  BY FormOfUsage, SameOutside DEF Drain
<1>4. \A s \in Sites : Local(n, s)
  BY FormOfUsage DEF Local, Counts, Drain, Zero
<1> QED BY <1>1, <1>2, <1>3, <1>4 DEF StepOf

LEMMA FoldStep ==
  ASSUME UsageTypeOK, NEW n \in Nodes, NEW s \in Sites, Fold(n, s)
  PROVE  StepOf(n)
<1>1. UsageTypeOK'
  <2>1. pending' \in Counts /\ reads' \in [Sites -> Nat]
    BY FormOfUsage DEF Counts, Fold
  <2>2. \A m \in Nodes : flusher'[m] \in {"ticking", "stopped"} => pending'[m] = Zero
    BY FormOfUsage DEF Counts, Fold, Zero
  <2> QED BY <2>1, <2>2 DEF UsageTypeOK, Counts, Fold
<1>2. ChangesAt(pending, pending', n)
  BY FormOfUsage DEF ChangesAt, Counts, Fold
<1>3. ChangesAt(served, served', n) /\ ChangesAt(counts, counts', n)
  BY FormOfUsage, SameOutside DEF Fold
<1>4. \A t \in Sites : Local(n, t)
  BY FormOfUsage DEF Local, Counts, Fold
<1> QED BY <1>1, <1>2, <1>3, <1>4 DEF StepOf

LEMMA FoldFailsStep ==
  ASSUME UsageTypeOK, NEW n \in Nodes, NEW s \in Sites, FoldFails(n, s)
  PROVE  StepOf(n)
<1>1. UsageTypeOK'
  <2>1. pending' \in Counts /\ counts' \in Counts
    BY FormOfUsage DEF Counts, FoldFails, PutBack
  <2>2. \A m \in Nodes : flusher'[m] \in {"ticking", "stopped"} => pending'[m] = Zero
    BY FormOfUsage DEF Counts, FoldFails, Zero
  <2>3. reads' \in [Sites -> Nat] /\ twice' \in [Sites -> Nat]
    <3>1. pending[n][s] \in Nat
      BY FormOfUsage DEF Counts
    <3>2. CASE UNCHANGED <<reads, twice>>
      BY <3>2, FormOfUsage
    <3>3. CASE /\ reads' = [reads EXCEPT ![s] = @ + pending[n][s]]
               /\ twice' = [twice EXCEPT ![s] = @ + pending[n][s]]
      BY <3>1, <3>3, FormOfUsage
    <3> QED BY <3>2, <3>3 DEF FoldFails
  <2>4. losses' \in 0 .. MaxLosses
    BY FormOfUsage, UsageAssumption DEF FoldFails
  <2> QED BY <2>1, <2>2, <2>3, <2>4 DEF UsageTypeOK, Counts, FoldFails
<1>2. ChangesAt(pending, pending', n) /\ ChangesAt(counts, counts', n)
  BY FormOfUsage DEF ChangesAt, Counts, FoldFails, PutBack
<1>3. ChangesAt(served, served', n)
  BY FormOfUsage, SameOutside DEF FoldFails
<1>4. \A t \in Sites : Local(n, t)
  BY FormOfUsage DEF Local, Counts, FoldFails, PutBack
<1> QED BY <1>1, <1>2, <1>3, <1>4 DEF StepOf

LEMMA EndsStep ==
  ASSUME UsageTypeOK, NEW n \in Nodes, Ends(n), losses' \in 0 .. MaxLosses
  PROVE  StepOf(n)
<1>1. UsageTypeOK'
  <2>1. pending' \in Counts /\ counts' \in Counts /\ unstored' \in [Sites -> Nat]
    BY FormOfUsage DEF Counts, Ends
  <2>2. /\ flusher' \in [Nodes -> {"ticking", "flushing", "last", "stopped"}]
        /\ \A m \in Nodes : flusher'[m] \in {"ticking", "stopped"} => pending'[m] = Zero
    BY FormOfUsage DEF Counts, Ends
  <2> QED BY <2>1, <2>2 DEF UsageTypeOK, Counts, Ends
<1>2. ChangesAt(pending, pending', n) /\ ChangesAt(counts, counts', n)
  BY FormOfUsage DEF ChangesAt, Counts, Ends
<1>3. ChangesAt(served, served', n)
  BY FormOfUsage, SameOutside DEF Ends
<1>4. \A t \in Sites : Local(n, t)
  BY FormOfUsage DEF Local, Counts, Ends, Zero
<1> QED BY <1>1, <1>2, <1>3, <1>4 DEF StepOf

LEMMA FlushedStep ==
  ASSUME UsageTypeOK, NEW n \in Nodes, Flushed(n)
  PROVE  StepOf(n)
<1>1. CASE flusher[n] = "last" /\ Ends(n)
  BY <1>1, EndsStep, FormOfUsage DEF Flushed
<1>2. CASE /\ flusher[n] = "flushing"
           /\ flusher' = [flusher EXCEPT ![n] = "ticking"]
           /\ UNCHANGED <<counts, pending, reads, served, unstored, twice>>
  <2>1. UsageTypeOK'
    <3>1. /\ flusher' \in [Nodes -> {"ticking", "flushing", "last", "stopped"}]
          /\ \A m \in Nodes : flusher'[m] \in {"ticking", "stopped"} => pending'[m] = Zero
      BY <1>2, FormOfUsage DEF Flushed, Written
    <3> QED BY <1>2, <3>1 DEF UsageTypeOK, Flushed
  <2>2. /\ ChangesAt(pending, pending', n) /\ ChangesAt(counts, counts', n)
        /\ ChangesAt(served, served', n)
    BY <1>2, FormOfUsage, SameOutside
  <2>3. \A t \in Sites : Local(n, t)
    BY <1>2, FormOfUsage DEF Local, Counts
  <2> QED BY <2>1, <2>2, <2>3 DEF StepOf
<1> QED BY <1>1, <1>2 DEF Flushed

UsageInv == UsageTypeOK /\ ReadsAreAccountedFor

(* The counter's invariant is inductive: a request moves a read into       *)
(* memory, a flush from memory to what is pending and on to the database,  *)
(* a failed write back, and the end of a process among the lost            *)
(* (delivery_usage.go, Record, Flush, RunFlusher).                         *)
THEOREM UsageInductive == UsageSpec => []UsageInv
<1>1. UsageInit => UsageInv
  <2> SUFFICES ASSUME UsageInit PROVE UsageInv
    OBVIOUS
  <2>1. UsageTypeOK
    BY UsageAssumption DEF UsageInit, UsageTypeOK, Zero
  <2>2. ASSUME NEW s \in Sites
        PROVE  /\ AllNodes(served, s) = 0 /\ AllNodes(counts, s) = 0 /\ AllNodes(pending, s) = 0
               /\ twice[s] = 0 /\ reads[s] = 0 /\ unstored[s] = 0
    <3>1. AllNodes(served, s) = 0 /\ AllNodes(counts, s) = 0 /\ AllNodes(pending, s) = 0
      BY SumOfZeros, Zenon DEF UsageInit
    <3>2. twice[s] = 0 /\ reads[s] = 0 /\ unstored[s] = 0
      BY DEF UsageInit, Zero
    <3> QED BY <3>1, <3>2, Zenon
  <2>3. ReadsAreAccountedFor
    <3> SUFFICES ASSUME NEW s \in Sites
                 PROVE  AllNodes(served, s) + twice[s]
                          = reads[s] + unstored[s] + AllNodes(counts, s) + AllNodes(pending, s)
      BY Zenon DEF ReadsAreAccountedFor
    <3>1. 0 + 0 = 0 + 0 + 0 + 0
      OBVIOUS
    <3> QED BY <2>2, <3>1, Zenon
  <2> QED BY <2>1, <2>3 DEF UsageInv
<1>2. UsageInv /\ [UsageNext]_usageVars => UsageInv'
  <2> SUFFICES ASSUME UsageInv, [UsageNext]_usageVars PROVE UsageInv'
    OBVIOUS
  <2>1. UsageTypeOK /\ ReadsAreAccountedFor
    BY DEF UsageInv
  <2>2. ASSUME NEW n \in Nodes, StepOf(n)
        PROVE  UsageInv'
    BY <2>1, <2>2, StepBalances, Zenon DEF StepOf, UsageInv
  <2>3. ASSUME NEW n \in Nodes, Record(n) PROVE UsageInv'
    BY <2>1, <2>2, <2>3, RecordStep, Zenon
  <2>4. ASSUME NEW n \in Nodes, Tick(n) \/ Shutdown(n) PROVE UsageInv'
    <3>1. StepOf(n)
      BY <2>1, <2>4, DrainStep DEF Tick, Shutdown
    <3> QED BY <3>1, <2>2, Zenon
  <2>5. ASSUME NEW n \in Nodes, NEW s \in Sites, Fold(n, s) PROVE UsageInv'
    BY <2>1, <2>2, <2>5, FoldStep, Zenon
  <2>6. ASSUME NEW n \in Nodes, NEW s \in Sites, FoldFails(n, s) PROVE UsageInv'
    BY <2>1, <2>2, <2>6, FoldFailsStep, Zenon
  <2>7. ASSUME NEW n \in Nodes, Flushed(n) PROVE UsageInv'
    BY <2>1, <2>2, <2>7, FlushedStep, Zenon
  <2>8. ASSUME NEW n \in Nodes, Crash(n) PROVE UsageInv'
    <3>1. Ends(n) /\ losses' \in 0 .. MaxLosses
      BY <2>1, <2>8, FormOfUsage, UsageAssumption DEF Crash
    <3>2. StepOf(n)
      BY <3>1, <2>1, EndsStep, Zenon
    <3> QED BY <3>2, <2>2, Zenon
  <2>9. CASE UNCHANGED usageVars
    <3>1. /\ counts' = counts /\ pending' = pending /\ served' = served /\ flusher' = flusher
          /\ reads' = reads /\ unstored' = unstored /\ twice' = twice /\ losses' = losses
      BY <2>9 DEF usageVars
    <3> QED BY <2>1, <3>1, Zenon DEF UsageInv, UsageTypeOK, ReadsAreAccountedFor
  <2>10. CASE UsageNext
    BY <2>10, <2>3, <2>4, <2>5, <2>6, <2>7, <2>8, Zenon DEF UsageNext
  <2> QED BY <2>9, <2>10
<1> QED BY <1>1, <1>2, PTL DEF UsageSpec

(* No read of a public page is lost but with a process, and none is        *)
(* counted twice but by a write that committed and was reported as failed, *)
(* for every number of replicas, tenants, reads and failures               *)
(* (delivery_usage.go:55).                                                 *)
THEOREM CountsAreSound == UsageSpec => []CountsSound
<1>1. UsageInv => CountsSound
  BY DEF UsageInv, CountsSound
<1> QED BY <1>1, UsageInductive, PTL

=============================================================================
