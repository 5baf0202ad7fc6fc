------------------------------- MODULE Access -------------------------------
(***************************************************************************)
(* Who may do what: the two authorizers a deployment chooses from          *)
(* (pkg/authz: the matrix of rbac_authorizer.go and the policy of          *)
(* policies/authz.rego), the platform roles behind them (iam), and the     *)
(* permission lists of a content type (cms/content/service/type_permission *)
(* .go), which GET applies in the service and the review queue, search and *)
(* locale counts in the WHERE clause of their own (dataVisibleExpr).       *)
(*                                                                         *)
(* A token carries the roles of the moment it was issued.  One tenant, one *)
(* content type.                                                           *)
(***************************************************************************)
EXTENDS FiniteSets

CONSTANTS People,      \* users; an agent acts for one of them
          Documents,   \* entries of the type
          ListRoles,   \* the roles its lists may name
          NoAuthor      \* the author of an entry older than authorship, and of none

ASSUME AccessAssumption ==
    /\ NoAuthor \notin People \cup {"no entry"} /\ "no entry" \notin People
    /\ ListRoles \subseteq {"owner", "admin", "editor", "viewer"}

RoleNames == {"owner", "admin", "editor", "viewer"}

SelfVerbs     == {"user:read", "user:update", "user:preferences:update",
                  "notification:read", "notification:create", "notification:mark_read"}
PlatformVerbs == {"user:list", "user:delete", "iam:role:read", "iam:role:assign", "iam:role:revoke",
                  "platform:app:list", "platform:app:create", "platform:app:update",
                  "platform:tenant:plan:update"}
ReadVerbs     == {"content:list", "content:read"}
SchemaVerbs   == {"content:schema:write"}
OfficeVerbs   == {"tenant:invite:list", "tenant:invite:revoke", "tenant:member:update",
                  "tenant:member:remove", "agent:credential:issue", "agent:credential:list",
                  "agent:credential:revoke"}
WriteVerbs    == {"content:create", "content:update", "content:delete", "content:publish",
                  "content:schema:plan", "content:schema:propose", "content:schema:amend",
                  "content:activity:read", "content:review:list"}
TenantVerbs   == ReadVerbs \cup SchemaVerbs \cup WriteVerbs \cup OfficeVerbs
                    \cup {"tenant:invite:create", "tenant:invite:accept", "tenant:member:list"}
Verbs         == SelfVerbs \cup PlatformVerbs \cup TenantVerbs \cup {"content:unheard_of"}

(* What a request names: a user, or a tenant, its own or another. *)
Resources == People \cup {"own tenant", "other"}

VARIABLES admins,   \* user_roles: who holds the platform role admin
          roleIn,   \* memberships: the role of each person, or "" for none
          session,  \* the claims of each person's token, or NoSession
          lists,    \* content_types.read_roles, write_roles, own_only_roles
          patch,    \* the PATCH of the type under way
          author    \* entries.created_by; entries that do not exist are Absentee

accessVars == <<admins, roleIn, session, lists, patch, author>>

NoSession == [kind |-> "none"]
NoPatch == [stage |-> "none"]
Absentee == "no entry"
ListNames == {"read", "write", "own"}

AccessTypeOK ==
    /\ admins \subseteq People
    /\ roleIn \in [People -> RoleNames \cup {""}]
    /\ \A p \in People : session[p] = NoSession \/
          /\ session[p].user = p /\ session[p].kind \in {"user", "agent", "delivery"}
          /\ session[p].role \in RoleNames \cup {""}
          /\ session[p].kind # "user" => ~session[p].admin
    /\ lists \in [ListNames -> SUBSET ListRoles]
    /\ patch.stage \in {"none", "count", "write"}
    /\ \A d \in Documents : author[d] \in People \cup {NoAuthor, Absentee}

AccessInit ==
    /\ admins \in SUBSET People /\ roleIn \in [People -> RoleNames \cup {""}]
    /\ session = [p \in People |-> NoSession]
    /\ lists = [l \in ListNames |-> {}]
    /\ patch = NoPatch
    /\ author \in [Documents -> {NoAuthor, Absentee}]

-----------------------------------------------------------------------------
(* The gate both authorizers pass first. *)
AgentVerbs == ReadVerbs \cup {"content:create", "content:update", "content:schema:plan",
                              "content:schema:propose"}

GatePasses(sub, verb) == sub.kind = "agent" => verb \in AgentVerbs

TenantPlane(verb) == verb \in TenantVerbs \cup {"content:unheard_of"}

(* allowContentByTenantRole, behind isContentAction. *)
ContentVerbs == ReadVerbs \cup SchemaVerbs \cup WriteVerbs

(* Mutant of ContentMatrix: a viewer's verbs are those of everyone. *)
ViewerMatrix(role, verb) ==
    IF verb \in SchemaVerbs THEN role \in {"owner", "admin"}
    ELSE role \in RoleNames

ContentMatrix(role, verb) ==
    IF verb \in SchemaVerbs THEN role \in {"owner", "admin"}
    ELSE role \in {"owner", "admin", "editor"} \/ (role = "viewer" /\ verb \in ReadVerbs)

(* RBACAuthorizer.Allow: a token without a tenant has the role "". *)
RBACAllows(sub, verb, res) ==
    /\ GatePasses(sub, verb)
    /\ IF TenantPlane(verb)
       THEN \/ verb \in ContentVerbs /\ sub.role # "" /\ ContentMatrix(sub.role, verb)
            \/ verb = "tenant:invite:create" /\ res = "own tenant" /\ sub.role \in {"owner", "admin"}
            \/ verb = "tenant:invite:accept"
            \/ verb \in OfficeVerbs /\ sub.role \in {"owner", "admin"}
            \/ verb = "tenant:member:list" /\ sub.role \in RoleNames
       ELSE sub.admin \/ (verb \in SelfVerbs /\ res = sub.user)

(* OPAAuthorizer.Allow: one disjunct per rule of the policy, over the token's
   roles and those the database holds now. *)
PolicyAllows(sub, verb, res) ==
    LET isAdmin == sub.admin \/ (sub.user \in admins)
        role    == sub.role
        writer  == role \in {"owner", "admin", "editor"}
        office  == role \in {"owner", "admin"}
    IN /\ GatePasses(sub, verb)
       /\ \/ isAdmin /\ ~TenantPlane(verb)
          \/ verb \in {"user:read", "user:update", "user:preferences:update"} /\ res = sub.user
          \/ verb \in {"notification:read", "notification:create", "notification:mark_read"}
                /\ res = sub.user
          \/ verb \in {"content:create", "content:read", "content:update", "content:delete",
                       "content:list"} /\ writer
          \/ verb \in {"content:read", "content:list"} /\ role = "viewer"
          \/ verb \in {"content:publish", "content:activity:read", "content:review:list"} /\ writer
          \/ verb = "content:schema:write" /\ office
          \/ verb \in {"content:schema:plan", "content:schema:propose", "content:schema:amend"}
                /\ writer
          \/ verb = "tenant:invite:create" /\ res = "own tenant" /\ office
          \/ verb = "tenant:invite:accept"
          \/ verb \in {"tenant:invite:list", "tenant:invite:revoke"} /\ office
          \/ verb = "tenant:member:list" /\ role \in RoleNames
          \/ verb \in {"tenant:member:update", "tenant:member:remove"} /\ office
          \/ verb \in {"agent:credential:issue", "agent:credential:list",
                       "agent:credential:revoke"} /\ office

-----------------------------------------------------------------------------
(* iam: an administrator grants and takes the platform role. *)
GrantRole(p, q) ==
    /\ session[p] # NoSession /\ RBACAllows(session[p], "iam:role:assign", q)
    /\ admins' = admins \cup {q}
    /\ UNCHANGED <<roleIn, session, lists, patch, author>>

TakeRole(p, q) ==
    /\ session[p] # NoSession /\ RBACAllows(session[p], "iam:role:revoke", q)
    /\ admins' = admins \ {q}
    /\ UNCHANGED <<roleIn, session, lists, patch, author>>

(* issueTokens: the roles of the moment; a tenant only for its members. *)
Issue(p) ==
    /\ \E role \in {"", roleIn[p]} :
          session' = [session EXCEPT ![p] =
             [kind |-> "user", user |-> p, admin |-> p \in admins, role |-> role]]
    /\ UNCHANGED <<admins, roleIn, lists, patch, author>>

(* Mutant of IssueAgent: the agent has the platform role of its principal. *)
IssueAgentAlike(p) ==
    /\ session[p] # NoSession /\ RBACAllows(session[p], "agent:credential:issue", p)
    /\ \E role \in {"editor", "viewer"} :
          session' = [session EXCEPT ![p] =
             [kind |-> "agent", user |-> p, admin |-> session[p].admin, role |-> role]]
    /\ UNCHANGED <<admins, roleIn, lists, patch, author>>

(* A credential for an agent of p, and one for the delivery edge (the caller
   p is then a service): neither has a platform role. *)
IssueAgent(p) ==
    /\ session[p] # NoSession /\ RBACAllows(session[p], "agent:credential:issue", p)
    /\ \E role \in {"editor", "viewer"} :
          session' = [session EXCEPT ![p] =
             [kind |-> "agent", user |-> p, admin |-> FALSE, role |-> role]]
    /\ UNCHANGED <<admins, roleIn, lists, patch, author>>

IssueDelivery(p) ==
    /\ session' = [session EXCEPT ![p] =
          [kind |-> "delivery", user |-> p, admin |-> FALSE, role |-> "viewer"]]
    /\ UNCHANGED <<admins, roleIn, lists, patch, author>>

-----------------------------------------------------------------------------
RoleAllowed(list, role) == list = {} \/ role \in list

CanRead(sub) ==
    /\ sub.kind = "delivery" => lists["read"] = {}
    /\ RoleAllowed(lists["read"], sub.role)

CanWrite(sub) == CanRead(sub) /\ RoleAllowed(lists["write"], sub.role)

(* Mutant of EffectiveWriteRoles: the refusal quotes the stored list. *)
StoredWriteRoles == lists["write"]

(* The roles a refusal names as those that would not be refused. *)
EffectiveWriteRoles ==
    IF lists["read"] = {} THEN lists["write"]
    ELSE IF lists["write"] = {} THEN lists["read"]
    ELSE lists["read"] \cap lists["write"]

(* confinedAuthor: whose entries a caller is confined to. *)
Confined(sub) == sub.kind # "delivery" /\ sub.role \in lists["own"]

Owns(sub, d) == Confined(sub) => author[d] = sub.user

(* GetEntry, and ListEntries with its created_by clause. *)
GetShows(sub, d) == CanRead(sub) /\ Owns(sub, d)

(* Mutant of DataVisible: the two lists are read alike. *)
DataVisibleAlike(sub, d) ==
    /\ lists["read"] = {} \/ sub.role \in lists["read"]
    /\ lists["own"] = {} \/ sub.role \in lists["own"] \/ author[d] = sub.user

(* dataVisibleExpr. *)
DataVisible(sub, d) ==
    /\ lists["read"] = {} \/ sub.role \in lists["read"]
    /\ ~(sub.role \in lists["own"]) \/ author[d] = sub.user

-----------------------------------------------------------------------------
(* UpdateContentType reads the type, checks what the PATCH names, and writes
   all three lists back: those it does not name as it read them. *)
AskPatchType(p) ==
    /\ patch = NoPatch
    /\ session[p] # NoSession /\ session[p].kind # "delivery"
    /\ RBACAllows(session[p], "content:schema:amend", p)
    /\ RBACAllows(session[p], "content:schema:write", p)
    /\ \E l \in ListNames, to \in SUBSET ListRoles :
          patch' = [stage |-> IF l = "own" /\ to \ lists["own"] # {} THEN "count" ELSE "write",
                    lists |-> [lists EXCEPT ![l] = to]]
    /\ UNCHANGED <<admins, roleIn, session, lists, author>>

Authorless == {d \in Documents : author[d] = NoAuthor}

(* Mutant of Backfilled: confinement is declared without a count. *)
BackfilledAnyway == TRUE

Backfilled == Authorless = {}

CountAuthorless ==
    /\ patch.stage = "count"
    /\ patch' = IF Backfilled THEN [patch EXCEPT !.stage = "write"] ELSE NoPatch
    /\ UNCHANGED <<admins, roleIn, session, lists, author>>

WriteLists ==
    /\ patch.stage = "write"
    /\ lists' = patch.lists
    /\ patch' = NoPatch
    /\ UNCHANGED <<admins, roleIn, session, author>>

(* Entries come with an author, the person who answers for the caller, and
   go. *)
CreateDocument(p, d) ==
    /\ author[d] = Absentee /\ session[p] # NoSession /\ session[p].kind # "delivery"
    /\ RBACAllows(session[p], "content:create", p) /\ CanWrite(session[p])
    /\ author' = [author EXCEPT ![d] = p]
    /\ UNCHANGED <<admins, roleIn, session, lists, patch>>

DeleteDocument(p, d) ==
    /\ author[d] # Absentee /\ session[p] # NoSession /\ session[p].kind # "delivery"
    /\ RBACAllows(session[p], "content:delete", p) /\ CanWrite(session[p]) /\ Owns(session[p], d)
    /\ author' = [author EXCEPT ![d] = Absentee]
    /\ UNCHANGED <<admins, roleIn, session, lists, patch>>

AccessNext ==
    \/ \E p, q \in People : GrantRole(p, q) \/ TakeRole(p, q)
    \/ \E p \in People : Issue(p) \/ IssueAgent(p) \/ IssueDelivery(p) \/ AskPatchType(p)
    \/ CountAuthorless \/ WriteLists
    \/ \E p \in People, d \in Documents : CreateDocument(p, d) \/ DeleteDocument(p, d)

AccessSpec == AccessInit /\ [][AccessNext]_accessVars
-----------------------------------------------------------------------------
(* Both modes of a deployment give the same answer.  They differ only by a
   platform role granted since the token was issued, which only the policy
   sees, and never on the tenant plane (authz.rego "Keep this in lockstep";
   opa_authorizer.go merges the roles of the database). *)
ModesAgree ==
    \A p \in People : session[p] # NoSession =>
       \A verb \in Verbs, res \in Resources :
          LET rbac   == RBACAllows(session[p], verb, res)
              policy == PolicyAllows(session[p], verb, res)
          IN /\ rbac => policy
             /\ policy /\ ~rbac => p \in admins /\ ~session[p].admin /\ ~TenantPlane(verb)

(* The queue, search and the locale counts show a person exactly the entries
   GET would show, whatever the lists have become (postgres_repository.go
   dataVisibleExpr against type_permission.go guardTypeRead, guardOwned). *)
QueriesAgreeWithGet ==
    \A p \in People : session[p] # NoSession /\ session[p].kind = "user" =>
       \A d \in Documents : author[d] # Absentee =>
          (DataVisible(session[p], d) <=> GetShows(session[p], d))

(* Who is refused a write is told exactly the roles that may write
   (type_permission.go effectiveTypeWriteRoles, field_permission.go
   effectiveWriteRoles). *)
RefusalsNameTheWriters ==
    \A p \in People :
       session[p] # NoSession /\ session[p].kind = "user" /\ ~CanWrite(session[p]) =>
          EffectiveWriteRoles =
             {r \in RoleNames : CanWrite([kind |-> "user", user |-> p, admin |-> FALSE, role |-> r])}

(* No role is confined to its own entries while an entry has no author: it
   would be gone from the view of that role, and from every view if all are
   confined (schema_mutation.go UpdateContentType, errOwnOnlyBackfill). *)
ConfinementHidesNothing == lists["own"] # {} => Authorless = {}

(* The three lists of a type mean one thing to GET, to the queries, to a refusal
   and to the PATCH that writes them, and a verb one thing to both authorizers
   (type_permission.go, dataVisibleExpr, rbac_authorizer.go, authz.rego). *)
ListsSound == /\ AccessTypeOK /\ ModesAgree /\ QueriesAgreeWithGet
              /\ RefusalsNameTheWriters /\ ConfinementHidesNothing

=============================================================================
