----------------------------- MODULE MCServices -----------------------------
(* The components that share nothing, side by side: `focus' says which of  *)
(* them runs, and the others keep their initial state.                     *)
EXTENDS MigrateLedger, EntryRequests, DeliveryUsage, WebhookMirror, Paging, Access,
        EntryHistory

VARIABLE focus

Components == {"migrate", "requests", "usage", "mirror", "paging", "access", "history"}

ServicesInit ==
  /\ focus \in Components
  /\ UsageInit /\ MirrorInit /\ RequestsInit
  /\ MigrateInit /\ (focus # "migrate" => tables = [v \in Versions |-> 0])
  /\ IF focus = "paging" THEN PagingInit
     ELSE /\ payload = [e \in Ids |-> Unwritten] /\ published = [e \in Ids |-> Hidden]
          /\ sort = "none" /\ equals = Absent /\ cursor = FirstPage
          /\ listed = [e \in Ids |-> 0] /\ ended = FALSE /\ moved = {} /\ writes = 0
  /\ IF focus = "access" THEN AccessInit
     ELSE /\ admins = {} /\ roleIn = [p \in People |-> ""]
          /\ session = [p \in People |-> NoSession]
          /\ lists = [l \in ListNames |-> {}] /\ patch = NoPatch
          /\ author = [d \in Documents |-> Absentee]
  /\ HistoryInit
  /\ \A k \in FieldKeys : entry.payload[k] \in {Blank, "f1"}  \* no value is special
  /\ focus # "history" => /\ entry.status = "draft" /\ KeysIn(entry.payload) = FieldKeys
                          /\ \A k \in FieldKeys : entry.payload[k] = "f1"

ServicesNext ==
  /\ UNCHANGED focus
  /\ IF focus = "migrate"  THEN MigrateNext  ELSE UNCHANGED migrateVars
  /\ IF focus = "requests" THEN RequestsNext ELSE UNCHANGED requestVars
  /\ IF focus = "usage"    THEN UsageNext    ELSE UNCHANGED usageVars
  /\ IF focus = "mirror"   THEN MirrorNext   ELSE UNCHANGED mirrorVars
  /\ IF focus = "paging"   THEN PagingNext   ELSE UNCHANGED pagingVars
  /\ IF focus = "access"   THEN AccessNext   ELSE UNCHANGED accessVars
  /\ IF focus = "history"  THEN HistoryNext  ELSE UNCHANGED historyVars

ServicesSpec ==
  ServicesInit /\ [][ServicesNext]_<<focus, migrateVars, requestVars, usageVars,
                                     mirrorVars, pagingVars, accessVars,
                                     historyVars>>

(* The files of three builds: the next release, and one with a migration   *)
(* edited after it was released.                                           *)
Files ==
  [old |-> <<"a">>, new |-> <<"a", "b">>, edited |-> <<"x", "b">>]

Created == <<2, 1, 1>>

(* Mirror: the bodies are interchangeable, so the first is "a"; the edge   *)
(* fails before the last change.                                           *)
(* History: two requests at a time, and the last of them alone.            *)
(* Access: either the roles move or the lists of the type do; two names on *)
(* the lists at most, and one session at a time.                           *)
Bounded ==
  /\ failures > 0 => Len(history) < MaxChanges
  /\ \A d \in DOMAIN history : history[d] = "b" => \E i \in 1..(d - 1) : history[i] = "a"
  /\ Cardinality({c \in Callers : calls[c].stage # "idle"}) <= (IF made <= 2 THEN 2 ELSE 1)
  /\ Cardinality(lists["read"]) + Cardinality(lists["write"]) + Cardinality(lists["own"]) <= 2
  /\ Cardinality({p \in People : session[p] # NoSession}) <= 1
  /\ IF lists = [l \in ListNames |-> {}] /\ patch = NoPatch
     THEN \A d \in Documents : author[d] \notin People
     ELSE /\ admins = {}
          /\ \A p \in People : roleIn[p] \in ListRoles
          /\ \A p \in People : session[p] # NoSession =>
                session[p].role \in ListRoles /\ session[p].kind = "user"

=============================================================================
