---------------------------- MODULE SchemaChange ----------------------------
(***************************************************************************)
(* The definition of one content type and the entries that must fit it.    *)
(*                                                                         *)
(* A schema call reads the type, counts the entries its change would       *)
(* break, and writes the definition: three database transactions, with no  *)
(* lock from one to the next.  A writer of an entry reads the type, then   *)
(* the entry, validates the whole document against the type it read, and   *)
(* writes under the entry's version alone.                                 *)
(*                                                                         *)
(* Of an attribute of a field only two kinds matter here: `required',      *)
(* which an absent value breaks, and the constraints and enum values that  *)
(* some present value breaks; `strict' stands for the latter.  A retracted *)
(* snapshot is not kept: no guard of a schema call looks at it.            *)
(***************************************************************************)
EXTENDS Integers, FiniteSets

CONSTANTS
  Keys,       \* the field keys
  Fields,     \* the definitions a call may give a field
  Entries,    \* entry ids
  Admins,     \* schema calls
  Writers,    \* requests that write an entry
  MaxVersion, \* bound on the version of an entry
  NoField,    \* the key is not defined
  Nobody      \* no entry

Field == [required : BOOLEAN, strict : BOOLEAN]

ASSUME SchemaAssumption ==
  /\ IsFiniteSet(Keys) /\ "" \notin Keys
  /\ Fields \subseteq Field
  /\ MaxVersion \in Nat \ {0}
  /\ NoField \notin Field
  /\ Nobody \notin Entries

VARIABLES
  def,     \* content_type_fields of the type
  dropped, \* the type has been deleted
  entry,   \* the entries of the type
  call,    \* what each schema call has read and will write
  edit,    \* what each writer has read and will write
  unvouched \* history: working and live copies no guard vouches for

schemaVars == <<def, dropped, entry, call, edit, unvouched>>

-----------------------------------------------------------------------------
Definitions == [Keys -> Field \cup {NoField}]

(* A value is absent (or null), or fails the strict constraints, or not.   *)
Values == {"absent", "odd", "good"}
Docs == [Keys -> Values]
Blank == [k \in Keys |-> "absent"]

(* validateValue, for one field: its constraints and enum values.          *)
FitsField(f, v) == ~(f.strict /\ v = "odd")

(* validatePayload: no unknown key, no required field without a value.     *)
Valid(d, doc) ==
  \A k \in Keys : IF d[k] = NoField
                  THEN doc[k] = "absent"
                  ELSE FitsField(d[k], doc[k]) /\ (d[k].required => doc[k] # "absent")

(* pruneUndefined: the merge base without the keys the type lacks.         *)
PruneUndefined(doc, d) == [k \in Keys |-> IF d[k] = NoField THEN "absent" ELSE doc[k]]

(* mergeEntryPayload, for a patch of one key.                              *)
MergeEntryPayload(doc, k, v) == [doc EXCEPT ![k] = v]

Exists(e) == entry[e].life = "live"
Unborn == [life |-> "unborn", ver |-> 0, working |-> Blank, live |-> Blank, published |-> FALSE]

IdleCall == [op |-> "none", stage |-> "idle", key |-> "", to |-> "", force |-> FALSE,
             old |-> NoField, next |-> NoField, crossed |-> FALSE]
IdleEdit == [stage |-> "idle", entry |-> Nobody, seen |-> [k \in Keys |-> NoField],
             base |-> 0, doc |-> Blank, crossed |-> FALSE]

SchemaInit ==
  /\ def \in [Keys -> {NoField, [required |-> FALSE, strict |-> FALSE]}]
  /\ \E k \in Keys : def[k] # NoField
  /\ dropped = FALSE
  /\ entry = [e \in Entries |-> Unborn]
  /\ call = [a \in Admins |-> IdleCall]
  /\ edit = [w \in Writers |-> IdleEdit]
  /\ unvouched = [working |-> {}, live |-> {}]

InFlight(a) == call[a].stage # "idle"
Defined == {k \in Keys : def[k] # NoField}

-----------------------------------------------------------------------------
(* The counts of a schema call.                                            *)

(* bothCopies: the live snapshot counts while the entry is published.      *)
Copies(e) == {entry[e].working} \cup (IF entry[e].published THEN {entry[e].live} ELSE {})

CountEntriesWithField(k) ==
  {e \in Entries : Exists(e) /\ \E c \in Copies(e) : c[k] # "absent"}

(* Mutant: the copy delivery serves is the one counted.                    *)
CountLiveMissingField(k) ==
  {e \in Entries : Exists(e) /\ entry[e].published /\ entry[e].live[k] = "absent"}

(* Only the working copy: what an editor must now supply.                  *)
CountEntriesMissingField(k) == {e \in Entries : Exists(e) /\ entry[e].working[k] = "absent"}

CountConstraintViolations(k, f) ==
  {e \in Entries : Exists(e) /\ \E c \in Copies(e) : ~FitsField(f, c[k])}

CountEntriesForType == {e \in Entries : Exists(e)}

-----------------------------------------------------------------------------
(* Schema calls.  The first step reads the type and applies the guards     *)
(* that need nothing else.                                                 *)

Open(a, c) ==
  /\ call[a] = IdleCall /\ ~dropped
  /\ call' = [call EXCEPT ![a] = c]
  /\ UNCHANGED <<def, dropped, entry, edit, unvouched>>

AddField(a, k, f) ==
  /\ def[k] = NoField
  /\ Open(a, [IdleCall EXCEPT !.op = "add", !.stage = "checked", !.key = k, !.next = f])

UpdateField(a, k, f) ==
  /\ def[k] # NoField
  /\ Open(a, [IdleCall EXCEPT !.op = "update", !.stage = "read", !.key = k,
                              !.old = def[k], !.next = f])

RenameField(a, k, to) ==
  /\ def[k] # NoField /\ to # k /\ def[to] = NoField
  /\ Open(a, [IdleCall EXCEPT !.op = "rename", !.stage = "checked", !.key = k, !.to = to])

(* The last field is never deleted; `force' waives the count.              *)
DeleteField(a, k, force) ==
  /\ def[k] # NoField /\ Cardinality(Defined) # 1
  /\ Open(a, [IdleCall EXCEPT !.op = "delete", !.key = k, !.force = force,
                              !.stage = IF force THEN "checked" ELSE "read"])

(* Mutant: the type goes whatever it holds.                                *)
DeleteUncounted(a) ==
  Open(a, [IdleCall EXCEPT !.op = "drop", !.stage = "checked"])

DeleteContentType(a) ==
  Open(a, [IdleCall EXCEPT !.op = "drop", !.stage = "read"])

Close(a) == [call EXCEPT ![a] = IdleCall]
Refuse(a) == call' = Close(a) /\ UNCHANGED <<def, dropped, entry, edit, unvouched>>

(* What stands in the way of the change.  A PATCH counts only what it      *)
(* tightens.                                                               *)
Blocking(c) ==
  CASE c.op = "update" ->
         (IF c.next.required /\ ~c.old.required THEN CountEntriesMissingField(c.key) ELSE {})
         \cup (IF c.next.strict /\ ~c.old.strict
               THEN CountConstraintViolations(c.key, c.next) ELSE {})
    [] c.op = "delete" -> CountEntriesWithField(c.key)
    [] c.op = "drop"   -> CountEntriesForType
    [] OTHER -> {}

Check(a) ==
  /\ call[a].stage = "read"
  /\ IF Blocking(call[a]) # {} THEN Refuse(a)
     ELSE /\ call' = [call EXCEPT ![a].stage = "checked"]
          /\ UNCHANGED <<def, dropped, entry, edit, unvouched>>

-----------------------------------------------------------------------------
(* The write of a schema call: one transaction.  It may find the field     *)
(* gone, or the key taken, and then changes nothing.                       *)

Others(a) == \E b \in Admins \ {a} : InFlight(b)

(* Whoever has read the type but not yet written now holds a stale one.    *)
Committed(a) ==
  /\ call' = [b \in Admins |->
                IF b = a THEN IdleCall
                ELSE [call[b] EXCEPT !.crossed = InFlight(b)]]
  /\ edit' = [w \in Writers |-> [edit[w] EXCEPT !.crossed = edit[w].stage # "idle"]]

Vouched(working, live) ==
  unvouched' = [working |-> unvouched.working \cup working,
                live    |-> unvouched.live \cup live]

(* AddField counts nothing: a required field may find entries without it.  *)
InsertField(a) ==
  LET c == call[a] IN
  /\ c.op = "add" /\ c.stage = "checked"
  /\ IF dropped \/ def[c.key] # NoField THEN Refuse(a)
     ELSE /\ def' = [def EXCEPT ![c.key] = c.next]
          /\ Committed(a)
          /\ Vouched(IF c.next.required THEN CountEntriesForType ELSE {}, {})
          /\ UNCHANGED <<dropped, entry>>

(* UpdateFieldDefinition writes every column of the field that was read.   *)
UpdateFieldDefinition(a) ==
  LET c == call[a] IN
  /\ c.op = "update" /\ c.stage = "checked"
  /\ IF dropped \/ def[c.key] = NoField THEN Refuse(a)
     ELSE /\ def' = [def EXCEPT ![c.key] = c.next]
          /\ Committed(a)
          /\ UNCHANGED <<dropped, entry, unvouched>>

(* A document without the old key is left alone, not given a null; `to' is *)
(* the new key, or "" for a deletion.                                      *)
Moved(doc, k, to) ==
  [j \in Keys |-> IF j = k THEN "absent"
                  ELSE IF j = to /\ doc[k] # "absent" THEN doc[k] ELSE doc[j]]

(* Mutant: the version moves once for each copy.                           *)
RewriteEntriesTwice(k, to) ==
  entry' = [e \in Entries |->
    IF e \notin CountEntriesWithField(k) THEN entry[e]
    ELSE [entry[e] EXCEPT
            !.working = Moved(@, k, to),
            !.live    = IF entry[e].published THEN Moved(@, k, to) ELSE @,
            !.ver     = @ + 2]]

(* Mutant: the live snapshot is left as it was.                            *)
RewriteWorkingOnly(k, to) ==
  entry' = [e \in Entries |->
    IF e \notin CountEntriesWithField(k) THEN entry[e]
    ELSE [entry[e] EXCEPT
            !.working = Moved(@, k, to),
            !.ver     = IF entry[e].working[k] # "absent" THEN @ + 1 ELSE @]]

(* A bulk rewrite moves each copy that holds the key, and the version of   *)
(* the entry when that is the working one.                                 *)
RewriteEntries(k, to) ==
  entry' = [e \in Entries |->
    IF e \notin CountEntriesWithField(k) THEN entry[e]
    ELSE [entry[e] EXCEPT
            !.working = Moved(@, k, to),
            !.live    = IF entry[e].published THEN Moved(@, k, to) ELSE @,
            !.ver     = IF entry[e].working[k] # "absent" THEN @ + 1 ELSE @]]

(* What the rewrite touched beside another call is vouched for by neither. *)
VouchedRewrite(a) ==
  LET held == IF Others(a) THEN CountEntriesWithField(call[a].key) ELSE {}
  IN Vouched(held, held)

RoomFor(k) ==
  \A e \in CountEntriesWithField(k) : entry[e].ver < MaxVersion

(* Mutant: the key may be taken when the row is written.                   *)
RenameFieldOver(a) ==
  LET c == call[a] IN
  /\ c.op = "rename" /\ c.stage = "checked"
  /\ IF dropped \/ def[c.key] = NoField THEN Refuse(a)
     ELSE /\ RoomFor(c.key)
          /\ RewriteEntries(c.key, c.to)
          /\ def' = [def EXCEPT ![c.to] = def[c.key], ![c.key] = NoField]
          /\ Committed(a)
          /\ VouchedRewrite(a)
          /\ UNCHANGED dropped

RenameFieldRow(a) ==
  LET c == call[a] IN
  /\ c.op = "rename" /\ c.stage = "checked"
  /\ IF dropped \/ def[c.key] = NoField \/ def[c.to] # NoField THEN Refuse(a)
     ELSE /\ RoomFor(c.key)
          /\ RewriteEntries(c.key, c.to)
          /\ def' = [def EXCEPT ![c.to] = def[c.key], ![c.key] = NoField]
          /\ Committed(a)
          /\ VouchedRewrite(a)
          /\ UNCHANGED dropped

DeleteFieldRow(a) ==
  LET c == call[a] IN
  /\ c.op = "delete" /\ c.stage = "checked"
  /\ IF dropped \/ def[c.key] = NoField THEN Refuse(a)
     ELSE /\ RoomFor(c.key)
          /\ RewriteEntries(c.key, "")
          /\ def' = [def EXCEPT ![c.key] = NoField]
          /\ Committed(a)
          /\ VouchedRewrite(a)
          /\ UNCHANGED dropped

(* The entries go with the type: the count was the only guard.             *)
DeleteTypeRow(a) ==
  /\ call[a].op = "drop" /\ call[a].stage = "checked"
  /\ IF dropped THEN Refuse(a)
     ELSE /\ dropped' = TRUE
          /\ entry' = [e \in Entries |-> [Unborn EXCEPT !.life =
                         IF Exists(e) THEN "gone" ELSE entry[e].life]]
          /\ Committed(a)
          /\ UNCHANGED <<def, unvouched>>

Write(a) ==
  \/ InsertField(a)
  \/ UpdateFieldDefinition(a)
  \/ RenameFieldRow(a)
  \/ DeleteFieldRow(a)
  \/ DeleteTypeRow(a)

SchemaCall(a) ==
  \/ \E k \in Keys, f \in Fields : AddField(a, k, f) \/ UpdateField(a, k, f)
  \/ \E k, to \in Keys : RenameField(a, k, to)
  \/ \E k \in Keys, force \in BOOLEAN : DeleteField(a, k, force)
  \/ DeleteContentType(a)
  \/ Check(a)
  \/ Write(a)

-----------------------------------------------------------------------------
(* Writers of entries.                                                     *)

(* GetContentTypeByName: the definition this request will validate with.   *)
ReadType(w) ==
  /\ edit[w] = IdleEdit /\ ~dropped
  /\ edit' = [edit EXCEPT ![w].stage = "typed", ![w].seen = def]
  /\ UNCHANGED <<def, dropped, entry, call, unvouched>>

Drop(w) == [edit EXCEPT ![w] = IdleEdit]
Give(w) == edit' = Drop(w) /\ UNCHANGED <<def, dropped, entry, call, unvouched>>

(* CreateLocalizedEntry: the whole document comes from the caller.         *)
ComposeEntry(w, e, doc) ==
  /\ edit[w].stage = "typed"
  /\ entry[e].life = "unborn"
  /\ Valid(edit[w].seen, doc)
  /\ edit' = [edit EXCEPT ![w].stage = "valid", ![w].entry = e, ![w].doc = doc,
                          ![w].seen = IdleEdit.seen]
  /\ UNCHANGED <<def, dropped, entry, call, unvouched>>

(* UpdateEntry: the patch is merged into what the entry holds now.         *)
ComposeUpdate(w, e, k, v) ==
  LET doc == MergeEntryPayload(PruneUndefined(entry[e].working, edit[w].seen), k, v) IN
  /\ edit[w].stage = "typed"
  /\ Exists(e)
  /\ Valid(edit[w].seen, doc)
  /\ edit' = [edit EXCEPT ![w].stage = "valid", ![w].entry = e, ![w].doc = doc,
                          ![w].base = entry[e].ver, ![w].seen = IdleEdit.seen]
  /\ UNCHANGED <<def, dropped, entry, call, unvouched>>

(* A write is vouched for when no schema call was under way beside it.     *)
Overlapped(w) == edit[w].crossed \/ \E a \in Admins : InFlight(a)

WriteEntry(w) ==
  LET e == edit[w].entry IN
  /\ edit[w].stage = "valid"
  /\ IF dropped \/ entry[e].ver # edit[w].base \/ entry[e].life = "gone" THEN Give(w)
     ELSE /\ entry[e].ver < MaxVersion
          /\ entry' = [entry EXCEPT ![e].life = "live", ![e].working = edit[w].doc,
                                    ![e].ver = @ + 1]
          /\ unvouched' = [unvouched EXCEPT !.working =
                             IF Overlapped(w) THEN @ \cup {e} ELSE @ \ {e}]
          /\ edit' = Drop(w)
          /\ UNCHANGED <<def, dropped, call>>

(* SetEntryStatus validates nothing: the snapshot is the working copy.     *)
Publish(e) ==
  /\ Exists(e) /\ entry[e].ver < MaxVersion
  /\ entry' = [entry EXCEPT ![e].published = TRUE, ![e].live = entry[e].working,
                            ![e].ver = @ + 1]
  /\ unvouched' = [unvouched EXCEPT !.live =
       IF e \in unvouched.working \/ \E a \in Admins : InFlight(a)
       THEN @ \cup {e} ELSE @ \ {e}]
  /\ UNCHANGED <<def, dropped, call, edit>>

Unpublish(e) ==
  /\ Exists(e) /\ entry[e].published /\ entry[e].ver < MaxVersion
  /\ entry' = [entry EXCEPT ![e].published = FALSE, ![e].live = Blank, ![e].ver = @ + 1]
  /\ UNCHANGED <<def, dropped, call, edit, unvouched>>

DeleteEntry(e) ==
  /\ Exists(e)
  /\ entry' = [entry EXCEPT ![e] = [Unborn EXCEPT !.life = "gone"]]
  /\ UNCHANGED <<def, dropped, call, edit, unvouched>>

EntryStep ==
  \/ \E w \in Writers :
       \/ ReadType(w)
       \/ \E e \in Entries, doc \in Docs : ComposeEntry(w, e, doc)
       \/ \E e \in Entries, k \in Keys, v \in Values : ComposeUpdate(w, e, k, v)
       \/ WriteEntry(w)
  \/ \E e \in Entries : Publish(e) \/ Unpublish(e) \/ DeleteEntry(e)

SchemaNext == (\E a \in Admins : SchemaCall(a)) \/ EntryStep

SchemaSpec == SchemaInit /\ [][SchemaNext]_schemaVars

-----------------------------------------------------------------------------
Stages == {"idle", "read", "checked"}
Ops == {"none", "add", "update", "rename", "delete", "drop"}

(* Type invariant of the definition, its entries and the calls on them.    *)
SchemaTypeOK ==
  /\ def \in Definitions
  /\ dropped \in BOOLEAN
  /\ entry \in [Entries -> [life : {"unborn", "live", "gone"}, ver : 0..MaxVersion,
                            working : Docs, live : Docs, published : BOOLEAN]]
  /\ call \in [Admins -> [op : Ops, stage : Stages, key : Keys \cup {""},
                          to : Keys \cup {""}, force : BOOLEAN,
                          old : Field \cup {NoField}, next : Field \cup {NoField},
                          crossed : BOOLEAN]]
  /\ edit \in [Writers -> [stage : {"idle", "typed", "valid"}, entry : Entries \cup {Nobody},
                           seen : Definitions, base : 0..MaxVersion, doc : Docs,
                           crossed : BOOLEAN]]
  /\ unvouched \in [working : SUBSET Entries, live : SUBSET Entries]

(* A document no longer fits its type only if it was written beside a      *)
(* schema call, or a required field was added over it: the counts of       *)
(* UpdateField, DeleteField and RenameField otherwise cover every entry    *)
(* the change would brick.  Delivery's copy is held to the constraints     *)
(* and the keys, not to `required'.                                        *)
EntriesFit ==
  ~dropped => \A e \in Entries : Exists(e) =>
    /\ e \notin unvouched.working => Valid(def, entry[e].working)
    /\ entry[e].published /\ e \notin unvouched.live =>
         \A k \in Keys : IF def[k] = NoField THEN entry[e].live[k] = "absent"
                         ELSE FitsField(def[k], entry[e].live[k])

(* An attribute no call in flight set out to change changes only under a   *)
(* PATCH that another schema change overtook: UpdateField writes back      *)
(* every column it read.                                                   *)
OnlyWhatThePatchNames ==
  [][\A k \in Keys : def[k] # NoField /\ def'[k] # NoField /\ def'[k] # def[k] =>
       \E a \in Admins : /\ call[a].stage = "checked"
                         /\ call[a].op = "update" /\ call[a].key = k
                         /\ call[a].old = def[k] \/ call[a].crossed]_schemaVars

(* DeleteContentType refuses while entries exist, so an entry disappears   *)
(* with its type only if it was created while the deletion was under way.  *)
NoEntryGoesUnseen ==
  [][dropped' /\ ~dropped => \A e \in Entries : Exists(e) => e \in unvouched.working]_schemaVars

(* The definition and the stored documents agree wherever a guard vouched for
   both (schema_mutation.go UpdateField, countConstraintViolations). *)
SchemaSound == SchemaTypeOK /\ EntriesFit

=============================================================================
