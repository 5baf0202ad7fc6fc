---------------------------- MODULE UniqueValues ----------------------------
(***************************************************************************)
(* The reservation ledger behind `unique': entry_unique_values, kept by    *)
(* every write of an entry (refreshEntryUniqueValues) and by the PATCH     *)
(* that switches the attribute (UpdateFieldDefinition), for one field of   *)
(* one content type in one locale.                                         *)
(*                                                                         *)
(* A transaction is a series of statements, each of which sees what was    *)
(* committed when it began, together with its own changes.  What it added  *)
(* to and removed from the ledger is private until it commits, but the     *)
(* primary key makes an INSERT wait for an undecided row of the same value *)
(* and a DELETE wait for one that another transaction is removing.  A new  *)
(* reservation share-locks the field and the entry it refers to.           *)
(*                                                                         *)
(* The version a request compares decides only whether its UPDATE matches; *)
(* it is left to EntryRelease.  A retracted snapshot reserves nothing and  *)
(* is not kept.                                                            *)
(***************************************************************************)
EXTENDS FiniteSets

CONSTANTS
  Entries,  \* entry ids
  Values,   \* values of the field, rendered as text
  NoValue,  \* the field is absent, null or empty
  Writers,  \* requests that write an entry
  Patchers, \* requests that PATCH the field's definition
  Nobody    \* the holder of a free lock

ASSUME UniqueAssumption ==
  /\ NoValue \notin Values
  /\ Writers \cap Patchers = {}
  /\ Nobody \notin Writers \cup Patchers \cup Entries

Requests == Writers \cup Patchers

VARIABLES
  unique,    \* content_type_fields.is_unique
  doc,       \* the entries
  ledger,    \* entry_unique_values
  rowLock,   \* the writer that updates or deletes each entry
  fieldLock, \* the PATCH that holds the field's row FOR UPDATE
  stage,     \* where each request stands
  target,    \* the entry a writer writes
  draft,     \* what the entry will be when the writer commits
  wants,     \* the unique flag a PATCH will write
  todo,      \* rows a statement has yet to delete or insert
  added,     \* uncommitted rows of each transaction
  removed,   \* rows each transaction has deleted and not yet committed
  torn,      \* history: writers whose transaction overlaps one of a PATCH
  crossed    \* history: entries whose last write did

private == <<target, draft, wants, todo, added, removed>>
vars == <<unique, doc, ledger, rowLock, fieldLock, stage, private, torn, crossed>>

Contents == Values \cup {NoValue}
Docs == [life : {"unborn", "live", "gone"}, work : Contents, shelf : Contents]
Reservations == Entries \X Values

(* What a request does next: a statement of refreshEntryUniqueValues       *)
(* ("check", "release", "reserve"), of the PATCH ("count", "field",        *)
(* "clear", "scan"), the rows of a DELETE or an INSERT that has begun, or  *)
(* the foreign keys of the rows it inserted.                               *)
Stages == {"idle", "check", "release", "reserve", "count", "field", "clear",
           "scan", "delete", "insert", "refer", "commit"}

TypeOK ==
  /\ unique \in BOOLEAN
  /\ doc \in [Entries -> Docs]
  /\ ledger \subseteq Reservations
  /\ rowLock \in [Entries -> Writers \cup {Nobody}]
  /\ fieldLock \in Patchers \cup {Nobody}
  /\ stage \in [Requests -> Stages]
  /\ target \in [Writers -> Entries \cup {Nobody}]
  /\ draft \in [Writers -> Docs]
  /\ wants \in [Patchers -> BOOLEAN]
  /\ todo \in [Requests -> SUBSET Reservations]
  /\ added \in [Requests -> SUBSET Reservations]
  /\ removed \in [Requests -> SUBSET Reservations]
  /\ torn \subseteq Writers
  /\ crossed \subseteq Entries

Unborn == [life |-> "unborn", work |-> NoValue, shelf |-> NoValue]
Deleted == [life |-> "gone", work |-> NoValue, shelf |-> NoValue]
Live(d) == d.life = "live"

Init ==
  /\ unique \in BOOLEAN
  /\ doc = [e \in Entries |-> Unborn]
  /\ ledger = {}
  /\ rowLock = [e \in Entries |-> Nobody]
  /\ fieldLock = Nobody
  /\ stage = [r \in Requests |-> "idle"]
  /\ target = [w \in Writers |-> Nobody]
  /\ draft = [w \in Writers |-> Unborn]
  /\ wants = [p \in Patchers |-> FALSE]
  /\ todo = [r \in Requests |-> {}]
  /\ added = [r \in Requests |-> {}]
  /\ removed = [r \in Requests |-> {}]
  /\ torn = {}
  /\ crossed = {}

Goto(r, s) == stage' = [stage EXCEPT ![r] = s]

(* Mutant: an absent value is reserved like any other.                     *)
HeldOrAbsent(d) == {d.work, d.shelf}

(* reservationsSQL: the values of the working copy and the live snapshot.  *)
Held(d) == {d.work, d.shelf} \ {NoValue}

RowsOf(e, values) == {e} \X values
LedgerOf(e) == {v \in Values : <<e, v>> \in ledger}

-----------------------------------------------------------------------------
(* Transactions.                                                           *)

(* The end of a transaction gives up its locks and its private rows.       *)
Close(r) ==
  /\ rowLock' = [e \in Entries |-> IF rowLock[e] = r THEN Nobody ELSE rowLock[e]]
  /\ fieldLock' = IF fieldLock = r THEN Nobody ELSE fieldLock
  /\ target' = IF r \in Writers THEN [target EXCEPT ![r] = Nobody] ELSE target
  /\ draft' = IF r \in Writers THEN [draft EXCEPT ![r] = Unborn] ELSE draft
  /\ wants' = IF r \in Patchers THEN [wants EXCEPT ![r] = FALSE] ELSE wants
  /\ todo' = [todo EXCEPT ![r] = {}]
  /\ added' = [added EXCEPT ![r] = {}]
  /\ removed' = [removed EXCEPT ![r] = {}]
  /\ torn' = torn \ {r}
  /\ Goto(r, "idle")

(* An error of the transaction, a refusal among them, rolls it back.       *)
Rollback(r) == Close(r) /\ UNCHANGED <<unique, doc, ledger, crossed>>

(* Transactions that have yet to decide on a row of the same value, and on *)
(* the deletion of one of these rows.                                      *)
Rivals(r, v) ==
  {s \in Requests \ {r} : \E row \in added[s] \cup removed[s] : row[2] = v}
Removers(r, rows) == {s \in Requests \ {r} : removed[s] \cap rows # {}}

(* A statement that changes the ledger begins: it works on the rows its    *)
(* snapshot shows, however long it then has to wait for them.              *)
Begin(r, rows, s) ==
  /\ todo' = [todo EXCEPT ![r] = rows]
  /\ Goto(r, s)
  /\ UNCHANGED <<unique, doc, ledger, rowLock, fieldLock, target, draft, wants,
                 added, removed, torn, crossed>>

(* What follows the DELETE: the INSERT, where there is one.                *)
AfterDelete(r) ==
  IF r \in Writers
  THEN IF Live(draft[r]) THEN "reserve" ELSE "commit"
  ELSE IF wants[r] THEN "scan" ELSE "commit"

(* The DELETE ends; it skips what another transaction deleted meanwhile.   *)
DeleteRows(r) ==
  /\ stage[r] = "delete"
  /\ Removers(r, todo[r]) = {}
  /\ removed' = [removed EXCEPT ![r] = todo[r] \cap ledger]
  /\ todo' = [todo EXCEPT ![r] = {}]
  /\ Goto(r, AfterDelete(r))
  /\ UNCHANGED <<unique, doc, ledger, rowLock, fieldLock, target, draft, wants,
                 added, torn, crossed>>

(* Mutant: the ledger without its primary key.                             *)
NeverTaken(r, v) == FALSE

(* The primary key: the value is reserved by a row r cannot disregard.     *)
Taken(r, v) == \E row \in (ledger \ removed[r]) \cup added[r] : row[2] = v

(* One row of an INSERT that has nobody to wait for.                       *)
InsertRow(r, row) ==
  /\ stage[r] = "insert" /\ row \in todo[r]
  /\ Rivals(r, row[2]) = {}
  /\ \/ /\ ~Taken(r, row[2])
        /\ todo' = [todo EXCEPT ![r] = @ \ {row}]
        /\ added' = [added EXCEPT ![r] = @ \cup {row}]
        /\ Goto(r, IF todo[r] = {row} THEN "refer" ELSE "insert")
        /\ UNCHANGED <<unique, doc, ledger, rowLock, fieldLock, target, draft,
                       wants, removed, torn, crossed>>
     \/ Taken(r, row[2]) /\ Rollback(r)

-----------------------------------------------------------------------------
(* Writes of an entry.                                                     *)

(* A save, a release, a retraction, a deletion, or a new entry.            *)
Drafts(d) ==
  CASE d.life = "unborn" -> {[d EXCEPT !.life = "live", !.work = v] : v \in Contents}
    [] d.life = "live"   -> {[d EXCEPT !.work = v] : v \in Contents}
                            \cup {[d EXCEPT !.shelf = d.work],
                                  [d EXCEPT !.shelf = NoValue], Deleted}
    [] d.life = "gone"   -> {}

(* The PATCHes whose new reservations share-lock the entry.                *)
Pinning(e) ==
  {p \in Patchers : stage[p] = "commit" /\ \E row \in added[p] : row[1] = e}

(* UPDATE, INSERT or DELETE of the entry's row.  A deletion cascades to    *)
(* the ledger and reserves nothing.                                        *)
WriteEntry(w, e, d) ==
  /\ stage[w] = "idle" /\ rowLock[e] = Nobody
  /\ d \in Drafts(doc[e])
  /\ ~Live(d) => Pinning(e) = {}
  /\ rowLock' = [rowLock EXCEPT ![e] = w]
  /\ target' = [target EXCEPT ![w] = e]
  /\ draft' = [draft EXCEPT ![w] = d]
  /\ torn' = IF fieldLock # Nobody THEN torn \cup {w} ELSE torn
  /\ Goto(w, IF Live(d) THEN "check" ELSE "release")
  /\ UNCHANGED <<unique, doc, ledger, fieldLock, wants, todo, added, removed, crossed>>

(* The pre-check names a conflict it can see; it does not lock anything.   *)
CheckValues(w) ==
  /\ stage[w] = "check"
  /\ \/ /\ unique
        /\ \E row \in ledger : row[1] # target[w] /\ row[2] \in Held(draft[w])
        /\ Rollback(w)
     \/ /\ ~unique \/ \A row \in ledger :
                          row[1] # target[w] => row[2] \notin Held(draft[w])
        /\ Goto(w, "release")
        /\ UNCHANGED <<unique, doc, ledger, rowLock, fieldLock, private, torn, crossed>>

OwnRows(w) == RowsOf(target[w], LedgerOf(target[w]))

(* DELETE of the entry's own reservations begins.                          *)
ReleaseValues(w) ==
  /\ stage[w] = "release"
  /\ Begin(w, OwnRows(w), "delete")

Reservable(w) == IF unique THEN RowsOf(target[w], Held(draft[w])) ELSE {}

(* INSERT begins: the flag is read in this statement's snapshot.           *)
ReserveValues(w) ==
  /\ stage[w] = "reserve"
  /\ Begin(w, Reservable(w), IF Reservable(w) = {} THEN "commit" ELSE "insert")

(* The foreign key to the field waits for a PATCH that holds it.           *)
ReferToField(w) ==
  /\ w \in Writers /\ stage[w] = "refer"
  /\ fieldLock = Nobody
  /\ Goto(w, "commit")
  /\ UNCHANGED <<unique, doc, ledger, rowLock, fieldLock, private, torn, crossed>>

Settled(r) == (ledger \ removed[r]) \cup added[r]

CommitEntry(w) ==
  /\ w \in Writers /\ stage[w] = "commit"
  /\ doc' = [doc EXCEPT ![target[w]] = draft[w]]
  /\ ledger' = Settled(w)
  /\ crossed' = IF w \in torn THEN crossed \cup {target[w]} ELSE crossed \ {target[w]}
  /\ Close(w)
  /\ UNCHANGED unique

-----------------------------------------------------------------------------
(* PATCH of the field.                                                     *)

(* UpdateField reads the definition.  A PATCH that leaves `unique' out     *)
(* writes back the value it read.                                          *)
ReadField(p, want) ==
  /\ stage[p] = "idle"
  /\ wants' = [wants EXCEPT ![p] = want]
  /\ Goto(p, IF want /\ ~unique THEN "count" ELSE "field")
  /\ UNCHANGED <<unique, doc, ledger, rowLock, fieldLock, target, draft, todo,
                 added, removed, torn, crossed>>

Duplicates ==
  {v \in Values : \E e, f \in Entries :
     e # f /\ v \in Held(doc[e]) /\ v \in Held(doc[f])}

CountDuplicates(p) ==
  /\ stage[p] = "count"
  /\ \/ /\ Duplicates = {}
        /\ Goto(p, "field")
        /\ UNCHANGED <<unique, doc, ledger, rowLock, fieldLock, private, torn, crossed>>
     \/ Duplicates # {} /\ Rollback(p)

(* Writers whose new reservations share-lock the field.                    *)
Sharers == {w \in Writers : stage[w] = "commit" /\ added[w] # {}}

(* Mutant: switching the attribute off leaves the reservations.            *)
SwitchesOn(p, was) == wants[p] /\ ~was

(* What UpdateFieldDefinition has to do to the ledger.                     *)
Switches(p, was) == wants[p] # was

(* SELECT is_unique ... FOR UPDATE, and the UPDATE of the definition.      *)
LockField(p) ==
  /\ stage[p] = "field"
  /\ fieldLock = Nobody /\ Sharers = {}
  /\ fieldLock' = p
  /\ torn' = {w \in Writers : stage[w] # "idle"}
  /\ Goto(p, IF Switches(p, unique) THEN "clear" ELSE "commit")
  /\ UNCHANGED <<unique, doc, ledger, rowLock, private, crossed>>

(* Both directions begin with a DELETE of the field's reservations.        *)
ClearField(p) ==
  /\ stage[p] = "clear"
  /\ Begin(p, ledger, "delete")

Stored == UNION {RowsOf(e, Held(doc[e])) : e \in Entries}

(* INSERT ... SELECT begins: every value the committed entries hold.       *)
ScanField(p) ==
  /\ stage[p] = "scan"
  /\ Begin(p, Stored, IF Stored = {} THEN "commit" ELSE "insert")

(* The foreign key to the entries waits for a deletion, and fails if it    *)
(* commits.                                                                *)
Deleting(rows) ==
  {w \in Writers : stage[w] # "idle" /\ ~Live(draft[w])
                   /\ \E row \in rows : row[1] = target[w]}

ReferToEntries(p) ==
  /\ p \in Patchers /\ stage[p] = "refer"
  /\ Deleting(added[p]) = {}
  /\ \/ /\ \A row \in added[p] : Live(doc[row[1]])
        /\ Goto(p, "commit")
        /\ UNCHANGED <<unique, doc, ledger, rowLock, fieldLock, private, torn, crossed>>
     \/ (\E row \in added[p] : ~Live(doc[row[1]])) /\ Rollback(p)

CommitField(p) ==
  /\ p \in Patchers /\ stage[p] = "commit"
  /\ unique' = wants[p]
  /\ ledger' = Settled(p)
  /\ Close(p)
  /\ UNCHANGED <<doc, crossed>>

-----------------------------------------------------------------------------
(* The transactions r waits for.                                           *)
WaitsFor(r) ==
  CASE stage[r] = "delete" -> Removers(r, todo[r])
    [] stage[r] = "insert" -> UNION {Rivals(r, row[2]) : row \in todo[r]}
    [] stage[r] = "refer" /\ r \in Writers  -> {fieldLock} \ {Nobody}
    [] stage[r] = "refer" /\ r \in Patchers -> Deleting(added[r])
    [] OTHER -> {}

(* An INSERT or a DELETE waits for one row at a time, so a transaction may *)
(* be stuck although another of its rows is free.                          *)
Deadlocked(r) ==
  \E S \in SUBSET Requests :
    r \in S /\ \A s \in S : WaitsFor(s) \cap S # {}

AbortDeadlocked(r) == Deadlocked(r) /\ Rollback(r)

(* A lost connection or a cancelled request.                               *)
Fail(r) == stage[r] # "idle" /\ Rollback(r)

WriterStep(w) ==
  \/ \E e \in Entries : \E d \in Drafts(doc[e]) : WriteEntry(w, e, d)
  \/ CheckValues(w) \/ ReleaseValues(w) \/ ReserveValues(w) \/ ReferToField(w)
  \/ CommitEntry(w)

PatcherStep(p) ==
  \/ \E want \in BOOLEAN : ReadField(p, want)
  \/ CountDuplicates(p) \/ LockField(p) \/ ClearField(p) \/ ScanField(p)
  \/ ReferToEntries(p) \/ CommitField(p)

Next ==
  \/ \E w \in Writers : WriterStep(w)
  \/ \E p \in Patchers : PatcherStep(p)
  \/ \E r \in Requests :
       \/ \E row \in Reservations : InsertRow(r, row)
       \/ DeleteRows(r) \/ AbortDeadlocked(r) \/ Fail(r)

Spec == Init /\ [][Next]_vars

-----------------------------------------------------------------------------
(* Properties.                                                             *)

(* refreshEntryUniqueValues runs in the transaction of every write, so the *)
(* ledger is derived state: of an entry whose last write overlapped no     *)
(* PATCH of the field, it holds the values of both copies while the field  *)
(* is unique, and nothing otherwise, in every committed state.             *)
LedgerDerived ==
  \A e \in Entries \ crossed :
    LedgerOf(e) = IF unique THEN Held(doc[e]) ELSE {}

(* `unique' means what it says whatever runs at once: two such entries     *)
(* never hold a value together, in the working copy or in the snapshot;    *)
(* of two concurrent creates only one wins.                                *)
ValuesAreUnique ==
  unique => \A e, f \in Entries \ crossed :
              e # f => Held(doc[e]) \cap Held(doc[f]) = {}

(* The ledger of unique values follows the entries, and keeps two of them from
   holding one value (postgres_repository.go refreshUniqueValues). *)
LedgerSound == TypeOK /\ LedgerDerived /\ ValuesAreUnique

=============================================================================
