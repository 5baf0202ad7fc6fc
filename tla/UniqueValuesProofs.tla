------------------------- MODULE UniqueValuesProofs -------------------------
(***************************************************************************)
(* Proofs about UniqueValues for every number of entries, values, writers  *)
(* and PATCHes.                                                            *)
(***************************************************************************)
EXTENDS UniqueValues, TLAPS

WriterStages == {"idle", "check", "release", "delete", "reserve", "insert", "refer", "commit"}
PatcherStages == {"idle", "count", "field", "clear", "delete", "scan", "insert", "refer", "commit"}
Holding == {"clear", "delete", "scan", "insert", "refer", "commit"}

(* Stages, and the locks that go with them.  Whoever writes an entry while *)
(* a PATCH holds the field is remembered as torn.                          *)
LockInv ==
  /\ \A w \in Writers : stage[w] \in WriterStages
  /\ \A p \in Patchers : stage[p] \in PatcherStages
  /\ \A w \in Writers : stage[w] # "idle" => target[w] \in Entries
  /\ \A w \in Writers, e \in Entries :
       rowLock[e] = w <=> (stage[w] # "idle" /\ target[w] = e)
  /\ \A p \in Patchers : fieldLock = p <=> stage[p] \in Holding
  /\ \A w \in torn : stage[w] # "idle"
  /\ fieldLock # Nobody => \A w \in Writers : stage[w] # "idle" => w \in torn
  /\ \A w \in Writers : stage[w] # "idle" /\ ~Live(draft[w]) => draft[w] = Deleted

(* Which rows a transaction can have at each stage.                        *)
PrivateInv ==
  \A r \in Requests :
    /\ stage[r] \notin {"delete", "insert"} => todo[r] = {}
    /\ stage[r] \notin {"insert", "refer", "commit"} => added[r] = {}
    /\ stage[r] \notin {"reserve", "scan", "insert", "refer", "commit"} => removed[r] = {}
    /\ r \in Writers =>
         \A row \in todo[r] \cup added[r] \cup removed[r] : row[1] = target[r]

(* A write no PATCH overlaps gives up all of the entry's reservations and  *)
(* takes the ones the entry will hold.                                     *)
WriteInv ==
  \A w \in Writers \ torn :
    /\ stage[w] = "delete" => todo[w] = OwnRows(w)
    /\ stage[w] \in {"reserve", "insert", "refer", "commit"} => removed[w] = OwnRows(w)
    /\ stage[w] \in {"insert", "refer"} =>
         unique /\ added[w] \cup todo[w] = RowsOf(target[w], Held(draft[w]))
    /\ stage[w] = "commit" => added[w] = Reservable(w)

AboutToSwitch(p) == stage[p] = "commit" /\ wants[p] # unique

(* While a PATCH has the field, only torn writers commit; of the other     *)
(* entries it has seen every reservation and every value.                  *)
PatchInv ==
  \A p \in Patchers :
    /\ stage[p] \in Holding \ {"commit"} => wants[p] # unique
    /\ stage[p] \in {"scan", "insert", "refer"} => wants[p]
    /\ stage[p] = "delete" => \A row \in ledger : row[1] \in crossed \/ row \in todo[p]
    /\ stage[p] \in {"scan", "insert", "refer"} \/ AboutToSwitch(p) =>
         \A row \in ledger : row[1] \in crossed \/ row \in removed[p]
    /\ stage[p] \in {"insert", "refer"} \/ (AboutToSwitch(p) /\ wants[p]) =>
         \A e \in Entries \ crossed :
           {v \in Values : <<e, v>> \in added[p] \cup todo[p]} = Held(doc[e])
    /\ stage[p] = "commit" /\ ~wants[p] => added[p] = {}
    /\ stage[p] = "commit" /\ wants[p] = unique => added[p] = {} /\ removed[p] = {}

(* The primary key: no two rows anybody could commit have the same value.  *)
KeyInv ==
  /\ \A x, y \in ledger : x[2] = y[2] => x = y
  /\ \A r \in Requests : \A x, y \in added[r] : x[2] = y[2] => x = y
  /\ \A r \in Requests : \A x \in added[r] : \A y \in ledger \ removed[r] : x[2] # y[2]
  /\ \A r, s \in Requests : r # s =>
       \A x \in added[r] : \A y \in added[s] \cup removed[s] : x[2] # y[2]

Inv == TypeOK /\ LockInv /\ PrivateInv /\ WriteInv /\ LedgerDerived /\ PatchInv /\ KeyInv

-----------------------------------------------------------------------------
(* What a step of r leaves alone, and what it does, variable by variable.  *)

Others(r) ==
  /\ \A s \in Requests \ {r} :
       /\ stage'[s] = stage[s] /\ todo'[s] = todo[s]
       /\ added'[s] = added[s] /\ removed'[s] = removed[s]
  /\ \A w \in Writers \ {r} : target'[w] = target[w] /\ draft'[w] = draft[w]
  /\ \A p \in Patchers \ {r} : wants'[p] = wants[p]

Committed == UNCHANGED <<unique, doc, ledger, crossed>>
Locks == UNCHANGED <<rowLock, fieldLock, torn>>
Intent(r) ==
  /\ r \in Writers => target'[r] = target[r] /\ draft'[r] = draft[r]
  /\ r \in Patchers => wants'[r] = wants[r]

Ends(r) ==
  /\ \A e \in Entries : rowLock'[e] = IF rowLock[e] = r THEN Nobody ELSE rowLock[e]
  /\ fieldLock' = IF fieldLock = r THEN Nobody ELSE fieldLock
  /\ torn' = torn \ {r}
  /\ stage'[r] = "idle" /\ todo'[r] = {} /\ added'[r] = {} /\ removed'[r] = {}

Aborts(r) == Ends(r) /\ Committed

CommitsEntry(w) ==
  /\ w \in Writers /\ stage[w] = "commit" /\ Ends(w)
  /\ target[w] \in Entries =>
       \A e \in Entries : doc'[e] = IF e = target[w] THEN draft[w] ELSE doc[e]
  /\ ledger' = Settled(w)
  /\ crossed' = IF w \in torn THEN crossed \cup {target[w]} ELSE crossed \ {target[w]}
  /\ unique' = unique

CommitsField(p) ==
  /\ p \in Patchers /\ stage[p] = "commit" /\ Ends(p)
  /\ unique' = wants[p] /\ ledger' = Settled(p)
  /\ UNCHANGED <<doc, crossed>>

Starts(w) ==
  /\ w \in Writers /\ stage[w] = "idle" /\ Committed
  /\ \E e \in Entries :
       /\ rowLock[e] = Nobody
       /\ \A f \in Entries : rowLock'[f] = IF f = e THEN w ELSE rowLock[f]
       /\ target'[w] = e
  /\ fieldLock' = fieldLock
  /\ torn' = IF fieldLock # Nobody THEN torn \cup {w} ELSE torn
  /\ Live(draft'[w]) \/ draft'[w] = Deleted
  /\ stage'[w] \in {"check", "release"}
  /\ todo'[w] = todo[w] /\ added'[w] = added[w] /\ removed'[w] = removed[w]

Reads(p) ==
  /\ p \in Patchers /\ stage[p] = "idle" /\ Committed /\ Locks
  /\ stage'[p] \in {"count", "field"}
  /\ todo'[p] = todo[p] /\ added'[p] = added[p] /\ removed'[p] = removed[p]

LocksField(p) ==
  /\ p \in Patchers /\ stage[p] = "field" /\ fieldLock = Nobody /\ Committed /\ Intent(p)
  /\ rowLock' = rowLock /\ fieldLock' = p
  /\ torn' = {w \in Writers : stage[w] # "idle"}
  /\ stage'[p] = IF wants[p] # unique THEN "clear" ELSE "commit"
  /\ todo'[p] = todo[p] /\ added'[p] = added[p] /\ removed'[p] = removed[p]

Moves(r) ==
  /\ Committed /\ Locks /\ Intent(r)
  /\ \/ r \in Writers /\ stage[r] = "check" /\ stage'[r] = "release"
     \/ r \in Patchers /\ stage[r] = "count" /\ stage'[r] = "field"
     \/ stage[r] = "refer" /\ stage'[r] = "commit"
  /\ todo'[r] = todo[r] /\ added'[r] = added[r] /\ removed'[r] = removed[r]

Begins(r) ==
  /\ Committed /\ Locks /\ Intent(r)
  /\ added'[r] = added[r] /\ removed'[r] = removed[r]
  /\ \/ /\ r \in Writers /\ stage[r] = "release" /\ stage'[r] = "delete"
        /\ todo'[r] = OwnRows(r)
     \/ /\ r \in Writers /\ stage[r] = "reserve" /\ todo'[r] = Reservable(r)
        /\ stage'[r] = IF Reservable(r) = {} THEN "commit" ELSE "insert"
     \/ /\ r \in Patchers /\ stage[r] = "clear" /\ stage'[r] = "delete"
        /\ todo'[r] = ledger
     \/ /\ r \in Patchers /\ stage[r] = "scan" /\ todo'[r] = Stored
        /\ stage'[r] = IF Stored = {} THEN "commit" ELSE "insert"

Deletes(r) ==
  /\ Committed /\ Locks /\ Intent(r)
  /\ stage[r] = "delete" /\ Removers(r, todo[r]) = {}
  /\ stage'[r] = AfterDelete(r)
  /\ removed'[r] = todo[r] \cap ledger /\ todo'[r] = {} /\ added'[r] = added[r]

Inserts(r) ==
  /\ Committed /\ Locks /\ Intent(r)
  /\ stage[r] = "insert" /\ removed'[r] = removed[r]
  /\ \E row \in todo[r] :
       /\ Rivals(r, row[2]) = {} /\ ~Taken(r, row[2])
       /\ todo'[r] = todo[r] \ {row} /\ added'[r] = added[r] \cup {row}
       /\ stage'[r] = IF todo[r] = {row} THEN "refer" ELSE "insert"

Steps(r) ==
  /\ Others(r)
  /\ \/ Aborts(r) \/ CommitsEntry(r) \/ CommitsField(r) \/ Starts(r) \/ Reads(r)
     \/ LocksField(r) \/ Moves(r) \/ Begins(r) \/ Deletes(r) \/ Inserts(r)

-----------------------------------------------------------------------------
LEMMA Roles == \A r \in Requests : (r \in Writers \/ r \in Patchers) /\ ~(r \in Writers /\ r \in Patchers)
BY UniqueAssumption DEF Requests

(* What a writer makes of an entry is live or a deletion.                  *)
LEMMA DraftForms ==
  ASSUME NEW d \in Docs, NEW n \in Drafts(d)
  PROVE  n \in Docs /\ (Live(n) \/ n = Deleted)
<1>1. d.life \in {"unborn", "live", "gone"} /\ d.shelf \in Contents /\ d.work \in Contents
      BY DEF Docs
<1>2. CASE d.life = "unborn"
  <2>1. PICK v \in Contents : n = [d EXCEPT !.life = "live", !.work = v]
        BY <1>2 DEF Drafts
  <2> QED BY <2>1 DEF Docs, Live
<1>3. CASE d.life = "live"
  <2>1. \/ \E v \in Contents : n = [d EXCEPT !.work = v]
        \/ n = [d EXCEPT !.shelf = d.work]
        \/ n = [d EXCEPT !.shelf = NoValue]
        \/ n = Deleted
        BY <1>3 DEF Drafts
  <2>2. NoValue \in Contents
        BY DEF Contents
  <2> QED BY <1>1, <1>3, <2>1, <2>2 DEF Docs, Live, Deleted
<1>4. CASE d.life = "gone"
      BY <1>4 DEF Drafts
<1> QED BY <1>1, <1>2, <1>3, <1>4

LEMMA RowTypes ==
  ASSUME TypeOK
  PROVE  /\ \A w \in Writers : target[w] \in Entries =>
              OwnRows(w) \subseteq Reservations /\ Reservable(w) \subseteq Reservations
         /\ Stored \subseteq Reservations
<1>1. \A d \in Docs : Held(d) \subseteq Values
      BY DEF Held, Docs, Contents
<1>2. ASSUME NEW e \in Entries PROVE Held(doc[e]) \subseteq Values
      BY <1>1 DEF TypeOK
<1>3. Stored \subseteq Reservations
      BY <1>2 DEF Stored, RowsOf, Reservations
<1>4. ASSUME NEW w \in Writers, target[w] \in Entries
      PROVE  OwnRows(w) \subseteq Reservations /\ Reservable(w) \subseteq Reservations
  <2>1. draft[w] \in Docs
        BY DEF TypeOK
  <2> QED BY <1>1, <1>4, <2>1 DEF OwnRows, Reservable, RowsOf, LedgerOf, Reservations
<1> QED BY <1>3, <1>4

LEMMA Types ==
  ASSUME TypeOK, [Next]_vars,
         \A w \in Writers : stage[w] # "idle" => target[w] \in Entries
  PROVE  TypeOK'
<1> USE DEF TypeOK
<1>1. ASSUME NEW r \in Requests, Close(r)
      PROVE  /\ rowLock' \in [Entries -> Writers \cup {Nobody}]
             /\ fieldLock' \in Patchers \cup {Nobody}
             /\ stage' \in [Requests -> Stages]
             /\ target' \in [Writers -> Entries \cup {Nobody}]
             /\ draft' \in [Writers -> Docs]
             /\ wants' \in [Patchers -> BOOLEAN]
             /\ todo' \in [Requests -> SUBSET Reservations]
             /\ added' \in [Requests -> SUBSET Reservations]
             /\ removed' \in [Requests -> SUBSET Reservations]
             /\ torn' \subseteq Writers
  <2>1. Unborn \in Docs
        BY DEF Unborn, Docs, Contents
  <2>2. rowLock' \in [Entries -> Writers \cup {Nobody}] /\ fieldLock' \in Patchers \cup {Nobody}
        BY <1>1 DEF Close
  <2>3. target' \in [Writers -> Entries \cup {Nobody}] /\ draft' \in [Writers -> Docs]
        BY <1>1, <2>1 DEF Close
  <2> QED BY <1>1, <2>2, <2>3 DEF Close, Goto, Stages
<1>2. ASSUME NEW r \in Requests, Rollback(r) PROVE TypeOK'
      BY <1>1, <1>2 DEF Rollback
<1>3. ASSUME NEW r \in Requests, NEW rows \in SUBSET Reservations, NEW s \in Stages, Begin(r, rows, s)
      PROVE  TypeOK'
      BY <1>3 DEF Begin, Goto
<1>4. ASSUME NEW r \in Requests, NEW s \in Stages, Goto(r, s),
             UNCHANGED <<unique, doc, ledger, rowLock, fieldLock, private, torn, crossed>>
      PROVE  TypeOK'
      BY <1>4 DEF Goto, private
<1>5. ASSUME NEW w \in Writers, WriterStep(w) PROVE TypeOK'
  <2> w \in Requests
      BY DEF Requests
  <2>1. ASSUME NEW e \in Entries, NEW d \in Drafts(doc[e]), WriteEntry(w, e, d) PROVE TypeOK'
    <3>1. d \in Docs
          BY DraftForms
    <3> QED BY <2>1, <3>1 DEF WriteEntry, Goto, Stages
  <2>2. CASE CheckValues(w)
        BY <1>2, <1>4, <2>2 DEF CheckValues, Stages
  <2>3. CASE ReleaseValues(w)
        BY <1>3, <2>3, RowTypes DEF ReleaseValues, Stages
  <2>4. CASE ReserveValues(w)
    <3>1. Reservable(w) \in SUBSET Reservations
          BY <2>4, RowTypes DEF ReserveValues
    <3> QED BY <1>3, <2>4, <3>1 DEF ReserveValues, Stages
  <2>5. CASE ReferToField(w)
        BY <1>4, <2>5 DEF ReferToField, Stages
  <2>6. CASE CommitEntry(w)
    <3>1. doc' \in [Entries -> Docs] /\ ledger' \subseteq Reservations /\ crossed' \subseteq Entries
          BY <2>6 DEF CommitEntry, Settled
    <3> QED BY <1>1, <2>6, <3>1 DEF CommitEntry
  <2> QED BY <1>5, <2>1, <2>2, <2>3, <2>4, <2>5, <2>6 DEF WriterStep
<1>6. ASSUME NEW p \in Patchers, PatcherStep(p) PROVE TypeOK'
  <2> p \in Requests
      BY DEF Requests
  <2>1. ASSUME NEW want \in BOOLEAN, ReadField(p, want) PROVE TypeOK'
        BY <2>1 DEF ReadField, Goto, Stages
  <2>2. CASE CountDuplicates(p)
        BY <1>2, <1>4, <2>2 DEF CountDuplicates, Stages
  <2>3. CASE LockField(p)
        BY <2>3 DEF LockField, Goto, Stages, private
  <2>4. CASE ClearField(p)
        BY <1>3, <2>4 DEF ClearField, Stages
  <2>5. CASE ScanField(p)
        BY <1>3, <2>5, RowTypes DEF ScanField, Stages
  <2>6. CASE ReferToEntries(p)
        BY <1>2, <1>4, <2>6 DEF ReferToEntries, Stages
  <2>7. CASE CommitField(p)
    <3>1. unique' \in BOOLEAN /\ ledger' \subseteq Reservations
          BY <2>7 DEF CommitField, Settled
    <3> QED BY <1>1, <2>7, <3>1 DEF CommitField
  <2> QED BY <1>6, <2>1, <2>2, <2>3, <2>4, <2>5, <2>6, <2>7 DEF PatcherStep
<1>7. ASSUME NEW r \in Requests, NEW row \in Reservations, InsertRow(r, row) PROVE TypeOK'
  <2>1. CASE Rollback(r)
        BY <1>2, <2>1
  <2>2. ASSUME ~Rollback(r) PROVE TypeOK'
        BY <1>7, <2>2 DEF InsertRow, Goto, Stages
  <2> QED BY <2>1, <2>2
<1>8. ASSUME NEW r \in Requests, DeleteRows(r) PROVE TypeOK'
  <2>1. AfterDelete(r) \in Stages
        BY DEF AfterDelete, Stages
  <2> QED BY <1>8, <2>1 DEF DeleteRows, Goto
<1>9. CASE UNCHANGED vars
      BY <1>9 DEF vars, private
<1> QED BY <1>2, <1>5, <1>6, <1>7, <1>8, <1>9 DEF Next, AbortDeadlocked, Fail

-----------------------------------------------------------------------------
(* Each step is one of those listed under Steps, by one request.           *)
LEMMA Pointwise ==
  ASSUME TypeOK, [Next]_vars
  PROVE  UNCHANGED vars \/ \E r \in Requests : Steps(r)
<1> USE Roles DEF TypeOK
<1>1. ASSUME NEW r \in Requests, Close(r) PROVE Others(r) /\ Ends(r)
  <2>1. /\ todo' = [todo EXCEPT ![r] = {}]
        /\ added' = [added EXCEPT ![r] = {}]
        /\ removed' = [removed EXCEPT ![r] = {}]
        /\ stage' = [stage EXCEPT ![r] = "idle"]
        BY <1>1 DEF Close, Goto
  <2>2. \A w \in Writers \ {r} : target'[w] = target[w] /\ draft'[w] = draft[w]
        BY <1>1 DEF Close
  <2>3. \A p \in Patchers \ {r} : wants'[p] = wants[p]
        BY <1>1 DEF Close
  <2>4. \A s \in Requests \ {r} :
          /\ stage'[s] = stage[s] /\ todo'[s] = todo[s]
          /\ added'[s] = added[s] /\ removed'[s] = removed[s]
        BY <2>1
  <2>5. Others(r)
        BY <2>2, <2>3, <2>4 DEF Others
  <2>6. /\ \A e \in Entries : rowLock'[e] = IF rowLock[e] = r THEN Nobody ELSE rowLock[e]
        /\ fieldLock' = IF fieldLock = r THEN Nobody ELSE fieldLock
        /\ torn' = torn \ {r}
        BY <1>1 DEF Close
  <2> QED BY <2>1, <2>5, <2>6 DEF Ends
<1>2. ASSUME NEW r \in Requests, Rollback(r) PROVE Steps(r)
      BY <1>1, <1>2 DEF Rollback, Steps, Aborts, Committed
<1>3. ASSUME NEW r \in Requests, NEW s \in Stages, Goto(r, s),
             UNCHANGED <<unique, doc, ledger, rowLock, fieldLock, private, torn, crossed>>
      PROVE  /\ Others(r) /\ Committed /\ Locks /\ Intent(r) /\ stage'[r] = s
             /\ todo'[r] = todo[r] /\ added'[r] = added[r] /\ removed'[r] = removed[r]
      BY <1>3 DEF Goto, private, Others, Committed, Locks, Intent
<1>4. ASSUME NEW r \in Requests, NEW rows, NEW s \in Stages, Begin(r, rows, s)
      PROVE  /\ Others(r) /\ Committed /\ Locks /\ Intent(r) /\ stage'[r] = s
             /\ todo'[r] = rows /\ added'[r] = added[r] /\ removed'[r] = removed[r]
      BY <1>4 DEF Begin, Goto, Others, Committed, Locks, Intent
<1>5. ASSUME NEW w \in Writers, WriterStep(w) PROVE Steps(w)
  <2>0. w \in Requests
        BY DEF Requests
  <2>1. ASSUME NEW e \in Entries, NEW d \in Drafts(doc[e]), WriteEntry(w, e, d) PROVE Steps(w)
    <3>1. Live(d) \/ d = Deleted
          BY DraftForms
    <3>2. Others(w)
          BY <2>0, <2>1 DEF WriteEntry, Goto, Others
    <3>3. /\ target'[w] = e /\ draft'[w] = d /\ stage'[w] \in {"check", "release"}
          /\ \A f \in Entries : rowLock'[f] = IF f = e THEN w ELSE rowLock[f]
          BY <2>0, <2>1 DEF WriteEntry, Goto
    <3>4. Starts(w)
          BY <2>0, <2>1, <3>1, <3>3 DEF WriteEntry, Starts, Committed
    <3> QED BY <3>2, <3>4 DEF Steps
  <2>2. CASE CheckValues(w)
        BY <1>2, <1>3, <2>0, <2>2 DEF CheckValues, Stages, Steps, Moves
  <2>3. CASE ReleaseValues(w)
        BY <1>4, <2>0, <2>3 DEF ReleaseValues, Stages, Steps, Begins
  <2>4. CASE ReserveValues(w)
    <3> DEFINE s == IF Reservable(w) = {} THEN "commit" ELSE "insert"
    <3>1. s \in Stages /\ Begin(w, Reservable(w), s) /\ stage[w] = "reserve"
          BY <2>4 DEF ReserveValues, Stages
    <3> QED BY <1>4, <2>0, <3>1 DEF Steps, Begins
  <2>5. CASE ReferToField(w)
        BY <1>3, <2>0, <2>5 DEF ReferToField, Stages, Steps, Moves
  <2>6. CASE CommitEntry(w)
    <3>1. Others(w) /\ Ends(w)
          BY <1>1, <2>0, <2>6 DEF CommitEntry
    <3>2. \A e \in Entries : doc'[e] = IF e = target[w] THEN draft[w] ELSE doc[e]
          BY <2>6 DEF CommitEntry
    <3> QED BY <2>6, <3>1, <3>2 DEF CommitEntry, Steps, CommitsEntry
  <2> QED BY <1>5, <2>1, <2>2, <2>3, <2>4, <2>5, <2>6 DEF WriterStep
<1>6. ASSUME NEW p \in Patchers, PatcherStep(p) PROVE Steps(p)
  <2>0. p \in Requests
        BY DEF Requests
  <2>1. ASSUME NEW want \in BOOLEAN, ReadField(p, want) PROVE Steps(p)
    <3>1. Others(p) /\ stage'[p] \in {"count", "field"}
          BY <2>0, <2>1 DEF ReadField, Goto, Others
    <3>2. Reads(p)
          BY <2>0, <2>1, <3>1 DEF ReadField, Reads, Committed, Locks
    <3> QED BY <3>1, <3>2 DEF Steps
  <2>2. CASE CountDuplicates(p)
        BY <1>2, <1>3, <2>0, <2>2 DEF CountDuplicates, Stages, Steps, Moves
  <2>3. CASE LockField(p)
    <3>1. Others(p) /\ Intent(p)
          BY <2>0, <2>3 DEF LockField, Goto, private, Others, Intent
    <3>2. LocksField(p)
          BY <2>0, <2>3, <3>1 DEF LockField, Goto, private, LocksField, Committed, Switches
    <3> QED BY <3>1, <3>2 DEF Steps
  <2>4. CASE ClearField(p)
        BY <1>4, <2>0, <2>4 DEF ClearField, Stages, Steps, Begins
  <2>5. CASE ScanField(p)
    <3> DEFINE s == IF Stored = {} THEN "commit" ELSE "insert"
    <3>1. s \in Stages /\ Begin(p, Stored, s) /\ stage[p] = "scan"
          BY <2>5 DEF ScanField, Stages
    <3> QED BY <1>4, <2>0, <3>1 DEF Steps, Begins
  <2>6. CASE ReferToEntries(p)
        BY <1>2, <1>3, <2>0, <2>6 DEF ReferToEntries, Stages, Steps, Moves
  <2>7. CASE CommitField(p)
    <3>1. Others(p) /\ Ends(p)
          BY <1>1, <2>0, <2>7 DEF CommitField
    <3> QED BY <2>7, <3>1 DEF CommitField, Steps, CommitsField
  <2> QED BY <1>6, <2>1, <2>2, <2>3, <2>4, <2>5, <2>6, <2>7 DEF PatcherStep
<1>7. ASSUME NEW r \in Requests, NEW row \in Reservations, InsertRow(r, row) PROVE Steps(r)
  <2>1. CASE Rollback(r)
        BY <1>2, <2>1
  <2>2. ASSUME ~Rollback(r) PROVE Steps(r)
    <3>1. Others(r) /\ Intent(r)
          BY <1>7, <2>2 DEF InsertRow, Goto, Others, Intent
    <3>2. /\ todo'[r] = todo[r] \ {row} /\ added'[r] = added[r] \cup {row}
          /\ stage'[r] = IF todo[r] = {row} THEN "refer" ELSE "insert"
          /\ ~Taken(r, row[2]) /\ Committed /\ Locks /\ removed'[r] = removed[r]
          BY <1>7, <2>2 DEF InsertRow, Goto, Committed, Locks
    <3>3. Inserts(r)
          BY <1>7, <3>1, <3>2 DEF InsertRow, Inserts
    <3> QED BY <3>1, <3>3 DEF Steps
  <2> QED BY <2>1, <2>2
<1>8. ASSUME NEW r \in Requests, DeleteRows(r) PROVE Steps(r)
  <2>1. Others(r) /\ Intent(r)
        BY <1>8 DEF DeleteRows, Goto, Others, Intent
  <2>2. Deletes(r)
        BY <1>8, <2>1 DEF DeleteRows, Goto, Deletes, Committed, Locks
  <2> QED BY <2>1, <2>2 DEF Steps
<1>9. Writers \subseteq Requests /\ Patchers \subseteq Requests
      BY DEF Requests
<1> QED BY <1>2, <1>5, <1>6, <1>7, <1>8, <1>9 DEF Next, AbortDeadlocked, Fail

-----------------------------------------------------------------------------
(* A statement in the middle of a transaction leaves its locks as they are. *)
Advances(r) == Reads(r) \/ Moves(r) \/ Begins(r) \/ Deletes(r) \/ Inserts(r)

LEMMA Middle ==
  ASSUME LockInv, NEW r \in Requests, Advances(r)
  PROVE  /\ Committed /\ Locks
         /\ r \in Writers => /\ stage[r] # "idle" /\ stage'[r] \in WriterStages \ {"idle"}
                             /\ Intent(r)
         /\ r \in Patchers => /\ stage'[r] \in PatcherStages
                              /\ stage[r] \in Holding <=> stage'[r] \in Holding
<1> USE Roles
<1>1. r \in Writers => stage[r] \in WriterStages
      BY DEF LockInv
<1>2. r \in Patchers => stage[r] \in PatcherStages
      BY DEF LockInv
<1>3. CASE Reads(r)
      BY <1>3, <1>2 DEF Reads, PatcherStages, Holding
<1>4. CASE Moves(r)
      BY <1>4, <1>1, <1>2 DEF Moves, WriterStages, PatcherStages, Holding
<1>5. CASE Begins(r)
      BY <1>5, <1>1, <1>2 DEF Begins, WriterStages, PatcherStages, Holding
<1>6. CASE Deletes(r)
      BY <1>6, <1>1, <1>2 DEF Deletes, AfterDelete, WriterStages, PatcherStages, Holding
<1>7. CASE Inserts(r)
      BY <1>7, <1>1, <1>2 DEF Inserts, WriterStages, PatcherStages, Holding
<1> QED BY <1>3, <1>4, <1>5, <1>6, <1>7 DEF Advances

LEMMA LockStep ==
  ASSUME TypeOK, LockInv, NEW r \in Requests, Steps(r)
  PROVE  LockInv'
<1> USE Roles DEF Requests
<1>0. /\ Others(r) /\ Nobody \notin Requests
      /\ rowLock \in [Entries -> Writers \cup {Nobody}]
      /\ fieldLock \in Patchers \cup {Nobody} /\ torn \subseteq Writers
      BY UniqueAssumption DEF Steps, TypeOK
<1>1. CASE Ends(r)
      BY <1>0, <1>1 DEF LockInv, Ends, Others, WriterStages, PatcherStages, Holding
<1>2. CASE Starts(r)
  <2>1. r \in Writers /\ stage[r] = "idle" /\ stage'[r] \in {"check", "release"}
        BY <1>2 DEF Starts
  <2>2. PICK e \in Entries :
          /\ rowLock[e] = Nobody
          /\ \A f \in Entries : rowLock'[f] = IF f = e THEN r ELSE rowLock[f]
          /\ target'[r] = e
        BY <1>2 DEF Starts
  <2>3. \A w \in Writers, f \in Entries :
          rowLock'[f] = w <=> (stage'[w] # "idle" /\ target'[w] = f)
        BY <1>0, <2>1, <2>2 DEF LockInv, Others
  <2>4. fieldLock' # Nobody => \A w \in Writers : stage'[w] # "idle" => w \in torn'
        BY <1>0, <1>2, <2>1 DEF LockInv, Others, Starts
  <2>5. \A w \in torn' : stage'[w] # "idle"
        BY <1>0, <1>2, <2>1 DEF LockInv, Others, Starts
  <2>6. \A w \in Writers : stage'[w] # "idle" => target'[w] \in Entries
        BY <1>0, <2>1, <2>2 DEF LockInv, Others
  <2>7. \A w \in Writers : stage'[w] # "idle" /\ ~Live(draft'[w]) => draft'[w] = Deleted
        BY <1>0, <1>2, <2>1 DEF LockInv, Others, Starts
  <2>8. \A p \in Patchers : stage'[p] \in PatcherStages /\ (fieldLock' = p <=> stage'[p] \in Holding)
        BY <1>0, <1>2, <2>1 DEF LockInv, Others, Starts
  <2>9. \A w \in Writers : stage'[w] \in WriterStages
        BY <1>0, <2>1 DEF LockInv, Others, WriterStages
  <2> QED BY <2>3, <2>4, <2>5, <2>6, <2>7, <2>8, <2>9 DEF LockInv, Live, Deleted
<1>3. CASE LocksField(r)
  <2>1. \A w \in Writers : /\ stage'[w] = stage[w] /\ target'[w] = target[w]
                           /\ draft'[w] = draft[w]
        BY <1>0, <1>3 DEF Others, LocksField
  <2>2. \A p \in Patchers : stage'[p] \in PatcherStages /\ (fieldLock' = p <=> stage'[p] \in Holding)
        BY <1>0, <1>3 DEF LockInv, Others, LocksField, PatcherStages, Holding
  <2> QED BY <1>0, <1>3, <2>1, <2>2 DEF LockInv, LocksField, Live, Deleted
<1>4. CASE Advances(r)
  <2>1. /\ rowLock' = rowLock /\ fieldLock' = fieldLock /\ torn' = torn
        /\ r \in Writers => /\ stage[r] # "idle" /\ stage'[r] \in WriterStages \ {"idle"}
                            /\ target'[r] = target[r] /\ draft'[r] = draft[r]
        /\ r \in Patchers => /\ stage'[r] \in PatcherStages
                             /\ stage[r] \in Holding <=> stage'[r] \in Holding
        BY <1>4, Middle DEF Locks, Intent
  <2>2. \A w \in Writers : /\ stage'[w] # "idle" <=> stage[w] # "idle"
                           /\ stage'[w] \in WriterStages
                           /\ target'[w] = target[w] /\ draft'[w] = draft[w]
        BY <1>0, <2>1 DEF LockInv, Others
  <2>3. \A p \in Patchers : /\ stage'[p] \in PatcherStages
                            /\ stage'[p] \in Holding <=> stage[p] \in Holding
        BY <1>0, <2>1 DEF LockInv, Others
  <2> QED BY <1>0, <2>1, <2>2, <2>3 DEF LockInv, Live, Deleted
<1> QED BY <1>1, <1>2, <1>3, <1>4 DEF Steps, Aborts, CommitsEntry, CommitsField, Advances

(* The rows a transaction can have follow its stage.                       *)
LEMMA PrivateStep ==
  ASSUME TypeOK, LockInv, PrivateInv, NEW r \in Requests, Steps(r)
  PROVE  PrivateInv'
<1> USE Roles DEF PrivateInv
<1>0. Others(r)
      BY DEF Steps
<1>1. ASSUME NEW s \in Requests \ {r}
      PROVE  /\ stage'[s] = stage[s] /\ todo'[s] = todo[s]
             /\ added'[s] = added[s] /\ removed'[s] = removed[s]
             /\ s \in Writers => target'[s] = target[s]
      BY <1>0 DEF Others
<1> DEFINE Good(s) ==
      /\ stage'[s] \notin {"delete", "insert"} => todo'[s] = {}
      /\ stage'[s] \notin {"insert", "refer", "commit"} => added'[s] = {}
      /\ stage'[s] \notin {"reserve", "scan", "insert", "refer", "commit"} => removed'[s] = {}
      /\ s \in Writers =>
           \A row \in todo'[s] \cup added'[s] \cup removed'[s] : row[1] = target'[s]
<1>2. \A s \in Requests \ {r} : Good(s)
      BY <1>1
<1>3. Good(r)
  <2>1. CASE Ends(r)
        BY <2>1 DEF Ends
  <2>2. CASE Starts(r)
        BY <2>2 DEF Starts
  <2>3. CASE Reads(r)
        BY <2>3 DEF Reads
  <2>4. CASE LocksField(r)
        BY <2>4 DEF LocksField
  <2>5. CASE Moves(r)
        BY <2>5 DEF Moves, Intent
  <2>6. CASE Begins(r)
    <3>1. ASSUME r \in Writers
          PROVE \A row \in OwnRows(r) \cup Reservable(r) : row[1] = target[r]
          BY DEF OwnRows, Reservable, RowsOf
    <3> QED BY <2>6, <3>1 DEF Begins, Intent
  <2>7. CASE Deletes(r)
        BY <2>7 DEF Deletes, Intent, AfterDelete
  <2>8. CASE Inserts(r)
    <3>1. PICK row \in todo[r] :
            /\ todo'[r] = todo[r] \ {row} /\ added'[r] = added[r] \cup {row}
            /\ stage'[r] = IF todo[r] = {row} THEN "refer" ELSE "insert"
          BY <2>8 DEF Inserts
    <3> QED BY <2>8, <3>1 DEF Inserts, Intent
  <2> QED BY <2>1, <2>2, <2>3, <2>4, <2>5, <2>6, <2>7, <2>8
          DEF Steps, Aborts, CommitsEntry, CommitsField
<1> QED BY <1>2, <1>3

-----------------------------------------------------------------------------
(* A write that no PATCH overlaps finds its own reservations and the flag  *)
(* as it left them, whatever the others do.                                *)
LEMMA OwnRowsKept ==
  ASSUME TypeOK, LockInv, PrivateInv, NEW r \in Requests, Steps(r),
         NEW w \in Writers, w # r, stage[w] # "idle", w \notin torn'
  PROVE  /\ w \notin torn /\ unique' = unique
         /\ OwnRows(w)' = OwnRows(w) /\ Reservable(w)' = Reservable(w)
<1> USE Roles
<1>0. Others(r) /\ target[w] \in Entries /\ w \in Requests
      BY DEF Steps, LockInv, Requests
<1>1. w \notin torn
      BY DEF Steps, Aborts, CommitsEntry, CommitsField, Ends, Starts, LocksField,
             Reads, Moves, Begins, Deletes, Inserts, Locks
<1>2. target'[w] = target[w] /\ draft'[w] = draft[w]
      BY <1>0 DEF Others
<1>3. ~CommitsField(r)
  <2>1. SUFFICES ASSUME CommitsField(r) PROVE FALSE
        OBVIOUS
  <2>2. fieldLock = r /\ r # Nobody
        BY <2>1, UniqueAssumption DEF CommitsField, LockInv, Holding
  <2> QED BY <1>1, <2>2 DEF LockInv
<1>4. unique' = unique
      BY <1>3 DEF Steps, Aborts, CommitsEntry, Starts, LocksField,
                  Reads, Moves, Begins, Deletes, Inserts, Committed
<1>5. \A v \in Values : <<target[w], v>> \in ledger' <=> <<target[w], v>> \in ledger
  <2>1. CASE CommitsEntry(r)
    <3>1. rowLock[target[w]] = w /\ (target[r] = target[w] => rowLock[target[w]] = r)
          BY <1>0, <2>1 DEF LockInv, CommitsEntry
    <3>2. \A row \in added[r] \cup removed[r] : row[1] # target[w]
          BY <2>1, <3>1 DEF PrivateInv, CommitsEntry
    <3> QED BY <2>1, <3>2 DEF CommitsEntry, Settled
  <2>2. ASSUME ~CommitsEntry(r) PROVE ledger' = ledger
        BY <1>3, <2>2 DEF Steps, Aborts, Starts, LocksField,
                    Reads, Moves, Begins, Deletes, Inserts, Committed
  <2> QED BY <2>1, <2>2
<1>6. LedgerOf(target[w])' = LedgerOf(target[w])
      BY <1>2, <1>5 DEF LedgerOf
<1> QED BY <1>1, <1>2, <1>4, <1>6 DEF OwnRows, Reservable

LEMMA WriteStep ==
  ASSUME TypeOK, LockInv, PrivateInv, WriteInv, NEW r \in Requests, Steps(r)
  PROVE  WriteInv'
<1> USE Roles DEF Requests
<1>0. Others(r)
      BY DEF Steps
<1> DEFINE Good(w) ==
      /\ stage[w] = "delete" => todo[w] = OwnRows(w)
      /\ stage[w] \in {"reserve", "insert", "refer", "commit"} => removed[w] = OwnRows(w)
      /\ stage[w] \in {"insert", "refer"} =>
           unique /\ added[w] \cup todo[w] = RowsOf(target[w], Held(draft[w]))
      /\ stage[w] = "commit" => added[w] = Reservable(w)
<1>1. \A w \in Writers \ torn : Good(w)
      BY DEF WriteInv
<1>2. ASSUME NEW w \in Writers \ torn', w # r, stage[w] # "idle"
      PROVE  Good(w)'
  <2>1. /\ w \notin torn /\ unique' = unique
        /\ OwnRows(w)' = OwnRows(w) /\ Reservable(w)' = Reservable(w)
        BY <1>2, OwnRowsKept
  <2>2. /\ stage'[w] = stage[w] /\ todo'[w] = todo[w]
        /\ added'[w] = added[w] /\ removed'[w] = removed[w]
        /\ target'[w] = target[w] /\ draft'[w] = draft[w]
        BY <1>0, <1>2 DEF Others
  <2> QED BY <1>1, <2>1, <2>2
<1>3. ASSUME NEW w \in Writers, w # r, stage[w] = "idle" PROVE Good(w)'
  <2>1. stage'[w] = "idle"
        BY <1>0, <1>3 DEF Others
  <2> QED BY <2>1
<1>4. ASSUME r \in Writers, r \notin torn' PROVE Good(r)'
  <2> USE <1>4
  <2>1. CASE Ends(r)
        BY <2>1 DEF Ends
  <2>2. CASE Starts(r)
        BY <2>2 DEF Starts
  <2>3. ASSUME Committed, Locks, Intent(r)
        PROVE  /\ Good(r) /\ unique' = unique /\ ledger' = ledger
               /\ target'[r] = target[r] /\ draft'[r] = draft[r]
               /\ OwnRows(r)' = OwnRows(r) /\ Reservable(r)' = Reservable(r)
        BY <1>1, <2>3 DEF Committed, Locks, Intent, OwnRows, Reservable, LedgerOf
  <2>4. CASE Moves(r)
    <3>1. stage[r] = "refer" => todo[r] = {}
          BY DEF PrivateInv
    <3> QED BY <2>3, <2>4, <3>1 DEF Moves, Reservable
  <2>5. CASE Begins(r)
    <3>1. stage[r] = "reserve" => added[r] = {}
          BY DEF PrivateInv
    <3> QED BY <2>3, <2>5, <3>1 DEF Begins, Reservable
  <2>6. CASE Deletes(r)
    <3>1. OwnRows(r) \subseteq ledger
          BY DEF OwnRows, RowsOf, LedgerOf
    <3>2. added[r] = {}
          BY <2>6 DEF PrivateInv, Deletes
    <3>3. ~Live(draft[r]) => Reservable(r) = {}
          BY <2>6 DEF LockInv, Deletes, Reservable, Held, Deleted, RowsOf
    <3> QED BY <2>3, <2>6, <3>1, <3>2, <3>3 DEF Deletes, AfterDelete
  <2>7. CASE Inserts(r)
        BY <2>3, <2>7 DEF Inserts
  <2> QED BY <2>1, <2>2, <2>4, <2>5, <2>6, <2>7
          DEF Steps, Aborts, CommitsEntry, CommitsField, Reads, LocksField
<1>5. \A w \in Writers \ torn' : Good(w)'
      BY <1>2, <1>3, <1>4
<1> QED BY <1>5 DEF WriteInv

(* The ledger changes by commits alone.  A commit of an entry leaves the   *)
(* entry's own values; that of a PATCH, every value or none.               *)
LEMMA DerivedStep ==
  ASSUME TypeOK, LockInv, PrivateInv, WriteInv, PatchInv, LedgerDerived,
         NEW r \in Requests, Steps(r)
  PROVE  LedgerDerived'
<1> USE Roles
<1>1. CASE CommitsEntry(r)
  <2>1. target[r] \in Entries
        BY <1>1 DEF LockInv, CommitsEntry
  <2>2. \A row \in added[r] \cup removed[r] : row[1] = target[r]
        BY <1>1 DEF PrivateInv, CommitsEntry
  <2>3. ASSUME NEW e \in Entries \ crossed', e # target[r]
        PROVE  /\ e \notin crossed /\ doc'[e] = doc[e]
               /\ {v \in Values : <<e, v>> \in ledger'} = {v \in Values : <<e, v>> \in ledger}
        BY <1>1, <2>1, <2>2, <2>3 DEF CommitsEntry, Settled, LedgerOf
  <2>4. ASSUME target[r] \notin crossed'
        PROVE  {v \in Values : <<target[r], v>> \in ledger'}
                 = IF unique' THEN Held(doc'[target[r]]) ELSE {}
    <3>1. r \notin torn
          BY <1>1, <2>4 DEF CommitsEntry
    <3>2. added[r] = Reservable(r) /\ removed[r] = OwnRows(r)
          BY <1>1, <3>1 DEF WriteInv, CommitsEntry
    <3>3. Held(draft[r]) \subseteq Values
          BY <1>1 DEF CommitsEntry, TypeOK, Docs, Contents, Held
    <3>4. \A v \in Values : <<target[r], v>> \in ledger' <=> (unique /\ v \in Held(draft[r]))
          BY <1>1, <3>2 DEF CommitsEntry, Settled, Reservable, OwnRows, RowsOf, LedgerOf
    <3>5. doc'[target[r]] = draft[r] /\ unique' = unique
          BY <1>1, <2>1 DEF CommitsEntry
    <3>6. \A v \in Values : <<target[r], v>> \in ledger'
                               <=> v \in (IF unique' THEN Held(doc'[target[r]]) ELSE {})
          BY <3>4, <3>5
    <3> QED BY <3>3, <3>5, <3>6
  <2>5. \A e \in Entries \ crossed' :
          {v \in Values : <<e, v>> \in ledger'} = IF unique' THEN Held(doc'[e]) ELSE {}
    <3>1. SUFFICES ASSUME NEW e \in Entries \ crossed', e # target[r]
                   PROVE  {v \in Values : <<e, v>> \in ledger'} = IF unique' THEN Held(doc'[e]) ELSE {}
          BY <2>4
    <3>2. {v \in Values : <<e, v>> \in ledger} = IF unique THEN Held(doc[e]) ELSE {}
          BY <2>3, <3>1 DEF LedgerDerived, LedgerOf
    <3> QED BY <1>1, <2>3, <3>1, <3>2 DEF CommitsEntry
  <2> QED BY <2>5 DEF LedgerDerived, LedgerOf, Held
<1>2. CASE CommitsField(r)
  <2>1. /\ unique' = wants[r] /\ doc' = doc /\ crossed' = crossed
        /\ ledger' = (ledger \ removed[r]) \cup added[r]
        BY <1>2 DEF CommitsField, Settled
  <2>2. CASE wants[r] = unique
        BY <1>2, <2>1, <2>2 DEF CommitsField, PatchInv, LedgerDerived, LedgerOf
  <2>3. CASE wants[r] # unique
    <3>1. \A row \in ledger : row[1] \in crossed \/ row \in removed[r]
          BY <1>2, <2>3 DEF CommitsField, PatchInv, AboutToSwitch
    <3>2. ASSUME NEW e \in Entries \ crossed, NEW v \in Values
          PROVE  <<e, v>> \in ledger' <=> <<e, v>> \in added[r]
          BY <2>1, <3>1
    <3>3. CASE wants[r]
      <4>1. todo[r] = {}
            BY <1>2 DEF PrivateInv, CommitsField
      <4>2. \A e \in Entries \ crossed : {v \in Values : <<e, v>> \in added[r]} = Held(doc[e])
            BY <1>2, <2>3, <3>3, <4>1 DEF CommitsField, PatchInv, AboutToSwitch
      <4> QED BY <2>1, <3>2, <3>3, <4>2 DEF LedgerDerived, LedgerOf
    <3>4. CASE ~wants[r]
      <4>1. added[r] = {}
            BY <1>2, <3>4 DEF CommitsField, PatchInv
      <4> QED BY <2>1, <3>2, <3>4, <4>1 DEF LedgerDerived, LedgerOf
    <3> QED BY <3>3, <3>4
  <2> QED BY <2>2, <2>3
<1>3. CASE Committed
      BY <1>3 DEF Committed, LedgerDerived, LedgerOf
<1> QED BY <1>1, <1>2, <1>3 DEF Steps, Aborts, Starts, Reads, LocksField, Moves,
                                Begins, Deletes, Inserts

-----------------------------------------------------------------------------
(* While a PATCH holds the field, every entry that changes is crossed.     *)
LEMMA FieldKept ==
  ASSUME TypeOK, LockInv, PrivateInv, NEW r \in Requests, Steps(r),
         NEW p \in Patchers, p # r, stage[p] \in Holding
  PROVE  /\ unique' = unique /\ crossed \subseteq crossed'
         /\ \A row \in ledger' : row \in ledger \/ row[1] \in crossed'
         /\ \A e \in Entries \ crossed' : doc'[e] = doc[e]
<1> USE Roles
<1>1. fieldLock = p /\ p # Nobody
      BY UniqueAssumption DEF LockInv
<1>2. ~CommitsField(r)
      BY <1>1 DEF CommitsField, LockInv, Holding
<1>3. CASE CommitsEntry(r)
  <2>1. r \in torn /\ target[r] \in Entries
        BY <1>1, <1>3 DEF CommitsEntry, LockInv
  <2>2. \A row \in added[r] : row[1] = target[r]
        BY <1>3 DEF PrivateInv, CommitsEntry
  <2> QED BY <1>3, <2>1, <2>2 DEF CommitsEntry, Settled
<1>4. ASSUME ~CommitsEntry(r) PROVE Committed
      BY <1>2, <1>4 DEF Steps, Aborts, Starts, LocksField, Reads, Moves, Begins,
                        Deletes, Inserts
<1> QED BY <1>3, <1>4 DEF Committed

LEMMA PatchStep ==
  ASSUME TypeOK, LockInv, PrivateInv, PatchInv, NEW r \in Requests, Steps(r)
  PROVE  PatchInv'
<1> USE Roles DEF Requests
<1>0. Others(r)
      BY DEF Steps
<1> DEFINE Good(p) ==
      /\ stage[p] \in Holding \ {"commit"} => wants[p] # unique
      /\ stage[p] \in {"scan", "insert", "refer"} => wants[p]
      /\ stage[p] = "delete" => \A row \in ledger : row[1] \in crossed \/ row \in todo[p]
      /\ stage[p] \in {"scan", "insert", "refer"} \/ AboutToSwitch(p) =>
           \A row \in ledger : row[1] \in crossed \/ row \in removed[p]
      /\ stage[p] \in {"insert", "refer"} \/ (AboutToSwitch(p) /\ wants[p]) =>
           \A e \in Entries \ crossed :
             {v \in Values : <<e, v>> \in added[p] \cup todo[p]} = Held(doc[e])
      /\ stage[p] = "commit" /\ ~wants[p] => added[p] = {}
      /\ stage[p] = "commit" /\ wants[p] = unique => added[p] = {} /\ removed[p] = {}
<1>1. \A p \in Patchers : Good(p)
      BY DEF PatchInv
<1>2. ASSUME NEW p \in Patchers, stage'[p] \notin Holding PROVE Good(p)'
      BY <1>2 DEF Holding, AboutToSwitch
<1>3. ASSUME NEW p \in Patchers, p # r, stage[p] \in Holding PROVE Good(p)'
  <2>1. /\ unique' = unique /\ crossed \subseteq crossed'
        /\ \A row \in ledger' : row \in ledger \/ row[1] \in crossed'
        /\ \A e \in Entries \ crossed' : doc'[e] = doc[e]
        BY <1>3, FieldKept
  <2>2. /\ stage'[p] = stage[p] /\ todo'[p] = todo[p]
        /\ added'[p] = added[p] /\ removed'[p] = removed[p] /\ wants'[p] = wants[p]
        BY <1>0, <1>3 DEF Others
  <2>3. AboutToSwitch(p)' = AboutToSwitch(p)
        BY <2>1, <2>2 DEF AboutToSwitch
  <2>4. \A e \in Entries \ crossed' : e \notin crossed /\ Held(doc'[e]) = Held(doc[e])
        BY <2>1
  <2>5. Good(p)
        BY <1>1
  <2>6. /\ stage'[p] \in Holding \ {"commit"} => wants'[p] # unique'
        /\ stage'[p] \in {"scan", "insert", "refer"} => wants'[p]
        /\ stage'[p] = "commit" /\ ~wants'[p] => added'[p] = {}
        /\ stage'[p] = "commit" /\ wants'[p] = unique' => added'[p] = {} /\ removed'[p] = {}
        BY <2>1, <2>2, <2>5
  <2>7. stage'[p] = "delete" => \A row \in ledger' : row[1] \in crossed' \/ row \in todo'[p]
        BY <2>1, <2>2, <2>5
  <2>8. stage'[p] \in {"scan", "insert", "refer"} \/ AboutToSwitch(p)' =>
           \A row \in ledger' : row[1] \in crossed' \/ row \in removed'[p]
        BY <2>1, <2>2, <2>3, <2>5
  <2>9. stage'[p] \in {"insert", "refer"} \/ (AboutToSwitch(p)' /\ wants'[p]) =>
           \A e \in Entries \ crossed' :
             {v \in Values : <<e, v>> \in added'[p] \cup todo'[p]} = Held(doc'[e])
        BY <2>2, <2>3, <2>4, <2>5
  <2> QED BY <2>6, <2>7, <2>8, <2>9 DEF Held
<1>4. ASSUME r \in Patchers, stage'[r] \in Holding PROVE Good(r)'
  <2> USE <1>4
  <2>1. CASE LocksField(r)
    <3>1. added[r] = {} /\ removed[r] = {}
          BY <2>1 DEF PrivateInv, LocksField
    <3> QED BY <2>1, <3>1 DEF LocksField, Intent, Committed, AboutToSwitch
  <2>2. ASSUME Committed, Intent(r)
        PROVE  /\ unique' = unique /\ ledger' = ledger /\ doc' = doc /\ crossed' = crossed
               /\ wants'[r] = wants[r] /\ Good(r)
        BY <1>1, <2>2 DEF Committed, Intent
  <2>3. CASE Moves(r)
    <3>1. stage[r] = "refer" /\ stage'[r] = "commit"
          BY <2>3 DEF Moves, Holding
    <3>2. AboutToSwitch(r)'
          BY <2>2, <2>3, <3>1 DEF Moves, AboutToSwitch, Holding
    <3>3. /\ todo'[r] = todo[r] /\ added'[r] = added[r] /\ removed'[r] = removed[r]
          BY <2>3 DEF Moves
    <3> QED BY <2>2, <2>3, <3>1, <3>2, <3>3 DEF Moves, Holding, Held
  <2>4. CASE Begins(r)
    <3>1. CASE stage[r] = "clear"
          BY <2>2, <2>4, <3>1 DEF Begins, Holding, AboutToSwitch
    <3>2. CASE stage[r] = "scan"
      <4>1. \A e \in Entries : Held(doc[e]) \subseteq Values
            BY DEF TypeOK, Docs, Contents, Held
      <4>2. ASSUME NEW e \in Entries, NEW v
            PROVE  <<e, v>> \in Stored <=> v \in Held(doc[e])
            BY DEF Stored, RowsOf
      <4>3. \A e \in Entries : {v \in Values : <<e, v>> \in Stored} = Held(doc[e])
            BY <4>1, <4>2
      <4>4. added[r] = {}
            BY <3>2 DEF PrivateInv
      <4>5. /\ todo'[r] = Stored /\ added'[r] = {} /\ removed'[r] = removed[r]
            /\ stage'[r] \in {"insert", "commit"} /\ Committed /\ Intent(r)
            BY <2>4, <3>2, <4>4 DEF Begins
      <4>6. /\ wants[r] /\ wants[r] # unique
            /\ \A row \in ledger : row[1] \in crossed \/ row \in removed[r]
            BY <2>2, <3>2, <4>5 DEF Holding
      <4>7. \A e \in Entries \ crossed' :
              {v \in Values : <<e, v>> \in added'[r] \cup todo'[r]} = Held(doc'[e])
            BY <2>2, <4>3, <4>5
      <4> QED BY <2>2, <4>5, <4>6, <4>7 DEF Held
    <3> QED BY <2>4, <3>1, <3>2 DEF Begins
  <2>5. CASE Deletes(r)
    <3>1. added[r] = {}
          BY <2>5 DEF PrivateInv, Deletes
    <3> QED BY <2>2, <2>5, <3>1 DEF Deletes, AfterDelete, Holding, AboutToSwitch
  <2>6. CASE Inserts(r)
    <3>1. added'[r] \cup todo'[r] = added[r] \cup todo[r]
          BY <2>6 DEF Inserts
    <3>2. /\ stage[r] = "insert" /\ stage'[r] \in {"insert", "refer"}
          /\ removed'[r] = removed[r] /\ Committed /\ Intent(r)
          BY <2>6 DEF Inserts
    <3>3. ~AboutToSwitch(r)'
          BY <3>2 DEF AboutToSwitch
    <3>4. \A e \in Entries \ crossed' :
            {v \in Values : <<e, v>> \in added'[r] \cup todo'[r]} = Held(doc'[e])
          BY <2>2, <3>1, <3>2
    <3> QED BY <2>2, <3>2, <3>3, <3>4 DEF Holding, Held
  <2> QED BY <2>1, <2>3, <2>4, <2>5, <2>6
          DEF Steps, Aborts, CommitsEntry, CommitsField, Ends, Starts, Reads, Holding
<1>5. \A p \in Patchers : p # r => stage'[p] = stage[p]
      BY <1>0 DEF Others
<1>6. \A p \in Patchers : Good(p)'
      BY <1>2, <1>3, <1>4, <1>5
<1> QED BY <1>6 DEF PatchInv

-----------------------------------------------------------------------------
(* Whether a row may be added is decided against every row that is in the  *)
(* ledger or may yet come back or be committed; a row may be removed only  *)
(* when no other transaction is removing it.                               *)
LEMMA KeyStep ==
  ASSUME PrivateInv, KeyInv, NEW r \in Requests, Steps(r)
  PROVE  KeyInv'
<1>0. Others(r)
      BY DEF Steps
<1>1. CASE Ends(r)
  <2>1. /\ added'[r] = {} /\ removed'[r] = {}
        /\ \A s \in Requests \ {r} : added'[s] = added[s] /\ removed'[s] = removed[s]
        BY <1>0, <1>1 DEF Ends, Others
  <2>2. \A s, t \in Requests : s # t =>
          \A x \in added'[s] : \A y \in added'[t] \cup removed'[t] : x[2] # y[2]
        BY <2>1 DEF KeyInv
  <2>3. \A s \in Requests : \A x, y \in added'[s] : x[2] = y[2] => x = y
        BY <2>1 DEF KeyInv
  <2>4. CASE ledger' = ledger
        BY <2>1, <2>2, <2>3, <2>4 DEF KeyInv
  <2>5. CASE ledger' = (ledger \ removed[r]) \cup added[r]
    <3>1. \A x, y \in ledger' : x[2] = y[2] => x = y
          BY <2>5 DEF KeyInv
    <3>2. ASSUME NEW s \in Requests \ {r}, NEW x \in added[s], NEW y \in ledger' \ removed[s]
          PROVE  x[2] # y[2]
          BY <2>5, <3>2 DEF KeyInv
    <3> QED BY <2>1, <2>2, <2>3, <3>1, <3>2 DEF KeyInv
  <2> QED BY <1>1, <2>4, <2>5
          DEF Steps, Aborts, CommitsEntry, CommitsField, Settled, Starts, Reads,
              LocksField, Moves, Begins, Deletes, Inserts, Committed
<1>2. ASSUME ledger' = ledger, added'[r] = added[r], removed'[r] = removed[r] PROVE KeyInv'
  <2>1. \A s \in Requests : added'[s] = added[s] /\ removed'[s] = removed[s]
        BY <1>0, <1>2 DEF Others
  <2> QED BY <1>2, <2>1 DEF KeyInv
<1>3. CASE Deletes(r)
  <2>1. /\ removed[r] = {} /\ added[r] = {} /\ added'[r] = {} /\ ledger' = ledger
        /\ removed'[r] = todo[r] \cap ledger
        /\ \A s \in Requests \ {r} : removed[s] \cap todo[r] = {}
        BY <1>3 DEF Deletes, PrivateInv, Removers, Committed
  <2>2. \A s \in Requests \ {r} : added'[s] = added[s] /\ removed'[s] = removed[s]
        BY <1>0 DEF Others
  <2>3. ASSUME NEW s \in Requests \ {r}, NEW x \in added[s], NEW y \in removed'[r]
        PROVE  x[2] # y[2]
    <3>1. y \in ledger \ removed[s]
          BY <2>1, <2>3
    <3> QED BY <3>1 DEF KeyInv
  <2> QED BY <2>1, <2>2, <2>3 DEF KeyInv
<1>4. CASE Inserts(r)
  <2>1. PICK row \in todo[r] :
          /\ Rivals(r, row[2]) = {} /\ ~Taken(r, row[2])
          /\ added'[r] = added[r] \cup {row}
        BY <1>4 DEF Inserts
  <2>2. ledger' = ledger /\ removed'[r] = removed[r]
        BY <1>4 DEF Inserts, Committed
  <2>3. \A s \in Requests \ {r} : added'[s] = added[s] /\ removed'[s] = removed[s]
        BY <1>0 DEF Others
  <2>4. \A s \in Requests \ {r} : \A x \in added[s] \cup removed[s] : x[2] # row[2]
        BY <2>1 DEF Rivals
  <2>5. \A x \in (ledger \ removed[r]) \cup added[r] : x[2] # row[2]
        BY <2>1 DEF Taken
  <2>6. \A s \in Requests : \A x, y \in added'[s] : x[2] = y[2] => x = y
        BY <2>1, <2>3, <2>5 DEF KeyInv
  <2>7. \A s \in Requests : \A x \in added'[s] : \A y \in ledger' \ removed'[s] : x[2] # y[2]
        BY <2>1, <2>2, <2>3, <2>5 DEF KeyInv
  <2>8. \A s, t \in Requests : s # t =>
          \A x \in added'[s] : \A y \in added'[t] \cup removed'[t] : x[2] # y[2]
        BY <2>1, <2>2, <2>3, <2>4 DEF KeyInv
  <2> QED BY <2>2, <2>6, <2>7, <2>8 DEF KeyInv
<1> QED BY <1>1, <1>2, <1>3, <1>4
        DEF Steps, Aborts, CommitsEntry, CommitsField, Starts, Reads, LocksField,
            Moves, Begins, Committed

-----------------------------------------------------------------------------
LEMMA InitInv == Init => Inv
<1> SUFFICES ASSUME Init PROVE Inv
    OBVIOUS
<1> USE Roles DEF Init
<1>1. TypeOK
      BY DEF TypeOK, Docs, Unborn, Contents, Stages, Reservations
<1>2. LockInv
      BY UniqueAssumption DEF LockInv, Requests, WriterStages, PatcherStages, Holding
<1>3. PrivateInv /\ WriteInv /\ KeyInv
      BY DEF PrivateInv, WriteInv, KeyInv, Requests
<1>4. LedgerDerived
      BY DEF LedgerDerived, LedgerOf, Held, Unborn
<1>5. PatchInv
      BY DEF PatchInv, AboutToSwitch, Holding, Requests
<1> QED BY <1>1, <1>2, <1>3, <1>4, <1>5 DEF Inv

LEMMA InvStep == Inv /\ [Next]_vars => Inv'
<1> SUFFICES ASSUME Inv, [Next]_vars PROVE Inv'
    OBVIOUS
<1> USE DEF Inv
<1>1. TypeOK'
      BY Types DEF LockInv
<1>2. ASSUME NEW r \in Requests, Steps(r) PROVE Inv'
      BY <1>1, <1>2, LockStep, PrivateStep, WriteStep, DerivedStep, PatchStep, KeyStep
<1>3. CASE UNCHANGED vars
  <2>1. /\ LockInv' /\ PrivateInv' /\ KeyInv'
        BY <1>3 DEF vars, private, LockInv, PrivateInv, KeyInv, Live, Deleted
  <2>2. WriteInv' /\ LedgerDerived'
        BY <1>3 DEF vars, private, WriteInv, LedgerDerived, LedgerOf, OwnRows, RowsOf,
                    Reservable, Held
  <2>3. PatchInv'
        BY <1>3 DEF vars, private, PatchInv, AboutToSwitch, Held
  <2> QED BY <1>1, <2>1, <2>2, <2>3
<1> QED BY <1>2, <1>3, Pointwise

(* The inductive invariant: what each transaction holds, has deleted and   *)
(* has added at each of its statements, in refreshEntryUniqueValues and in *)
(* UpdateFieldDefinition.                                                  *)
THEOREM Consistent == Spec => []Inv
BY InitInv, InvStep, PTL DEF Spec

(* Every state of the ledger, the entries and the requests that write them *)
(* or PATCH the field is of its type.                                      *)
THEOREM TypeCorrect == Spec => []TypeOK
<1>1. Inv => TypeOK
      BY DEF Inv
<1> QED BY <1>1, Consistent, PTL

(* refreshEntryUniqueValues keeps entry_unique_values derived: an entry    *)
(* whose last write overlapped no PATCH of the field reserves exactly what *)
(* it holds while the field is unique, and nothing otherwise, for every    *)
(* number of writers, PATCHes, entries and values.                         *)
THEOREM LedgerIsDerived == Spec => []LedgerDerived
<1>1. Inv => LedgerDerived
      BY DEF Inv
<1> QED BY <1>1, Consistent, PTL

(* The primary key of entry_unique_values: no value is reserved twice, not *)
(* even by rows that transactions have yet to commit.                      *)
THEOREM KeyHolds == Spec => []KeyInv
<1>1. Inv => KeyInv
      BY DEF Inv
<1> QED BY <1>1, Consistent, PTL

(* `unique' means what it says: two entries whose last writes overlapped   *)
(* no PATCH of the field never hold a value together, whatever the order   *)
(* of the statements of the writes and of the PATCHes.                     *)
THEOREM UniqueIsUnique == Spec => []ValuesAreUnique
<1>1. ASSUME Inv, unique, NEW e \in Entries \ crossed, NEW f \in Entries \ crossed,
             NEW v \in Held(doc[e]) \cap Held(doc[f])
      PROVE  e = f
  <2>1. /\ {w \in Values : <<e, w>> \in ledger} = Held(doc[e])
        /\ {w \in Values : <<f, w>> \in ledger} = Held(doc[f])
        BY <1>1 DEF Inv, LedgerDerived, LedgerOf
  <2>2. <<e, v>> \in ledger /\ <<f, v>> \in ledger
        BY <2>1
  <2>3. <<e, v>>[2] = <<f, v>>[2]
        OBVIOUS
  <2>4. <<e, v>> = <<f, v>>
        BY <1>1, <2>2, <2>3 DEF Inv, KeyInv
  <2> QED BY <2>4
<1>2. Inv => ValuesAreUnique
  <2> SUFFICES ASSUME Inv, unique, NEW e \in Entries \ crossed, NEW f \in Entries \ crossed, e # f
               PROVE  Held(doc[e]) \cap Held(doc[f]) = {}
      BY DEF ValuesAreUnique
  <2> QED BY <1>1
<1> QED BY <1>2, Consistent, PTL

(* What the runs check of the ledger, for any number of entries, values,    *)
(* writers and PATCHes (postgres_repository.go refreshUniqueValues).        *)
THEOREM LedgerIsSound == Spec => []LedgerSound
BY TypeCorrect, LedgerIsDerived, UniqueIsUnique, PTL DEF LedgerSound

=============================================================================
