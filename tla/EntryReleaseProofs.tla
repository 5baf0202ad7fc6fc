------------------------- MODULE EntryReleaseProofs -------------------------
(***************************************************************************)
(* Proofs about EntryRelease for every number of editors, workers, bodies, *)
(* schedules, requests and faults.                                         *)
(***************************************************************************)
EXTENDS EntryRelease, FiniteSetTheorems, TLAPS

EditorAt(p, labels)  == p \in Editors /\ pc[p] \in labels
SweeperAt(w, labels) == w \in Sweepers /\ pc[w] \in labels

(* Row locks are held where the program stands inside a transaction, and a *)
(* claimed schedule stays pending; a deletion has every schedule in hand.  *)
LockInv ==
  /\ \A p \in Editors : pc[p] \in {"idle", "read", "locked", "mark", "file"}
  /\ \A w \in Sweepers :
       pc[w] \in {"idle", "claimed", "exec", "commit", "failing"} \cup Outcomes
  /\ \A p \in Procs :
       lockE = p <=> EditorAt(p, {"locked", "mark"}) \/ SweeperAt(p, {"commit"})
  /\ \A w \in Sweepers : pc[w] # "idle" => job[w] \in Ids
  /\ \A w \in Sweepers : pc[w] \in {"claimed", "exec", "commit"} =>
       lockS[job[w]] = w /\ sched[job[w]].state = "pending"
  /\ \A p \in Editors : pc[p] = "file" => op[p].kind \in Actions
  /\ \A p \in Editors : pc[p] = "mark" /\ op[p].kind = "delete" =>
       \A i \in Ids : sched[i].state # "unused" => i \in marks[p]

(* A version names one working copy: whoever read it, and whoever approved *)
(* it, at the current version knows the current body.                      *)
SameCopy(row) ==
  /\ row.ver <= entry.ver
  /\ row.ver = entry.ver => row.body = entry.body /\ row.status = entry.status

VersionInv ==
  /\ \A p \in Procs : SameCopy(seen[p])
  /\ \A i \in Ids : sched[i].state = "pending" /\ sched[i].action = "publish" =>
       /\ sched[i].pin <= entry.ver
       /\ sched[i].pin = entry.ver => approved[i] = entry.body

(* What a writer has compared still holds while it has the lock.           *)
FreshInv ==
  /\ \A p \in Procs : lockE = p => entry.live
  /\ \A p \in Editors : pc[p] \in {"locked", "mark"} /\ op[p].kind # "delete" =>
       seen[p].ver = entry.ver
  /\ \A w \in Sweepers : pc[w] \in {"exec", "commit"} /\ sched[job[w]].action = "publish" =>
       sched[job[w]].pin <= seen[w].ver
  /\ \A w \in Sweepers : pc[w] = "commit" => seen[w].ver = entry.ver /\ ~Overtaken(w)

(* Releases through a schedule and the schedules done, one for one.        *)
LedgerInv ==
  /\ \A r \in ledger : r.via # None =>
       /\ sched[r.via].state = "done" /\ sched[r.via].action = "publish"
       /\ r.body = approved[r.via]
  /\ \A r, s \in ledger : r.via = s.via /\ r.via # None => r = s
  /\ \A i \in Ids : sched[i].state = "done" /\ sched[i].action = "publish" =>
       \E r \in ledger : r.via = i

Told(i, kind) ==
  sched[i].state \in {"gone",
    CASE kind = "succeeded" -> "done" [] kind = "stale" -> "stale" [] OTHER -> "failed"}

(* What is to be told is already true.                                     *)
NoticeInv ==
  /\ \A w \in Sweepers : pc[w] \in Outcomes => Told(job[w], pc[w])
  /\ \A n \in notices : Told(n[1], n[2])

(* Idempotency keys lie in the past.                                       *)
EventInv ==
  /\ IsFiniteSet(events) /\ Cardinality(events) = emitted
  /\ \A e \in events : e[1] = "deleted" => ~entry.live
  /\ \A e \in events : e[1] # "deleted" => e[2] <= entry.ver

Inv == TypeOK /\ LockInv /\ VersionInv /\ FreshInv

-----------------------------------------------------------------------------
(* Settling some schedules changes their state and nothing else of them.   *)
LEMMA Settling ==
  ASSUME TypeOK, NEW ids, NEW state \in States, Settle(ids, state)
  PROVE  /\ sched' \in [Ids -> [state : States, action : Actions, pin : Nat]]
         /\ \A i \in Ids : /\ sched'[i].action = sched[i].action
                           /\ sched'[i].pin = sched[i].pin
                           /\ sched'[i].state = IF i \in ids THEN state ELSE sched[i].state
BY DEF TypeOK, Settle

(* The rows that the entry's writes leave behind.                          *)
LEMMA RowsLeft ==
  ASSUME NEW row \in Rows, NEW body \in Bodies
  PROVE  /\ Saved(row, body) \in Rows
         /\ Released(row) \in Rows
         /\ Retracted(row) \in Rows
<1>1. row.ver + 1 \in Nat /\ row.body \in Bodies \cup {NoBody} /\ row.body \in Bodies
      BY DEF Rows
<1>2. Saved(row, body) \in Rows
      BY <1>1 DEF Saved, Rows
<1>3. Released(row) \in Rows
      BY <1>1 DEF Released, Rows, Statuses
<1>4. Retracted(row) \in Rows
      BY <1>1 DEF Retracted, Rows, Statuses
<1> QED BY <1>2, <1>3, <1>4

LEMMA RewrittenRow ==
  ASSUME NEW row \in Rows, NEW holders \in SUBSET Bodies, NEW as \in [Bodies -> Bodies]
  PROVE  /\ Rewritten(row, holders, as) \in Rows
         /\ Rewritten(row, holders, as).ver \in {row.ver, row.ver + 1}
         /\ Rewritten(row, holders, as).ver = row.ver =>
              Rewritten(row, holders, as).body = row.body
         /\ Rewritten(row, holders, as).status = row.status
         /\ Rewritten(row, holders, as).live = row.live
<1> DEFINE new == Rewritten(row, holders, as)
           body == IF row.body \in holders THEN as[row.body] ELSE row.body
           snap == IF row.snap \in holders THEN as[row.snap] ELSE row.snap
           ver == IF row.body \in holders THEN row.ver + 1 ELSE row.ver
           snapVer == IF row.snap \in holders THEN row.snapVer + 1 ELSE row.snapVer
<1>1. body \in Bodies /\ snap \in Bodies \cup {NoBody}
      BY DEF Rows
<1>2. ver \in Nat /\ snapVer \in Nat
      BY DEF Rows
<1>3. new = [row EXCEPT !.body = body, !.ver = ver, !.snap = snap, !.snapVer = snapVer]
      BY DEF Rewritten, Rows
<1>4. /\ new \in Rows /\ new.ver = ver /\ new.body = body
      /\ new.status = row.status /\ new.live = row.live
  <2> HIDE DEF new, body, snap, ver, snapVer
  <2> QED BY <1>1, <1>2, <1>3 DEF Rows
<1>5. ver \in {row.ver, row.ver + 1} /\ (ver = row.ver => body = row.body)
  <2>1. row.ver + 1 # row.ver
    <3>1. row.ver \in Nat /\ \A n \in Nat : n + 1 # n
          BY DEF Rows
    <3> QED BY <3>1
  <2>2. CASE row.body \in holders
        BY <2>1, <2>2
  <2>3. CASE row.body \notin holders
        BY <2>3
  <2> QED BY <2>2, <2>3
<1> HIDE DEF body, snap, ver, snapVer
<1> QED BY <1>4, <1>5

LEMMA RewriteCases ==
  ASSUME (\E holders \in SUBSET Bodies : RenameField(holders))
         \/ (\E strip \in [Bodies -> Bodies] : DeleteField(strip))
  PROVE  \E holders \in SUBSET Bodies, as \in [Bodies -> Bodies] :
           RewriteEntries(holders, as)
<1>1. CASE \E holders \in SUBSET Bodies : RenameField(holders)
  <2>1. [b \in Bodies |-> b] \in [Bodies -> Bodies]
        OBVIOUS
  <2>2. QED BY <1>1, <2>1 DEF RenameField
<1>2. CASE \E strip \in [Bodies -> Bodies] : DeleteField(strip)
  <2>1. PICK strip \in [Bodies -> Bodies] : DeleteField(strip)
        BY <1>2
  <2>2. {b \in Bodies : strip[b] # b} \in SUBSET Bodies
        OBVIOUS
  <2>3. QED BY <2>1, <2>2 DEF DeleteField
<1> QED BY <1>1, <1>2

(* Every step keeps the variables in their types.                          *)
LEMMA TypeStep == TypeOK /\ LockInv /\ [Next]_vars => TypeOK'
<1> SUFFICES ASSUME TypeOK, LockInv, [Next]_vars PROVE TypeOK'
    OBVIOUS
<1> USE ReleaseAssumption DEF TypeOK, Goto, Procs
<1>0. CASE UNCHANGED vars
      BY <1>0 DEF vars, tables, locks, local, bounds
<1>1. ASSUME NEW p \in Editors, NEW k \in Ops, NEW b \in Bodies, ReadForWrite(p, k, b)
      PROVE  TypeOK'
      BY <1>1 DEF ReadForWrite, tables, locks
<1>2. ASSUME NEW p \in Editors, LockForWrite(p) \/ WriteConflict(p) PROVE TypeOK'
      BY <1>2 DEF LockForWrite, WriteConflict, tables, locks, bounds
<1>3. ASSUME NEW p \in Editors, SelectSchedules(p) PROVE TypeOK'
  <2>1. ToClose(p) \in SUBSET Ids
        BY DEF ToClose, Pending
  <2>2. QED BY <1>3, <2>1 DEF SelectSchedules, tables, locks, bounds
<1>4. ASSUME NEW p \in Editors, UpdateEntry(p) PROVE TypeOK'
  <2>1. Saved(entry, op[p].body) \in Rows
        BY RowsLeft
  <2>2. Settle(marks[p] \cap ToClose(p), "stale") /\ "stale" \in States
        BY <1>4 DEF UpdateEntry, States
  <2>3. sched' \in [Ids -> [state : States, action : Actions, pin : Nat]]
        BY <2>2, Settling
  <2>4. entry.ver + 1 \in Nat
        BY DEF Rows
  <2>5. QED BY <1>4, <2>1, <2>3, <2>4 DEF UpdateEntry, FinishWrite, Emit, bounds
<1>5. ASSUME NEW p \in Editors, SetEntryStatus(p) PROVE TypeOK'
  <2>1. Released(entry) \in Rows /\ Retracted(entry) \in Rows
        BY RowsLeft
  <2>2. Settle(marks[p] \cap ToClose(p), "superseded") /\ "superseded" \in States
        BY <1>5 DEF SetEntryStatus, States
  <2>3. sched' \in [Ids -> [state : States, action : Actions, pin : Nat]]
        BY <2>2, Settling
  <2>4. entry.ver + 1 \in Nat /\ entry.body \in Bodies
        BY DEF Rows
  <2>5. QED BY <1>5, <2>1, <2>3, <2>4
            DEF SetEntryStatus, FinishWrite, SetEntryPublishState, Emit, bounds
<1>6. ASSUME NEW p \in Editors, DeleteEntry(p) PROVE TypeOK'
  <2>1. [entry EXCEPT !.live = FALSE] \in Rows
        BY DEF Rows
  <2>2. Settle(ToClose(p), "gone") /\ "gone" \in States
        BY <1>6 DEF DeleteEntry, States
  <2>3. sched' \in [Ids -> [state : States, action : Actions, pin : Nat]]
        BY <2>2, Settling
  <2>4. QED BY <1>6, <2>1, <2>3 DEF DeleteEntry, FinishWrite, Emit, bounds
<1>7. ASSUME NEW p \in Editors, Rollback(p) \/ RefuseSchedule(p) PROVE TypeOK'
      BY <1>7 DEF Rollback, RefuseSchedule, tables, locks, bounds
<1>8. ASSUME NEW holders \in SUBSET Bodies, NEW as \in [Bodies -> Bodies],
             RewriteEntries(holders, as)
      PROVE  TypeOK'
  <2>1. Rewritten(entry, holders, as) \in Rows
        BY RewrittenRow
  <2>2. writes' \in 0 .. MaxWrites
        BY <1>8 DEF RewriteEntries
  <2>3. entry' \in Rows
        BY <1>8, <2>1 DEF RewriteEntries
  <2>4. QED BY <1>8, <2>2, <2>3 DEF RewriteEntries, locks, local
<1>9. ASSUME NEW p \in Editors, NEW a \in Actions, ReadForSchedule(p, a) PROVE TypeOK'
  <2>1. entry.body \in Bodies
        BY DEF Rows
  <2>2. QED BY <1>9, <2>1 DEF ReadForSchedule, tables, locks
<1>10. ASSUME NEW p \in Editors, NEW i \in Ids, CreateEntrySchedule(p, i) PROVE TypeOK'
  <2>1. op[p].kind \in Actions /\ PinnedVersionFor(p) \in Nat /\ seen[p].body \in Bodies
        BY <1>10 DEF CreateEntrySchedule, LockInv, PinnedVersionFor, Rows
  <2>2. QED BY <1>10, <2>1 DEF CreateEntrySchedule, locks, bounds, States
<1>11. ASSUME NEW i \in Ids, CancelEntrySchedule(i) PROVE TypeOK'
  <2>1. Settle({i}, "cancelled") /\ "cancelled" \in States
        BY <1>11 DEF CancelEntrySchedule, States
  <2>2. sched' \in [Ids -> [state : States, action : Actions, pin : Nat]]
        BY <2>1, Settling
  <2>3. QED BY <1>11, <2>2 DEF CancelEntrySchedule, locks, local
<1>12. ASSUME NEW i \in Ids, ComeDue(i) PROVE TypeOK'
      BY <1>12 DEF ComeDue, tables, locks, local, bounds
<1>13. ASSUME NEW w \in Sweepers, NEW i \in Ids, ClaimDueEntrySchedule(w, i) PROVE TypeOK'
      BY <1>13 DEF ClaimDueEntrySchedule, tables, bounds
<1>14. ASSUME NEW w \in Sweepers, ReadForExecute(w) \/ LockForExecute(w) PROVE TypeOK'
  <2>1. CASE ReadForExecute(w)
        BY <2>1 DEF ReadForExecute, tables, locks, bounds
  <2>2. CASE LockForExecute(w)
        BY <2>2 DEF LockForExecute, tables, bounds
  <2> QED BY <1>14, <2>1, <2>2
<1>15. ASSUME NEW w \in Sweepers, FinishStale(w) PROVE TypeOK'
  <2>1. Settle({job[w]}, "stale") /\ "stale" \in States
        BY <1>15 DEF FinishStale, States
  <2>2. sched' \in [Ids -> [state : States, action : Actions, pin : Nat]]
        BY <2>1, Settling
  <2>3. QED BY <1>15, <2>2 DEF FinishStale, Unclaim, Outcomes, bounds
<1>16. ASSUME NEW w \in Sweepers, ExecuteConflict(w) PROVE TypeOK'
      BY <1>16 DEF ExecuteConflict, Unclaim, tables, bounds
<1>17. ASSUME NEW w \in Sweepers, CommitExecute(w) PROVE TypeOK'
  <2>1. Released(entry) \in Rows /\ Retracted(entry) \in Rows
        BY RowsLeft
  <2>2. Settle({job[w]}, "done") /\ "done" \in States
        BY <1>17 DEF CommitExecute, States
  <2>3. sched' \in [Ids -> [state : States, action : Actions, pin : Nat]]
        BY <2>2, Settling
  <2>4. entry.ver + 1 \in Nat /\ entry.body \in Bodies
        BY DEF Rows
  <2>5. job[w] \in Ids
        BY <1>17 DEF CommitExecute, LockInv
  <2>6. /\ entry' \in Rows
        /\ ledger' \subseteq [via : Ids \cup {None}, ver : Nat, body : Bodies]
        /\ events' \subseteq {"updated", "published", "draft", "deleted"} \X Nat
        /\ emitted' \in Nat
        BY <1>17, <2>1, <2>4, <2>5 DEF CommitExecute, SetEntryPublishState, Emit
  <2>7. QED BY <1>17, <2>3, <2>6 DEF CommitExecute, Unclaim, Outcomes, bounds
<1>18. ASSUME NEW w \in Sweepers, MarkFailed(w) PROVE TypeOK'
  <2>1. sched' \in [Ids -> [state : States, action : Actions, pin : Nat]]
    <3>1. CASE job[w] \in Pending
          BY <1>18, <3>1, Settling DEF MarkFailed, States
    <3>2. CASE job[w] \notin Pending
          BY <1>18, <3>2 DEF MarkFailed
    <3> QED BY <3>1, <3>2
  <2>2. QED BY <1>18, <2>1 DEF MarkFailed, Outcomes, locks, bounds
<1>19. ASSUME NEW w \in Sweepers, NotifyRequester(w) PROVE TypeOK'
  <2>1. job[w] \in Ids
        BY <1>19 DEF NotifyRequester, LockInv, Outcomes
  <2>2. QED BY <1>19, <2>1 DEF NotifyRequester, tables, locks, bounds
<1>20. ASSUME NEW w \in Sweepers, ExecuteError(w) \/ Crash(w) PROVE TypeOK'
  <2>1. lockE' \in Procs \cup {Nobody} /\ lockS' \in [Ids -> Sweepers \cup {Nobody}]
        BY <1>20 DEF ExecuteError, Crash, ReleaseLocks
  <2>2. faults' \in 0 .. MaxFaults /\ writes' = writes
        BY <1>20 DEF ExecuteError, Crash
  <2>3. QED BY <1>20, <2>1, <2>2 DEF ExecuteError, Crash, tables
<1>21. ASSUME NEW p \in Editors, NEW w \in Sweepers, AbortEditor(p, w) \/ AbortSweeper(p, w)
       PROVE  TypeOK'
      BY <1>21 DEF AbortEditor, AbortSweeper, Unclaim, tables, bounds
<1> QED BY <1>0, <1>1, <1>2, <1>3, <1>4, <1>5, <1>6, <1>7, <1>8, <1>9, <1>10, <1>11,
           <1>12, <1>13, <1>14, <1>15, <1>16, <1>17, <1>18, <1>19, <1>20, <1>21,
           RewriteCases
        DEF Next, EditorStep, Requests, SweeperStep, Detector

(* Locks are taken, kept and released as LockInv says.                     *)
LEMMA LockStep == TypeOK /\ LockInv /\ [Next]_vars => LockInv'
<1> SUFFICES ASSUME TypeOK, LockInv, [Next]_vars PROVE LockInv'
    OBVIOUS
<1> USE ReleaseAssumption DEF TypeOK, LockInv, EditorAt, SweeperAt, Goto, Procs, Outcomes, Pending
<1>0. CASE UNCHANGED vars
      BY <1>0 DEF vars, tables, locks, local, bounds
<1>1. ASSUME NEW p \in Editors, NEW k \in Ops, NEW b \in Bodies, ReadForWrite(p, k, b)
      PROVE  LockInv'
      BY <1>1 DEF ReadForWrite, tables, locks
<1>2. ASSUME NEW p \in Editors, LockForWrite(p) PROVE LockInv'
      BY <1>2 DEF LockForWrite, RowMatches, tables, bounds
<1>3. ASSUME NEW p \in Editors, WriteConflict(p) \/ RefuseSchedule(p) PROVE LockInv'
  <2>1. CASE WriteConflict(p)
        BY <2>1 DEF WriteConflict, tables, locks, bounds
  <2>2. CASE RefuseSchedule(p)
        BY <2>2 DEF RefuseSchedule, tables, locks, bounds
  <2> QED BY <1>3, <2>1, <2>2
<1>4. ASSUME NEW p \in Editors, SelectSchedules(p) PROVE LockInv'
  <2>1. op[p].kind = "delete" => ToClose(p) = {i \in Ids : sched[i].state # "unused"}
        BY DEF ToClose
  <2>2. QED BY <1>4, <2>1 DEF SelectSchedules, tables, locks, bounds
<1>5. ASSUME NEW p \in Editors, UpdateEntry(p) PROVE LockInv'
  <2>1. Settle(marks[p] \cap ToClose(p), "stale") /\ "stale" \in States
        BY <1>5 DEF UpdateEntry, States
  <2>2. /\ \A j \in Ids : sched'[j].state = IF j \in marks[p] \cap ToClose(p) THEN "stale" ELSE sched[j].state
        /\ \A j \in Ids : sched'[j].action = sched[j].action /\ sched'[j].pin = sched[j].pin
        BY <2>1, Settling
  <2>3. QED BY <1>5, <2>2 DEF UpdateEntry, FinishWrite, ToClose, RowsFree
<1>6. ASSUME NEW p \in Editors, SetEntryStatus(p) PROVE LockInv'
  <2>1. Settle(marks[p] \cap ToClose(p), "superseded") /\ "superseded" \in States
        BY <1>6 DEF SetEntryStatus, States
  <2>2. /\ \A j \in Ids : sched'[j].state = IF j \in marks[p] \cap ToClose(p) THEN "superseded" ELSE sched[j].state
        /\ \A j \in Ids : sched'[j].action = sched[j].action /\ sched'[j].pin = sched[j].pin
        BY <2>1, Settling
  <2>3. QED BY <1>6, <2>2 DEF SetEntryStatus, FinishWrite, SetEntryPublishState, ToClose, RowsFree
<1>7. ASSUME NEW p \in Editors, DeleteEntry(p) PROVE LockInv'
  <2>1. Settle(ToClose(p), "gone") /\ "gone" \in States
        BY <1>7 DEF DeleteEntry, States
  <2>2. /\ \A j \in Ids : sched'[j].state = IF j \in ToClose(p) THEN "gone" ELSE sched[j].state
        /\ \A j \in Ids : sched'[j].action = sched[j].action /\ sched'[j].pin = sched[j].pin
        BY <2>1, Settling
  <2>3. QED BY <1>7, <2>2 DEF DeleteEntry, FinishWrite, ToClose, RowsFree
<1>8. ASSUME NEW p \in Editors, Rollback(p) PROVE LockInv'
      BY <1>8 DEF Rollback, tables, bounds
<1>9. ASSUME NEW holders \in SUBSET Bodies, NEW as \in [Bodies -> Bodies], RewriteEntries(holders, as)
      PROVE  LockInv'
      BY <1>9 DEF RewriteEntries, locks, local
<1>10. ASSUME NEW p \in Editors, NEW a \in Actions, ReadForSchedule(p, a)
       PROVE  LockInv'
      BY <1>10 DEF ReadForSchedule, tables, locks
<1>11. ASSUME NEW p \in Editors, NEW i \in Ids, CreateEntrySchedule(p, i)
       PROVE  LockInv'
  <2>1. \A w \in Sweepers : pc[w] \in {"claimed", "exec", "commit"} => job[w] # i
        BY <1>11 DEF CreateEntrySchedule, NextId
  <2>2. \A q \in Editors : pc[q] = "mark" => op[q].kind # "delete"
        BY <1>11 DEF CreateEntrySchedule, BeingDeleted
  <2>3. \A j \in Ids : j # i => sched'[j] = sched[j]
        BY <1>11 DEF CreateEntrySchedule
  <2>4. pc' = [pc EXCEPT ![p] = "idle"] /\ UNCHANGED <<lockE, lockS, job, op, marks>>
        BY <1>11 DEF CreateEntrySchedule, locks
  <2>5. pc[p] = "file"
        BY <1>11 DEF CreateEntrySchedule
  <2>6. QED BY <2>1, <2>2, <2>3, <2>4, <2>5
<1>12. ASSUME NEW i \in Ids, CancelEntrySchedule(i) PROVE LockInv'
  <2>1. Settle({i}, "cancelled") /\ "cancelled" \in States
        BY <1>12 DEF CancelEntrySchedule, States
  <2>2. /\ \A j \in Ids : sched'[j].state = IF j \in {i} THEN "cancelled" ELSE sched[j].state
        /\ \A j \in Ids : sched'[j].action = sched[j].action /\ sched'[j].pin = sched[j].pin
        BY <2>1, Settling
  <2>3. \A w \in Sweepers : pc[w] \in {"claimed", "exec", "commit"} => job[w] # i
        BY <1>12 DEF CancelEntrySchedule
  <2>4. sched[i].state = "pending" /\ UNCHANGED <<pc, lockE, lockS, job, op, marks>>
        BY <1>12 DEF CancelEntrySchedule, locks, local
  <2>5. QED BY <2>2, <2>3, <2>4
<1>13. ASSUME NEW i \in Ids, ComeDue(i) PROVE LockInv'
      BY <1>13 DEF ComeDue, tables, locks, local, bounds
<1>14. ASSUME NEW w \in Sweepers, NEW i \in Ids, ClaimDueEntrySchedule(w, i)
       PROVE  LockInv'
      BY <1>14 DEF ClaimDueEntrySchedule, tables, bounds
<1>15. ASSUME NEW w \in Sweepers, ReadForExecute(w) PROVE LockInv'
      BY <1>15 DEF ReadForExecute, tables, locks, bounds
<1>16. ASSUME NEW w \in Sweepers, FinishStale(w) PROVE LockInv'
  <2>1. Settle({job[w]}, "stale") /\ "stale" \in States
        BY <1>16 DEF FinishStale, States
  <2>2. /\ \A j \in Ids : sched'[j].state = IF j \in {job[w]} THEN "stale" ELSE sched[j].state
        /\ \A j \in Ids : sched'[j].action = sched[j].action /\ sched'[j].pin = sched[j].pin
        BY <2>1, Settling
  <2>3. job[w] \in Ids /\ lockS[job[w]] = w /\ sched[job[w]].state = "pending"
        BY <1>16 DEF FinishStale
  <2>4. \A u \in Sweepers : u # w /\ pc[u] \in {"claimed", "exec", "commit"} => job[u] # job[w]
        BY <2>3
  <2>5. /\ pc[w] = "exec" /\ pc' = [pc EXCEPT ![w] = "stale"]
        /\ lockS' = [lockS EXCEPT ![job[w]] = Nobody]
        /\ UNCHANGED <<lockE, job, op, marks>>
        BY <1>16 DEF FinishStale, Unclaim
  <2>6. QED BY <2>2, <2>3, <2>4, <2>5
<1>17. ASSUME NEW w \in Sweepers, LockForExecute(w) PROVE LockInv'
      BY <1>17 DEF LockForExecute, tables, bounds
<1>18. ASSUME NEW w \in Sweepers, ExecuteConflict(w) PROVE LockInv'
      BY <1>18 DEF ExecuteConflict, Unclaim, tables, bounds
<1>19. ASSUME NEW w \in Sweepers, CommitExecute(w) PROVE LockInv'
  <2>1. Settle({job[w]}, "done") /\ "done" \in States
        BY <1>19 DEF CommitExecute, States
  <2>2. /\ \A j \in Ids : sched'[j].state = IF j \in {job[w]} THEN "done" ELSE sched[j].state
        /\ \A j \in Ids : sched'[j].action = sched[j].action /\ sched'[j].pin = sched[j].pin
        BY <2>1, Settling
  <2>3. QED BY <1>19, <2>2 DEF CommitExecute, SetEntryPublishState, Unclaim, bounds
<1>20. ASSUME NEW w \in Sweepers, MarkFailed(w) PROVE LockInv'
  <2>1. \A j \in Ids : sched'[j].state # sched[j].state =>
          j = job[w] /\ lockS[j] = Nobody /\ sched[j].state # "unused" /\ sched'[j].state # "unused"
    <3>1. CASE job[w] \in Pending
          BY <1>20, <3>1, Settling DEF MarkFailed, States, Pending
    <3>2. CASE job[w] \notin Pending
          BY <1>20, <3>2 DEF MarkFailed
    <3> QED BY <3>1, <3>2
  <2>2. \A u \in Sweepers : pc[u] \in {"claimed", "exec", "commit"} =>
          sched'[job[u]].state = sched[job[u]].state
        BY <2>1, <1>20 DEF MarkFailed
  <2>3. pc[w] = "failing" /\ pc' = [pc EXCEPT ![w] = IF job[w] \in Pending THEN "failed" ELSE "idle"]
        BY <1>20 DEF MarkFailed
  <2>4. UNCHANGED <<lockE, lockS, job, op, marks>>
        BY <1>20 DEF MarkFailed, locks
  <2>5. QED BY <2>1, <2>2, <2>3, <2>4
<1>21. ASSUME NEW w \in Sweepers, NotifyRequester(w) PROVE LockInv'
      BY <1>21 DEF NotifyRequester, tables, locks, bounds
<1>22. ASSUME NEW w \in Sweepers, ExecuteError(w) \/ Crash(w) PROVE LockInv'
  <2>1. /\ lockE' = IF lockE = w THEN Nobody ELSE lockE
        /\ \A i \in Ids : lockS'[i] = IF lockS[i] = w THEN Nobody ELSE lockS[i]
        BY <1>22 DEF ExecuteError, Crash, ReleaseLocks
  <2>2. pc' = [pc EXCEPT ![w] = IF ExecuteError(w) THEN "failing" ELSE "idle"]
        BY <1>22 DEF ExecuteError, Crash
  <2>3. pc[w] \in {"claimed", "exec", "commit"} \/ pc'[w] = "idle"
        BY <1>22 DEF ExecuteError, Crash
  <2>4. UNCHANGED <<job, sched, op, marks>>
        BY <1>22 DEF ExecuteError, Crash, tables
  <2>5. QED BY <2>1, <2>2, <2>3, <2>4
<1>23. ASSUME NEW p \in Editors, NEW w \in Sweepers, AbortEditor(p, w)
       PROVE  LockInv'
      BY <1>23 DEF AbortEditor, Deadlocked, tables, bounds
<1>24. ASSUME NEW p \in Editors, NEW w \in Sweepers, AbortSweeper(p, w)
       PROVE  LockInv'
      BY <1>24 DEF AbortSweeper, Deadlocked, Unclaim, tables, bounds
<1> QED BY <1>0, <1>1, <1>2, <1>3, <1>4, <1>5, <1>6, <1>7, <1>8, <1>9, <1>10, <1>11,
           <1>12, <1>13, <1>14, <1>15, <1>16, <1>17, <1>18, <1>19, <1>20, <1>21, <1>22, <1>23, <1>24, RewriteCases
        DEF Next, EditorStep, Requests, SweeperStep, Detector

(* What one step may do to a schedule: nothing, file it, or close it once. *)
Same(i) ==
  /\ sched'[i].action = sched[i].action
  /\ sched'[i].pin = sched[i].pin
  /\ approved'[i] = approved[i]

Move(i) ==
  \/ Same(i) /\ sched'[i].state = sched[i].state
  \/ sched[i].state = "unused" /\ \E p \in Editors : CreateEntrySchedule(p, i)
  \/ /\ Same(i)
     /\ sched[i].state # "unused"
     /\ sched'[i].state \in Terminal
     /\ sched[i].state = "pending" \/ sched'[i].state = "gone"

LEMMA ScheduleMoves == TypeOK /\ LockInv /\ [Next]_vars => \A i \in Ids : Move(i)
<1> SUFFICES ASSUME TypeOK, LockInv, [Next]_vars, NEW x \in Ids PROVE Move(x)
    OBVIOUS
<1> USE DEF TypeOK, LockInv, Pending, Terminal, States
<1>0. CASE UNCHANGED vars
      BY <1>0 DEF vars, tables, locks, local, bounds, Move, Same
<1>1. ASSUME NEW p \in Editors, NEW k \in Ops, NEW b \in Bodies, ReadForWrite(p, k, b)
      PROVE  Move(x)
      BY <1>1 DEF ReadForWrite, tables, locks, Move, Same
<1>2. ASSUME NEW p \in Editors, LockForWrite(p) PROVE Move(x)
      BY <1>2 DEF LockForWrite, RowMatches, tables, bounds, Move, Same
<1>3. ASSUME NEW p \in Editors, WriteConflict(p) \/ RefuseSchedule(p) PROVE Move(x)
      BY <1>3 DEF WriteConflict, RefuseSchedule, tables, locks, bounds, Move, Same
<1>4. ASSUME NEW p \in Editors, SelectSchedules(p) PROVE Move(x)
      BY <1>4 DEF SelectSchedules, tables, locks, bounds, Move, Same
<1>5. ASSUME NEW p \in Editors, UpdateEntry(p) PROVE Move(x)
  <2>1. Settle(marks[p] \cap ToClose(p), "stale") /\ "stale" \in States
        BY <1>5 DEF UpdateEntry, States
  <2>2. /\ sched' \in [Ids -> [state : States, action : Actions, pin : Nat]]
        /\ \A j \in Ids : sched'[j].state = IF j \in marks[p] \cap ToClose(p) THEN "stale" ELSE sched[j].state
        /\ \A j \in Ids : sched'[j].action = sched[j].action /\ sched'[j].pin = sched[j].pin
        BY <2>1, Settling
  <2>3. sched[x].state # sched'[x].state => x \in marks[p] \cap ToClose(p)
        BY <2>2
  <2>4. QED BY <1>5, <2>2, <2>3 DEF UpdateEntry, FinishWrite, Move, Same, ToClose
<1>6. ASSUME NEW p \in Editors, SetEntryStatus(p) PROVE Move(x)
  <2>1. Settle(marks[p] \cap ToClose(p), "superseded") /\ "superseded" \in States
        BY <1>6 DEF SetEntryStatus, States
  <2>2. /\ sched' \in [Ids -> [state : States, action : Actions, pin : Nat]]
        /\ \A j \in Ids : sched'[j].state = IF j \in marks[p] \cap ToClose(p) THEN "superseded" ELSE sched[j].state
        /\ \A j \in Ids : sched'[j].action = sched[j].action /\ sched'[j].pin = sched[j].pin
        BY <2>1, Settling
  <2>3. ToClose(p) = Pending /\ approved' = approved
        BY <1>6 DEF SetEntryStatus, ToClose, Actions
  <2>4. QED BY <2>2, <2>3 DEF Move, Same
<1>7. ASSUME NEW p \in Editors, DeleteEntry(p) PROVE Move(x)
  <2>1. Settle(ToClose(p), "gone") /\ "gone" \in States
        BY <1>7 DEF DeleteEntry, States
  <2>2. /\ sched' \in [Ids -> [state : States, action : Actions, pin : Nat]]
        /\ \A j \in Ids : sched'[j].state = IF j \in ToClose(p) THEN "gone" ELSE sched[j].state
        /\ \A j \in Ids : sched'[j].action = sched[j].action /\ sched'[j].pin = sched[j].pin
        BY <2>1, Settling
  <2>3. sched[x].state # sched'[x].state => x \in ToClose(p)
        BY <2>2
  <2>4. QED BY <1>7, <2>2, <2>3 DEF DeleteEntry, FinishWrite, Move, Same, ToClose
<1>8. ASSUME NEW p \in Editors, Rollback(p) PROVE Move(x)
      BY <1>8 DEF Rollback, tables, bounds, Move, Same
<1>9. ASSUME NEW holders \in SUBSET Bodies, NEW as \in [Bodies -> Bodies], RewriteEntries(holders, as)
      PROVE  Move(x)
      BY <1>9 DEF RewriteEntries, locks, local, Move, Same
<1>10. ASSUME NEW p \in Editors, NEW a \in Actions, ReadForSchedule(p, a)
       PROVE  Move(x)
      BY <1>10 DEF ReadForSchedule, tables, locks, Move, Same
<1>11. ASSUME NEW p \in Editors, NEW i \in Ids, CreateEntrySchedule(p, i)
       PROVE  Move(x)
  <2>1. CASE x = i
        BY <1>11, <2>1 DEF CreateEntrySchedule, NextId, Move
  <2>2. CASE x # i
        BY <1>11, <2>2 DEF CreateEntrySchedule, Move, Same
  <2> QED BY <2>1, <2>2
<1>12. ASSUME NEW i \in Ids, CancelEntrySchedule(i) PROVE Move(x)
  <2>1. Settle({i}, "cancelled") /\ "cancelled" \in States
        BY <1>12 DEF CancelEntrySchedule, States
  <2>2. /\ sched' \in [Ids -> [state : States, action : Actions, pin : Nat]]
        /\ \A j \in Ids : sched'[j].state = IF j \in {i} THEN "cancelled" ELSE sched[j].state
        /\ \A j \in Ids : sched'[j].action = sched[j].action /\ sched'[j].pin = sched[j].pin
        BY <2>1, Settling
  <2>3. sched[x].state # sched'[x].state => x \in {i}
        BY <2>2
  <2>4. QED BY <1>12, <2>2, <2>3 DEF CancelEntrySchedule, locks, local, Move, Same
<1>13. ASSUME NEW i \in Ids, ComeDue(i) PROVE Move(x)
      BY <1>13 DEF ComeDue, tables, locks, local, bounds, Move, Same
<1>14. ASSUME NEW w \in Sweepers, NEW i \in Ids, ClaimDueEntrySchedule(w, i)
       PROVE  Move(x)
      BY <1>14 DEF ClaimDueEntrySchedule, tables, bounds, Move, Same
<1>15. ASSUME NEW w \in Sweepers, ReadForExecute(w) PROVE Move(x)
      BY <1>15 DEF ReadForExecute, tables, locks, bounds, Move, Same
<1>16. ASSUME NEW w \in Sweepers, FinishStale(w) PROVE Move(x)
  <2>1. Settle({job[w]}, "stale") /\ "stale" \in States
        BY <1>16 DEF FinishStale, States
  <2>2. /\ sched' \in [Ids -> [state : States, action : Actions, pin : Nat]]
        /\ \A j \in Ids : sched'[j].state = IF j \in {job[w]} THEN "stale" ELSE sched[j].state
        /\ \A j \in Ids : sched'[j].action = sched[j].action /\ sched'[j].pin = sched[j].pin
        BY <2>1, Settling
  <2>3. sched[job[w]].state = "pending" /\ approved' = approved
        BY <1>16 DEF FinishStale
  <2>4. QED BY <2>2, <2>3 DEF Move, Same
<1>17. ASSUME NEW w \in Sweepers, LockForExecute(w) PROVE Move(x)
      BY <1>17 DEF LockForExecute, tables, bounds, Move, Same
<1>18. ASSUME NEW w \in Sweepers, ExecuteConflict(w) PROVE Move(x)
      BY <1>18 DEF ExecuteConflict, Unclaim, tables, bounds, Move, Same
<1>19. ASSUME NEW w \in Sweepers, CommitExecute(w) PROVE Move(x)
  <2>1. Settle({job[w]}, "done") /\ "done" \in States
        BY <1>19 DEF CommitExecute, States
  <2>2. /\ sched' \in [Ids -> [state : States, action : Actions, pin : Nat]]
        /\ \A j \in Ids : sched'[j].state = IF j \in {job[w]} THEN "done" ELSE sched[j].state
        /\ \A j \in Ids : sched'[j].action = sched[j].action /\ sched'[j].pin = sched[j].pin
        BY <2>1, Settling
  <2>3. sched[job[w]].state = "pending" /\ approved' = approved
        BY <1>19 DEF CommitExecute
  <2>4. QED BY <2>2, <2>3 DEF Move, Same
<1>20. ASSUME NEW w \in Sweepers, MarkFailed(w) PROVE Move(x)
  <2>1. CASE job[w] \in Pending
        BY <1>20, <2>1, Settling DEF MarkFailed, States, Move, Same
  <2>2. CASE job[w] \notin Pending
        BY <1>20, <2>2 DEF MarkFailed, Move, Same
  <2> QED BY <2>1, <2>2
<1>21. ASSUME NEW w \in Sweepers, NotifyRequester(w) PROVE Move(x)
      BY <1>21 DEF NotifyRequester, tables, locks, bounds, Move, Same
<1>22. ASSUME NEW w \in Sweepers, ExecuteError(w) \/ Crash(w) PROVE Move(x)
      BY <1>22 DEF ExecuteError, Crash, ReleaseLocks, tables, Move, Same
<1>23. ASSUME NEW p \in Editors, NEW w \in Sweepers, AbortEditor(p, w) PROVE Move(x)
      BY <1>23 DEF AbortEditor, Deadlocked, tables, bounds, Move, Same
<1>24. ASSUME NEW p \in Editors, NEW w \in Sweepers, AbortSweeper(p, w)
       PROVE  Move(x)
      BY <1>24 DEF AbortSweeper, Deadlocked, Unclaim, tables, bounds, Move, Same
<1> QED BY <1>0, <1>1, <1>2, <1>3, <1>4, <1>5, <1>6, <1>7, <1>8, <1>9, <1>10, <1>11,
           <1>12, <1>13, <1>14, <1>15, <1>16, <1>17, <1>18, <1>19, <1>20, <1>21, <1>22, <1>23, <1>24, RewriteCases
        DEF Next, EditorStep, Requests, SweeperStep, Detector

(* The actions that write the entry's row or emit an event.                *)
LEMMA EntryWriters ==
  ASSUME [Next]_vars
  PROVE  \/ UNCHANGED <<entry, events, emitted>>
         \/ \E p \in Editors : UpdateEntry(p) \/ SetEntryStatus(p) \/ DeleteEntry(p)
         \/ \E w \in Sweepers : CommitExecute(w)
         \/ \E holders \in SUBSET Bodies, as \in [Bodies -> Bodies] :
              RewriteEntries(holders, as)
<1> DEFINE Goal == UNCHANGED <<entry, events, emitted>>
<1>0. CASE UNCHANGED vars
      BY <1>0 DEF vars, tables
<1>1. ASSUME NEW p \in Editors,
             \/ LockForWrite(p) \/ WriteConflict(p) \/ SelectSchedules(p) \/ RefuseSchedule(p)
             \/ Rollback(p) \/ (\E i \in Ids : CreateEntrySchedule(p, i))
             \/ (\E k \in Ops, b \in Bodies : ReadForWrite(p, k, b))
             \/ (\E a \in Actions : ReadForSchedule(p, a))
      PROVE  Goal
      BY <1>1 DEF LockForWrite, WriteConflict, SelectSchedules, RefuseSchedule, Rollback,
                  CreateEntrySchedule, ReadForWrite, ReadForSchedule, tables
<1>2. ASSUME NEW w \in Sweepers,
             \/ (\E i \in Ids : ClaimDueEntrySchedule(w, i)) \/ ReadForExecute(w)
             \/ FinishStale(w) \/ LockForExecute(w) \/ ExecuteConflict(w) \/ MarkFailed(w)
             \/ NotifyRequester(w) \/ ExecuteError(w) \/ Crash(w)
      PROVE  Goal
      BY <1>2 DEF ClaimDueEntrySchedule, ReadForExecute, FinishStale, LockForExecute,
                  ExecuteConflict, MarkFailed, NotifyRequester, ExecuteError, Crash, tables
<1>3. ASSUME NEW i \in Ids, CancelEntrySchedule(i) \/ ComeDue(i) PROVE Goal
      BY <1>3 DEF CancelEntrySchedule, ComeDue, tables
<1>4. CASE Detector
      BY <1>4 DEF Detector, AbortEditor, AbortSweeper, tables
<1> QED BY <1>0, <1>1, <1>2, <1>3, <1>4, RewriteCases
        DEF Next, EditorStep, Requests, SweeperStep

(* The version never goes back, and at one version the copy is one.        *)
LEMMA EntryAdvances ==
  ASSUME TypeOK, [Next]_vars
  PROVE  /\ entry.ver \in Nat /\ entry'.ver \in Nat /\ entry.ver <= entry'.ver
         /\ entry'.ver = entry.ver => entry'.body = entry.body /\ entry'.status = entry.status
<1>0. entry \in Rows /\ entry.ver \in Nat
      BY DEF TypeOK, Rows
<1>1. CASE entry' = entry
      BY <1>0, <1>1
<1>2. ASSUME NEW p \in Editors, UpdateEntry(p) PROVE entry'.ver = entry.ver + 1
      BY <1>0, <1>2 DEF UpdateEntry, Saved, Rows
<1>3. ASSUME NEW p \in Editors, SetEntryStatus(p) PROVE entry'.ver = entry.ver + 1
      BY <1>0, <1>3 DEF SetEntryStatus, SetEntryPublishState, Released, Retracted, Rows
<1>4. ASSUME NEW p \in Editors, DeleteEntry(p)
      PROVE  entry'.ver = entry.ver /\ entry'.body = entry.body /\ entry'.status = entry.status
      BY <1>0, <1>4 DEF DeleteEntry, Rows
<1>5. ASSUME NEW w \in Sweepers, CommitExecute(w) PROVE entry'.ver = entry.ver + 1
      BY <1>0, <1>5 DEF CommitExecute, SetEntryPublishState, Released, Retracted, Rows
<1>6. ASSUME NEW holders \in SUBSET Bodies, NEW as \in [Bodies -> Bodies],
             RewriteEntries(holders, as)
      PROVE  /\ entry'.ver \in {entry.ver, entry.ver + 1}
             /\ entry'.ver = entry.ver => entry'.body = entry.body
             /\ entry'.status = entry.status
      BY <1>0, <1>6, RewrittenRow DEF RewriteEntries
<1> QED BY <1>0, <1>1, <1>2, <1>3, <1>4, <1>5, <1>6, EntryWriters

(* A reader takes the committed row, and does nothing to it.               *)
LEMMA SeenMoves ==
  ASSUME TypeOK, [Next]_vars, NEW x \in Procs
  PROVE  seen'[x] = seen[x] \/ (seen'[x] = entry /\ entry' = entry)
<1> DEFINE Goal == seen' = seen
           Read == \E p \in Procs : seen' = [seen EXCEPT ![p] = entry] /\ entry' = entry
<1>0. CASE UNCHANGED vars
      BY <1>0 DEF vars, local
<1>1. ASSUME NEW p \in Editors,
             \/ LockForWrite(p) \/ WriteConflict(p) \/ SelectSchedules(p) \/ RefuseSchedule(p)
             \/ Rollback(p) \/ (\E i \in Ids : CreateEntrySchedule(p, i))
             \/ UpdateEntry(p) \/ SetEntryStatus(p) \/ DeleteEntry(p)
      PROVE  Goal
      BY <1>1 DEF LockForWrite, WriteConflict, SelectSchedules, RefuseSchedule, Rollback,
                  CreateEntrySchedule, UpdateEntry, SetEntryStatus, DeleteEntry, FinishWrite
<1>2. ASSUME NEW w \in Sweepers,
             \/ (\E i \in Ids : ClaimDueEntrySchedule(w, i)) \/ CommitExecute(w)
             \/ FinishStale(w) \/ LockForExecute(w) \/ ExecuteConflict(w) \/ MarkFailed(w)
             \/ NotifyRequester(w) \/ ExecuteError(w) \/ Crash(w)
      PROVE  Goal
      BY <1>2 DEF ClaimDueEntrySchedule, CommitExecute, FinishStale, LockForExecute,
                  ExecuteConflict, MarkFailed, NotifyRequester, ExecuteError, Crash
<1>3. ASSUME NEW i \in Ids, CancelEntrySchedule(i) \/ ComeDue(i) PROVE Goal
      BY <1>3 DEF CancelEntrySchedule, ComeDue, local
<1>4. CASE Detector
      BY <1>4 DEF Detector, AbortEditor, AbortSweeper
<1>5. ASSUME NEW holders \in SUBSET Bodies, NEW as \in [Bodies -> Bodies],
             RewriteEntries(holders, as)
      PROVE  Goal
      BY <1>5 DEF RewriteEntries, local
<1>6. ASSUME NEW p \in Editors,
             \/ (\E k \in Ops, b \in Bodies : ReadForWrite(p, k, b))
             \/ (\E a \in Actions : ReadForSchedule(p, a))
      PROVE  Read
      BY <1>6 DEF ReadForWrite, ReadForSchedule, tables, Procs
<1>7. ASSUME NEW w \in Sweepers, ReadForExecute(w) PROVE Read
      BY <1>7 DEF ReadForExecute, tables, Procs
<1>8. CASE Read
      BY <1>8 DEF TypeOK
<1>9. CASE Goal
      BY <1>9
<1> HIDE DEF Goal, Read
<1> QED BY <1>8, <1>9, <1>0, <1>1, <1>2, <1>3, <1>4, <1>5, <1>6, <1>7, RewriteCases
      DEF Next, EditorStep, Requests, SweeperStep

(* Versions keep naming one copy: VersionInv is inductive.                 *)
LEMMA VersionStep == TypeOK /\ LockInv /\ VersionInv /\ [Next]_vars => VersionInv'
<1> SUFFICES ASSUME TypeOK, LockInv, VersionInv, [Next]_vars PROVE VersionInv'
    OBVIOUS
<1>1. /\ entry.ver \in Nat /\ entry'.ver \in Nat /\ entry.ver <= entry'.ver
      /\ entry'.ver = entry.ver => entry'.body = entry.body /\ entry'.status = entry.status
      BY EntryAdvances
<1>2. \A p \in Procs : seen[p].ver \in Nat
      BY DEF TypeOK, Rows
<1>3. ASSUME NEW p \in Procs PROVE SameCopy(seen[p])'
  <2>1. CASE seen'[p] = seen[p]
        BY <1>1, <1>2, <2>1 DEF VersionInv, SameCopy
  <2>2. CASE seen'[p] = entry /\ entry' = entry
        BY <1>1, <2>2 DEF SameCopy
  <2> QED BY <2>1, <2>2, SeenMoves
<1>4. ASSUME NEW i \in Ids, sched'[i].state = "pending", sched'[i].action = "publish"
      PROVE  /\ sched'[i].pin <= entry'.ver
             /\ sched'[i].pin = entry'.ver => approved'[i] = entry'.body
  <2>1. CASE Same(i) /\ sched[i].state = "pending"
    <3>1. sched[i].pin \in Nat
          BY DEF TypeOK
    <3>2. QED BY <1>1, <1>4, <2>1, <3>1 DEF VersionInv, Same
  <2>2. ASSUME NEW p \in Editors, CreateEntrySchedule(p, i)
        PROVE  /\ sched'[i].pin <= entry'.ver
               /\ sched'[i].pin = entry'.ver => approved'[i] = entry'.body
    <3>1. sched'[i].pin = seen[p].ver /\ approved'[i] = seen[p].body /\ entry' = entry
          BY <1>4, <2>2 DEF CreateEntrySchedule, PinnedVersionFor, TypeOK
    <3>2. SameCopy(seen[p])
          BY DEF VersionInv, Procs
    <3>3. QED BY <3>1, <3>2 DEF SameCopy
  <2>3. Move(i)
        BY ScheduleMoves
  <2>4. QED BY <1>4, <2>1, <2>2, <2>3 DEF Move, Terminal
<1> QED BY <1>3, <1>4 DEF VersionInv

(* What a writer has compared holds while it has the lock: FreshInv is     *)
(* inductive with the locks and the versions.                              *)
LEMMA FreshStep ==
  TypeOK /\ LockInv /\ VersionInv /\ FreshInv /\ [Next]_vars => FreshInv'
<1> SUFFICES ASSUME TypeOK, LockInv, VersionInv, FreshInv, [Next]_vars PROVE FreshInv'
    OBVIOUS
<1>a. \A w \in Sweepers : pc[w] \in {"claimed", "exec", "commit"} =>
        /\ sched'[job[w]].action = sched[job[w]].action
        /\ sched'[job[w]].pin = sched[job[w]].pin
  <2>1. ASSUME NEW w \in Sweepers, pc[w] \in {"claimed", "exec", "commit"} PROVE Same(job[w])
    <3>1. job[w] \in Ids /\ sched[job[w]].state = "pending"
          BY <2>1 DEF LockInv
    <3>2. QED BY <3>1, ScheduleMoves DEF Move
  <2> QED BY <2>1 DEF Same
<1>b. LockInv' /\ TypeOK'
      BY LockStep, TypeStep
<1> USE ReleaseAssumption
    DEF TypeOK, LockInv, FreshInv, EditorAt, SweeperAt, Goto, Procs, Overtaken
<1>0. CASE UNCHANGED vars
      BY <1>0, <1>a, <1>b DEF vars, tables, locks, local, bounds
<1>1. ASSUME NEW p \in Editors, NEW k \in Ops, NEW b \in Bodies, ReadForWrite(p, k, b)
      PROVE  FreshInv'
      BY <1>1, <1>a, <1>b DEF ReadForWrite, tables, locks
<1>2. ASSUME NEW p \in Editors, LockForWrite(p) PROVE FreshInv'
      BY <1>2, <1>a, <1>b DEF LockForWrite, RowMatches, tables, bounds
<1>3. ASSUME NEW p \in Editors, WriteConflict(p) \/ RefuseSchedule(p)
      PROVE  FreshInv'
      BY <1>3, <1>a, <1>b DEF WriteConflict, RefuseSchedule, tables, locks, bounds
<1>4. ASSUME NEW p \in Editors, SelectSchedules(p) PROVE FreshInv'
      BY <1>4, <1>a, <1>b DEF SelectSchedules, tables, locks, bounds
<1>5. ASSUME NEW p \in Editors, UpdateEntry(p) PROVE FreshInv'
      BY <1>5, <1>a, <1>b DEF UpdateEntry, FinishWrite
<1>6. ASSUME NEW p \in Editors, SetEntryStatus(p) PROVE FreshInv'
      BY <1>6, <1>a, <1>b DEF SetEntryStatus, FinishWrite
<1>7. ASSUME NEW p \in Editors, DeleteEntry(p) PROVE FreshInv'
      BY <1>7, <1>a, <1>b DEF DeleteEntry, FinishWrite
<1>8. ASSUME NEW p \in Editors, Rollback(p) PROVE FreshInv'
      BY <1>8, <1>a, <1>b DEF Rollback, tables, bounds
<1>9. ASSUME NEW holders \in SUBSET Bodies, NEW as \in [Bodies -> Bodies], RewriteEntries(holders, as)
      PROVE  FreshInv'
  <2>1. \A p \in Procs : lockE # p
        BY <1>9 DEF RewriteEntries
  <2>2. UNCHANGED <<pc, seen, job, sched, op, lockE>>
        BY <1>9 DEF RewriteEntries, locks, local
  <2>3. QED BY <2>1, <2>2
<1>10. ASSUME NEW p \in Editors, NEW a \in Actions, ReadForSchedule(p, a)
       PROVE  FreshInv'
      BY <1>10, <1>a, <1>b DEF ReadForSchedule, tables, locks
<1>11. ASSUME NEW p \in Editors, NEW i \in Ids, CreateEntrySchedule(p, i)
       PROVE  FreshInv'
      BY <1>11, <1>a, <1>b DEF CreateEntrySchedule, locks, bounds
<1>12. ASSUME NEW i \in Ids, CancelEntrySchedule(i) PROVE FreshInv'
      BY <1>12, <1>a, <1>b DEF CancelEntrySchedule, locks, local
<1>13. ASSUME NEW i \in Ids, ComeDue(i) PROVE FreshInv'
      BY <1>13, <1>a, <1>b DEF ComeDue, tables, locks, local, bounds
<1>14. ASSUME NEW w \in Sweepers, NEW i \in Ids, ClaimDueEntrySchedule(w, i)
       PROVE  FreshInv'
      BY <1>14, <1>a, <1>b DEF ClaimDueEntrySchedule, tables, bounds
<1>15. ASSUME NEW w \in Sweepers, ReadForExecute(w) PROVE FreshInv'
  <2>1. sched[job[w]].state = "pending" /\ job[w] \in Ids
        BY <1>15 DEF ReadForExecute
  <2>2. sched[job[w]].action = "publish" => sched[job[w]].pin <= entry.ver
        BY <2>1 DEF VersionInv
  <2>3. /\ seen' = [seen EXCEPT ![w] = entry] /\ pc' = [pc EXCEPT ![w] = "exec"]
        /\ UNCHANGED <<job, sched, entry, op, lockE>>
        BY <1>15 DEF ReadForExecute, tables, locks
  <2>4. QED BY <2>2, <2>3
<1>16. ASSUME NEW w \in Sweepers, FinishStale(w) PROVE FreshInv'
      BY <1>16, <1>a, <1>b DEF FinishStale, Unclaim, bounds
<1>17. ASSUME NEW w \in Sweepers, LockForExecute(w) PROVE FreshInv'
      BY <1>17, <1>a, <1>b DEF LockForExecute, tables, bounds
<1>18. ASSUME NEW w \in Sweepers, ExecuteConflict(w) PROVE FreshInv'
      BY <1>18, <1>a, <1>b DEF ExecuteConflict, Unclaim, tables, bounds
<1>19. ASSUME NEW w \in Sweepers, CommitExecute(w) PROVE FreshInv'
      BY <1>19, <1>a, <1>b DEF CommitExecute
<1>20. ASSUME NEW w \in Sweepers, MarkFailed(w) PROVE FreshInv'
      BY <1>20, <1>a, <1>b DEF MarkFailed, locks, bounds
<1>21. ASSUME NEW w \in Sweepers, NotifyRequester(w) PROVE FreshInv'
      BY <1>21, <1>a, <1>b DEF NotifyRequester, tables, locks, bounds
<1>22. ASSUME NEW w \in Sweepers, ExecuteError(w) \/ Crash(w) PROVE FreshInv'
      BY <1>22, <1>a, <1>b DEF ExecuteError, Crash, ReleaseLocks, tables
<1>23. ASSUME NEW p \in Editors, NEW w \in Sweepers, AbortEditor(p, w)
       PROVE  FreshInv'
      BY <1>23, <1>a, <1>b DEF AbortEditor, Deadlocked, tables, bounds
<1>24. ASSUME NEW p \in Editors, NEW w \in Sweepers, AbortSweeper(p, w)
       PROVE  FreshInv'
      BY <1>24, <1>a, <1>b DEF AbortSweeper, Deadlocked, Unclaim, tables, bounds
<1> QED BY <1>0, <1>1, <1>2, <1>3, <1>4, <1>5, <1>6, <1>7, <1>8, <1>9, <1>10, <1>11,
           <1>12, <1>13, <1>14, <1>15, <1>16, <1>17, <1>18, <1>19, <1>20, <1>21, <1>22, <1>23, <1>24, RewriteCases
        DEF Next, EditorStep, Requests, SweeperStep, Detector

(* Only a worker's commit makes a schedule done, only a deletion makes it  *)
(* gone, and only they and a release by hand touch the ledger.             *)
Quiet ==
  /\ ledger' = ledger
  /\ \A i \in Ids : sched'[i].state \in {"done", "gone"} => sched'[i].state = sched[i].state

LEMMA LedgerWriters ==
  ASSUME TypeOK, LockInv, [Next]_vars
  PROVE  \/ Quiet
         \/ \E p \in Editors : SetEntryStatus(p) \/ DeleteEntry(p)
         \/ \E w \in Sweepers : CommitExecute(w)
<1>0. CASE UNCHANGED vars
      BY <1>0 DEF vars, tables, Quiet
<1>1. ASSUME NEW p \in Editors,
             \/ LockForWrite(p) \/ WriteConflict(p) \/ SelectSchedules(p) \/ RefuseSchedule(p)
             \/ Rollback(p)
             \/ (\E k \in Ops, b \in Bodies : ReadForWrite(p, k, b))
             \/ (\E a \in Actions : ReadForSchedule(p, a))
      PROVE  Quiet
      BY <1>1 DEF LockForWrite, WriteConflict, SelectSchedules, RefuseSchedule, Rollback,
                  ReadForWrite, ReadForSchedule, tables, Quiet
<1>2. ASSUME NEW p \in Editors, NEW i \in Ids, CreateEntrySchedule(p, i) PROVE Quiet
      BY <1>2 DEF CreateEntrySchedule, Quiet, TypeOK
<1>3. ASSUME NEW p \in Editors, UpdateEntry(p) PROVE Quiet
  <2>1. Settle(marks[p] \cap ToClose(p), "stale") /\ "stale" \in States
        BY <1>3 DEF UpdateEntry, States
  <2>2. QED BY <1>3, <2>1, Settling DEF UpdateEntry, Quiet
<1>4. ASSUME NEW w \in Sweepers,
             \/ (\E i \in Ids : ClaimDueEntrySchedule(w, i)) \/ ReadForExecute(w)
             \/ LockForExecute(w) \/ ExecuteConflict(w)
             \/ NotifyRequester(w) \/ ExecuteError(w) \/ Crash(w)
      PROVE  Quiet
      BY <1>4 DEF ClaimDueEntrySchedule, ReadForExecute, LockForExecute, ExecuteConflict,
                  NotifyRequester, ExecuteError, Crash, tables, Quiet
<1>5. ASSUME NEW w \in Sweepers, FinishStale(w) PROVE Quiet
  <2>1. Settle({job[w]}, "stale") /\ "stale" \in States
        BY <1>5 DEF FinishStale, States
  <2>2. QED BY <1>5, <2>1, Settling DEF FinishStale, Quiet
<1>6. ASSUME NEW w \in Sweepers, MarkFailed(w) PROVE Quiet
  <2>1. CASE job[w] \in Pending
    <3>1. Settle({job[w]}, "failed") /\ "failed" \in States
          BY <1>6, <2>1 DEF MarkFailed, States
    <3>2. QED BY <1>6, <3>1, Settling DEF MarkFailed, Quiet
  <2>2. CASE job[w] \notin Pending
        BY <1>6, <2>2 DEF MarkFailed, Quiet
  <2> QED BY <2>1, <2>2
<1>7. ASSUME NEW i \in Ids, CancelEntrySchedule(i) PROVE Quiet
  <2>1. Settle({i}, "cancelled") /\ "cancelled" \in States
        BY <1>7 DEF CancelEntrySchedule, States
  <2>2. QED BY <1>7, <2>1, Settling DEF CancelEntrySchedule, Quiet
<1>8. ASSUME NEW i \in Ids, ComeDue(i) PROVE Quiet
      BY <1>8 DEF ComeDue, tables, Quiet
<1>9. CASE Detector
      BY <1>9 DEF Detector, AbortEditor, AbortSweeper, tables, Quiet
<1>10. ASSUME NEW holders \in SUBSET Bodies, NEW as \in [Bodies -> Bodies],
              RewriteEntries(holders, as)
       PROVE  Quiet
       BY <1>10 DEF RewriteEntries, Quiet
<1> QED BY <1>0, <1>1, <1>2, <1>3, <1>4, <1>5, <1>6, <1>7, <1>8, <1>9, <1>10, RewriteCases
        DEF Next, EditorStep, Requests, SweeperStep

(* The ledger and the schedules stay in step.                              *)
LEMMA LedgerStep == Inv /\ LedgerInv /\ [Next]_vars => LedgerInv'
<1> SUFFICES ASSUME TypeOK, LockInv, VersionInv, FreshInv, LedgerInv, [Next]_vars
             PROVE  LedgerInv'
    BY DEF Inv
<1>a. \A r \in ledger : r.via \in Ids \cup {None}
      BY DEF TypeOK
<1>b. \A i \in Ids : Move(i)
      BY ScheduleMoves
<1>c. None \notin Ids
      BY DEF None, Ids
<1>1. CASE Quiet
  <2>1. \A r \in ledger : r.via # None => Same(r.via) /\ sched'[r.via].state = "done"
    <3>1. SUFFICES ASSUME NEW r \in ledger, r.via # None
                   PROVE  Same(r.via) /\ sched'[r.via].state = "done"
          OBVIOUS
    <3>2. r.via \in Ids /\ sched[r.via].state = "done" /\ Move(r.via)
          BY <1>a, <1>b, <3>1 DEF LedgerInv
    <3>3. QED BY <1>1, <3>2 DEF Quiet, Move
  <2>2. \A i \in Ids : sched'[i].state = "done" => Same(i) /\ sched[i].state = "done"
        BY <1>1, <1>b DEF Quiet, Move, CreateEntrySchedule
  <2>3. QED BY <1>1, <2>1, <2>2 DEF LedgerInv, Quiet, Same
<1>2. ASSUME NEW p \in Editors, SetEntryStatus(p) PROVE LedgerInv'
  <2>1. Settle(marks[p] \cap ToClose(p), "superseded") /\ "superseded" \in States
        BY <1>2 DEF SetEntryStatus, States
  <2>2. ToClose(p) = Pending /\ approved' = approved
        BY <1>2 DEF SetEntryStatus, ToClose, Actions
  <2>3. \A i \in Ids : Same(i) /\ (sched'[i].state = "done" <=> sched[i].state = "done")
        BY <2>1, <2>2, Settling DEF Same, Pending
  <2>4. \/ ledger' = ledger
        \/ ledger' = ledger \cup {[via |-> None, ver |-> entry.ver + 1, body |-> entry.body]}
        BY <1>2 DEF SetEntryStatus, SetEntryPublishState
  <2>5. QED BY <1>a, <2>3, <2>4 DEF LedgerInv, Same
<1>3. ASSUME NEW p \in Editors, DeleteEntry(p) PROVE LedgerInv'
  <2>1. Settle(ToClose(p), "gone") /\ "gone" \in States /\ ledger' = {}
        BY <1>3 DEF DeleteEntry, States
  <2>2. \A i \in Ids : sched'[i].state # "done"
        BY <1>3, <2>1, Settling DEF ToClose, DeleteEntry, TypeOK
  <2>3. QED BY <2>1, <2>2 DEF LedgerInv
<1>4. ASSUME NEW w \in Sweepers, CommitExecute(w) PROVE LedgerInv'
  <2> DEFINE i == job[w]
             row == [via |-> i, ver |-> entry.ver + 1, body |-> entry.body]
  <2>1. i \in Ids /\ sched[i].state = "pending" /\ approved' = approved
        BY <1>4 DEF CommitExecute, LockInv
  <2>2. Settle({i}, "done") /\ "done" \in States
        BY <1>4 DEF CommitExecute, States
  <2>3. \A j \in Ids : /\ Same(j)
                      /\ sched'[j].state = IF j = i THEN "done" ELSE sched[j].state
        BY <2>1, <2>2, Settling DEF Same
  <2>4. \A r \in ledger : r.via # i
        BY <1>c, <2>1 DEF LedgerInv
  <2>5. sched[i].action = "publish" => approved[i] = entry.body /\ ledger' = ledger \cup {row}
    <3>1. SUFFICES ASSUME sched[i].action = "publish"
                   PROVE  approved[i] = entry.body /\ ledger' = ledger \cup {row}
          OBVIOUS
    <3>2. sched[i].pin = entry.ver
          BY <1>4, <3>1 DEF CommitExecute, FreshInv, Overtaken
    <3>3. QED BY <1>4, <2>1, <3>1, <3>2
              DEF CommitExecute, SetEntryPublishState, VersionInv
  <2>6. sched[i].action # "publish" => ledger' = ledger
        BY <1>4 DEF CommitExecute, SetEntryPublishState
  <2>7. row.via = i /\ row.body = entry.body
        OBVIOUS
  <2> HIDE DEF i, row
  <2>8. CASE sched[i].action = "publish"
        BY <1>a, <2>1, <2>3, <2>4, <2>5, <2>7, <2>8 DEF LedgerInv, Same
  <2>9. CASE sched[i].action # "publish"
        BY <1>a, <2>1, <2>3, <2>4, <2>6, <2>9 DEF LedgerInv, Same
  <2> QED BY <2>8, <2>9
<1> QED BY <1>1, <1>2, <1>3, <1>4, LedgerWriters

(* A notice, sent or about to be, stays true.                              *)
LEMMA NoticeStep == Inv /\ NoticeInv /\ [Next]_vars => NoticeInv'
<1> SUFFICES ASSUME TypeOK, LockInv, NoticeInv, [Next]_vars PROVE NoticeInv'
    BY DEF Inv
<1>a. ASSUME NEW i \in Ids, NEW k \in Outcomes, Told(i, k) PROVE Told(i, k)'
  <2>1. Move(i)
        BY ScheduleMoves
  <2>2. CASE sched'[i].state = sched[i].state \/ sched'[i].state = "gone"
        BY <1>a, <2>2 DEF Told
  <2>3. CASE sched[i].state \in {"unused", "pending"}
        BY <1>a, <2>3 DEF Told
  <2> QED BY <2>1, <2>2, <2>3 DEF Move
<1>b. /\ \A n \in notices : n[1] \in Ids /\ n[2] \in Outcomes
      /\ \A w \in Sweepers : pc[w] \in Outcomes => job[w] \in Ids
  <2>1. \A n \in notices : n[1] \in Ids /\ n[2] \in Outcomes
        BY DEF TypeOK
  <2>2. QED BY <2>1 DEF LockInv, Outcomes
<1> USE ReleaseAssumption DEF TypeOK, NoticeInv, Goto, Procs, Outcomes
<1>0. CASE UNCHANGED vars
      BY SMTT(30), <1>0, <1>a, <1>b DEF vars, tables, locks, local, bounds
<1>1. ASSUME NEW p \in Editors, NEW k \in Ops, NEW b \in Bodies, ReadForWrite(p, k, b)
      PROVE  NoticeInv'
      BY SMTT(30), <1>1, <1>a, <1>b DEF ReadForWrite, tables, locks
<1>2. ASSUME NEW p \in Editors, LockForWrite(p) PROVE NoticeInv'
  <2>1. UNCHANGED <<job, notices>> /\ \A u \in Sweepers : pc'[u] = pc[u]
        BY <1>2 DEF LockForWrite, RowMatches, tables, bounds
  <2>2. QED BY <1>a, <1>b, <2>1, SMTT(40)
<1>3. ASSUME NEW p \in Editors, WriteConflict(p) \/ RefuseSchedule(p)
      PROVE  NoticeInv'
  <2>1. UNCHANGED <<job, notices>> /\ \A u \in Sweepers : pc'[u] = pc[u]
        BY <1>3 DEF WriteConflict, RefuseSchedule
  <2>2. QED BY <1>a, <1>b, <2>1, SMTT(40)
<1>4. ASSUME NEW p \in Editors, SelectSchedules(p) PROVE NoticeInv'
      BY <1>4, <1>a, <1>b DEF SelectSchedules, tables, locks, bounds
<1>5. ASSUME NEW p \in Editors, UpdateEntry(p) PROVE NoticeInv'
      BY <1>5, <1>a, <1>b DEF UpdateEntry, FinishWrite
<1>6. ASSUME NEW p \in Editors, SetEntryStatus(p) PROVE NoticeInv'
      BY <1>6, <1>a, <1>b DEF SetEntryStatus, FinishWrite
<1>7. ASSUME NEW p \in Editors, DeleteEntry(p) PROVE NoticeInv'
      BY <1>7, <1>a, <1>b DEF DeleteEntry, FinishWrite
<1>8. ASSUME NEW p \in Editors, Rollback(p) PROVE NoticeInv'
      BY SMTT(30), <1>8, <1>a, <1>b DEF Rollback, tables, bounds
<1>9. ASSUME NEW holders \in SUBSET Bodies, NEW as \in [Bodies -> Bodies], RewriteEntries(holders, as)
      PROVE  NoticeInv'
      BY <1>9, <1>a, <1>b DEF RewriteEntries, locks, local
<1>10. ASSUME NEW p \in Editors, NEW a \in Actions, ReadForSchedule(p, a)
       PROVE  NoticeInv'
  <2>1. UNCHANGED <<job, notices>> /\ \A u \in Sweepers : pc'[u] = pc[u]
        BY <1>10 DEF ReadForSchedule, tables, locks
  <2>2. QED BY <1>a, <1>b, <2>1, SMTT(40)
<1>11. ASSUME NEW p \in Editors, NEW i \in Ids, CreateEntrySchedule(p, i)
       PROVE  NoticeInv'
  <2>1. UNCHANGED <<job, notices>> /\ \A u \in Sweepers : pc'[u] = pc[u]
        BY <1>11 DEF CreateEntrySchedule
  <2>2. QED BY <1>a, <1>b, <2>1
<1>12. ASSUME NEW i \in Ids, CancelEntrySchedule(i) PROVE NoticeInv'
      BY <1>12, <1>a, <1>b DEF CancelEntrySchedule, locks, local
<1>13. ASSUME NEW i \in Ids, ComeDue(i) PROVE NoticeInv'
      BY <1>13, <1>a, <1>b DEF ComeDue, tables, locks, local, bounds
<1>14. ASSUME NEW w \in Sweepers, NEW i \in Ids, ClaimDueEntrySchedule(w, i)
       PROVE  NoticeInv'
      BY <1>14, <1>a, <1>b DEF ClaimDueEntrySchedule, tables, bounds
<1>15. ASSUME NEW w \in Sweepers, ReadForExecute(w) PROVE NoticeInv'
      BY <1>15, <1>a, <1>b DEF ReadForExecute, tables, locks, bounds
<1>16. ASSUME NEW w \in Sweepers, FinishStale(w) PROVE NoticeInv'
  <2>1. Settle({job[w]}, "stale") /\ "stale" \in States
        BY <1>16 DEF FinishStale, States
  <2>2. job[w] \in Ids
        BY <1>16 DEF FinishStale, LockInv
  <2>3. sched'[job[w]].state = "stale"
        BY <2>1, <2>2, Settling
  <2>4. pc' = [pc EXCEPT ![w] = "stale"] /\ UNCHANGED <<job, notices>>
        BY <1>16 DEF FinishStale
  <2>5. \A i : sched'[i].state = "stale" => Told(i, "stale")'
        BY DEF Told
  <2>6. Told(job[w], "stale")'
        BY <2>3, <2>4 DEF Told
  <2>7. \A u \in Sweepers \ {w} : pc'[u] = pc[u]
        BY <2>4
  <2>8. pc'[w] = "stale"
        BY <2>4
  <2>9. QED BY <1>a, <1>b, <2>4, <2>6, <2>7, <2>8, SMTT(40)
<1>17. ASSUME NEW w \in Sweepers, LockForExecute(w) PROVE NoticeInv'
      BY <1>17, <1>a, <1>b DEF LockForExecute, tables, bounds
<1>18. ASSUME NEW w \in Sweepers, ExecuteConflict(w) PROVE NoticeInv'
      BY <1>18, <1>a, <1>b DEF ExecuteConflict, Unclaim, tables, bounds
<1>19. ASSUME NEW w \in Sweepers, CommitExecute(w) PROVE NoticeInv'
  <2>1. Settle({job[w]}, "done") /\ "done" \in States
        BY <1>19 DEF CommitExecute, States
  <2>2. job[w] \in Ids
        BY <1>19 DEF CommitExecute, LockInv
  <2>3. sched'[job[w]].state = "done"
        BY <2>1, <2>2, Settling
  <2>4. pc' = [pc EXCEPT ![w] = "succeeded"] /\ UNCHANGED <<job, notices>>
        BY <1>19 DEF CommitExecute
  <2>5. \A i : sched'[i].state = "done" => Told(i, "succeeded")'
        BY DEF Told
  <2>6. QED BY <1>a, <1>b, <2>2, <2>3, <2>4, <2>5
<1>20. ASSUME NEW w \in Sweepers, MarkFailed(w) PROVE NoticeInv'
  <2>1. job[w] \in Ids /\ UNCHANGED <<job, notices>>
        BY <1>20 DEF MarkFailed, LockInv
  <2>2. CASE job[w] \in Pending
    <3>1. Settle({job[w]}, "failed") /\ "failed" \in States
          BY <1>20, <2>2 DEF MarkFailed, States
    <3>2. sched'[job[w]].state = "failed"
          BY <2>1, <3>1, Settling
    <3>3. \A i : sched'[i].state = "failed" => Told(i, "failed")'
          BY DEF Told
    <3>4. pc' = [pc EXCEPT ![w] = "failed"]
          BY <1>20, <2>2 DEF MarkFailed
    <3>5. QED BY SMTT(30), <1>a, <1>b, <2>1, <3>2, <3>3, <3>4
  <2>3. CASE job[w] \notin Pending
    <3>1. pc' = [pc EXCEPT ![w] = "idle"]
          BY <1>20, <2>3 DEF MarkFailed
    <3>2. QED BY <1>a, <1>b, <2>1, <3>1
  <2> QED BY <2>2, <2>3
<1>21. ASSUME NEW w \in Sweepers, NotifyRequester(w) PROVE NoticeInv'
      BY <1>21, <1>a, <1>b DEF NotifyRequester, tables, locks, bounds
<1>22. ASSUME NEW w \in Sweepers, ExecuteError(w) \/ Crash(w) PROVE NoticeInv'
  <2>1. UNCHANGED <<job, notices>> /\ \A u \in Sweepers : u # w => pc'[u] = pc[u]
        BY <1>22 DEF ExecuteError, Crash, tables
  <2>2. pc'[w] \notin Outcomes
        BY <1>22 DEF ExecuteError, Crash
  <2>3. QED BY <1>a, <1>b, <2>1, <2>2, SMTT(40)
<1>23. ASSUME NEW p \in Editors, NEW w \in Sweepers, AbortEditor(p, w)
       PROVE  NoticeInv'
      BY <1>23, <1>a, <1>b DEF AbortEditor, Deadlocked, tables, bounds
<1>24. ASSUME NEW p \in Editors, NEW w \in Sweepers, AbortSweeper(p, w)
       PROVE  NoticeInv'
      BY <1>24, <1>a, <1>b DEF AbortSweeper, Deadlocked, Unclaim, tables, bounds
<1> QED BY <1>0, <1>1, <1>2, <1>3, <1>4, <1>5, <1>6, <1>7, <1>8, <1>9, <1>10, <1>11,
           <1>12, <1>13, <1>14, <1>15, <1>16, <1>17, <1>18, <1>19, <1>20, <1>21, <1>22, <1>23, <1>24, RewriteCases
        DEF Next, EditorStep, Requests, SweeperStep, Detector

(* The actions that write a schedule.                                      *)
LEMMA ScheduleWriters ==
  ASSUME [Next]_vars
  PROVE  \/ sched' = sched
         \/ \E p \in Editors, i \in Ids : CreateEntrySchedule(p, i)
         \/ \E p \in Editors : UpdateEntry(p) \/ SetEntryStatus(p) \/ DeleteEntry(p)
         \/ \E w \in Sweepers : FinishStale(w) \/ CommitExecute(w) \/ MarkFailed(w)
         \/ \E i \in Ids : CancelEntrySchedule(i)
<1> DEFINE Goal == sched' = sched
<1>0. CASE UNCHANGED vars
      BY <1>0 DEF vars, tables
<1>1. ASSUME NEW p \in Editors,
             \/ LockForWrite(p) \/ WriteConflict(p) \/ SelectSchedules(p) \/ RefuseSchedule(p)
             \/ Rollback(p)
             \/ (\E k \in Ops, b \in Bodies : ReadForWrite(p, k, b))
             \/ (\E a \in Actions : ReadForSchedule(p, a))
      PROVE  Goal
      BY <1>1 DEF LockForWrite, WriteConflict, SelectSchedules, RefuseSchedule, Rollback,
                  ReadForWrite, ReadForSchedule, tables
<1>2. ASSUME NEW w \in Sweepers,
             \/ (\E i \in Ids : ClaimDueEntrySchedule(w, i)) \/ ReadForExecute(w)
             \/ LockForExecute(w) \/ ExecuteConflict(w)
             \/ NotifyRequester(w) \/ ExecuteError(w) \/ Crash(w)
      PROVE  Goal
      BY <1>2 DEF ClaimDueEntrySchedule, ReadForExecute, LockForExecute, ExecuteConflict,
                  NotifyRequester, ExecuteError, Crash, tables
<1>3. ASSUME NEW i \in Ids, ComeDue(i) PROVE Goal
      BY <1>3 DEF ComeDue, tables
<1>4. CASE Detector
      BY <1>4 DEF Detector, AbortEditor, AbortSweeper, tables
<1>5. ASSUME NEW holders \in SUBSET Bodies, NEW as \in [Bodies -> Bodies],
             RewriteEntries(holders, as)
      PROVE  Goal
      BY <1>5 DEF RewriteEntries
<1> QED BY <1>0, <1>1, <1>2, <1>3, <1>4, <1>5, RewriteCases
        DEF Next, EditorStep, Requests, SweeperStep

(* Stale schedules were overtaken, and stay so.                            *)
LEMMA StaleStep ==
  Inv /\ StaleMeansOvertaken /\ [Next]_vars => StaleMeansOvertaken'
<1> SUFFICES ASSUME Inv, StaleMeansOvertaken, [Next]_vars,
                    NEW i \in Ids, sched'[i].state = "stale"
             PROVE  sched'[i].action = "publish" /\ sched'[i].pin < entry'.ver
    BY DEF StaleMeansOvertaken
<1> USE DEF Inv
<1>1. /\ entry.ver \in Nat /\ entry'.ver \in Nat /\ entry.ver <= entry'.ver
      /\ sched[i].pin \in Nat /\ \A p \in Procs : seen[p].ver \in Nat
      BY EntryAdvances DEF TypeOK, Rows
<1>2. CASE Same(i) /\ sched[i].state = "stale"
      BY <1>1, <1>2 DEF StaleMeansOvertaken, Same
<1>3. CASE Same(i) /\ sched[i].state = "pending"
  <2>1. ASSUME NEW p \in Editors, UpdateEntry(p)
        PROVE  sched[i].action = "publish" /\ sched[i].pin < entry'.ver
    <3>1. Settle(marks[p] \cap ToClose(p), "stale") /\ "stale" \in States
          BY <2>1 DEF UpdateEntry, States
    <3>2. i \in ToClose(p)
          BY <1>3, <3>1, Settling
    <3>3. op[p].kind = "update" /\ entry'.ver = entry.ver + 1
          BY <2>1 DEF UpdateEntry, Saved, TypeOK, Rows
    <3>4. QED BY <3>2, <3>3 DEF ToClose
  <2>2. ASSUME NEW w \in Sweepers, FinishStale(w)
        PROVE  sched[i].action = "publish" /\ sched[i].pin < entry'.ver
    <3>1. Settle({job[w]}, "stale") /\ "stale" \in States
          BY <2>2 DEF FinishStale, States
    <3>2. i = job[w]
          BY <1>3, <3>1, Settling
    <3>3. /\ sched[i].action = "publish" /\ seen[w].ver # sched[i].pin
          /\ sched[i].pin <= seen[w].ver /\ seen[w].ver <= entry.ver
          BY <2>2, <3>2 DEF FinishStale, Overtaken, FreshInv, VersionInv, SameCopy, Procs
    <3>4. w \in Procs
          BY DEF Procs
    <3>5. QED BY <1>1, <3>3, <3>4
  <2>3. ASSUME NEW p \in Editors, SetEntryStatus(p) \/ DeleteEntry(p) PROVE FALSE
        BY <2>3, <1>3, Settling DEF SetEntryStatus, DeleteEntry, States
  <2>4. ASSUME NEW w \in Sweepers, CommitExecute(w) \/ MarkFailed(w) PROVE FALSE
    <3>1. CASE CommitExecute(w)
          BY <3>1, <1>3, Settling DEF CommitExecute, States
    <3>2. CASE MarkFailed(w) /\ job[w] \in Pending
          BY <3>2, <1>3, Settling DEF MarkFailed, States
    <3>3. CASE MarkFailed(w) /\ job[w] \notin Pending
          BY <3>3, <1>3 DEF MarkFailed
    <3> QED BY <2>4, <3>1, <3>2, <3>3
  <2>5. ASSUME NEW j \in Ids, CancelEntrySchedule(j) PROVE FALSE
        BY <2>5, <1>3, Settling DEF CancelEntrySchedule, States
  <2>6. sched' # sched
        BY <1>3
  <2>7. ASSUME NEW p \in Editors, NEW j \in Ids, CreateEntrySchedule(p, j) PROVE FALSE
        BY <2>7, <1>3 DEF CreateEntrySchedule, NextId, TypeOK
  <2>8. QED BY <1>3, <2>7, <2>1, <2>2, <2>3, <2>4, <2>5, <2>6, ScheduleWriters DEF Same
<1>4. CASE sched[i].state = "unused" /\ \E p \in Editors : CreateEntrySchedule(p, i)
      BY <1>4 DEF CreateEntrySchedule, TypeOK
<1>5. Move(i)
      BY ScheduleMoves
<1> QED BY <1>2, <1>3, <1>4, <1>5 DEF Move

(* Every event has a key of its own.                                       *)
LEMMA EventStep == Inv /\ EventInv /\ [Next]_vars => EventInv'
<1> SUFFICES ASSUME Inv, EventInv, [Next]_vars PROVE EventInv'
    OBVIOUS
<1> USE DEF Inv
<1>1. /\ entry.ver \in Nat /\ entry'.ver \in Nat /\ entry.ver <= entry'.ver
      /\ entry \in Rows /\ \A e \in events : e[2] \in Nat
      BY EntryAdvances DEF TypeOK, Rows
<1>2. ASSUME NEW kind, NEW ver \in Nat, Emit(kind, ver), <<kind, ver>> \notin events
      PROVE  IsFiniteSet(events') /\ Cardinality(events') = emitted'
      BY <1>2, FS_AddElement DEF Emit, EventInv
<1>3. CASE UNCHANGED <<entry, events, emitted>>
      BY <1>3 DEF EventInv
<1>4. ASSUME NEW holders \in SUBSET Bodies, NEW as \in [Bodies -> Bodies],
             RewriteEntries(holders, as)
      PROVE  EventInv'
  <2>1. entry.live /\ UNCHANGED <<events, emitted>>
        BY <1>4 DEF RewriteEntries
  <2>2. QED BY <1>1, <2>1 DEF EventInv
<1>5. ASSUME NEW kind \in {"updated", "published", "draft"}, Emit(kind, entry.ver + 1),
             entry.live, entry'.ver = entry.ver + 1
      PROVE  EventInv'
  <2>1. \A e \in events : e[1] # "deleted" /\ e[2] <= entry.ver
        BY <1>5 DEF EventInv
  <2>2. <<kind, entry.ver + 1>> \notin events
        BY <1>1, <2>1
  <2>3. IsFiniteSet(events') /\ Cardinality(events') = emitted'
        BY <1>1, <1>2, <1>5, <2>2
  <2>4. \A e \in events' : e[1] # "deleted" /\ e[2] <= entry'.ver
        BY <1>1, <1>5, <2>1 DEF Emit
  <2>5. QED BY <2>3, <2>4 DEF EventInv
<1>6. ASSUME NEW p \in Editors, UpdateEntry(p) PROVE EventInv'
  <2>1. entry.live /\ entry'.ver = entry.ver + 1 /\ Emit("updated", entry.ver + 1)
        BY <1>1, <1>6 DEF UpdateEntry, FinishWrite, Saved, LockInv, EditorAt, FreshInv, Procs, Rows
  <2>2. QED BY <1>5, <2>1
<1>7. ASSUME NEW p \in Editors, SetEntryStatus(p) PROVE EventInv'
  <2>1. entry.live /\ entry'.ver = entry.ver + 1
        BY <1>1, <1>7 DEF SetEntryStatus, SetEntryPublishState, FinishWrite, Released, Retracted,
                          LockInv, EditorAt, FreshInv, Procs, Rows
  <2>2. Emit("published", entry.ver + 1) \/ Emit("draft", entry.ver + 1)
        BY <1>7 DEF SetEntryStatus, SetEntryPublishState
  <2>3. QED BY <1>5, <2>1, <2>2
<1>8. ASSUME NEW w \in Sweepers, CommitExecute(w) PROVE EventInv'
  <2>1. entry.live /\ entry'.ver = entry.ver + 1
        BY <1>1, <1>8 DEF CommitExecute, SetEntryPublishState, Released, Retracted,
                          LockInv, SweeperAt, FreshInv, Procs, Rows
  <2>2. Emit("published", entry.ver + 1) \/ Emit("draft", entry.ver + 1)
        BY <1>8 DEF CommitExecute, SetEntryPublishState
  <2>3. QED BY <1>5, <2>1, <2>2
<1>9. ASSUME NEW p \in Editors, DeleteEntry(p) PROVE EventInv'
  <2>1. entry.live /\ ~entry'.live /\ entry'.ver = entry.ver /\ Emit("deleted", 0)
        BY <1>1, <1>9 DEF DeleteEntry, FinishWrite, LockInv, EditorAt, FreshInv, Procs, Rows
  <2>2. <<"deleted", 0>> \notin events
        BY <2>1 DEF EventInv
  <2>3. IsFiniteSet(events') /\ Cardinality(events') = emitted'
        BY <1>2, <2>1, <2>2
  <2>4. QED BY <2>1, <2>3 DEF EventInv, Emit
<1> QED BY <1>3, <1>4, <1>6, <1>7, <1>8, <1>9, EntryWriters

-----------------------------------------------------------------------------
LEMMA InitInv ==
  Init => Inv /\ LedgerInv /\ NoticeInv /\ EventInv /\ StaleMeansOvertaken
<1> SUFFICES ASSUME Init PROVE Inv /\ LedgerInv /\ NoticeInv /\ EventInv /\ StaleMeansOvertaken
    OBVIOUS
<1> USE ReleaseAssumption DEF Init, Procs
<1>1. TypeOK
      BY DEF TypeOK, Rows, Statuses, States, Actions, Ops
<1>2. LockInv
      BY DEF LockInv, EditorAt, SweeperAt, Outcomes
<1>3. VersionInv /\ FreshInv
      BY DEF VersionInv, SameCopy, FreshInv
<1>4. LedgerInv /\ NoticeInv /\ StaleMeansOvertaken
      BY DEF LedgerInv, NoticeInv, StaleMeansOvertaken, Outcomes
<1>5. EventInv
      BY FS_EmptySet DEF EventInv
<1> QED BY <1>1, <1>2, <1>3, <1>4, <1>5 DEF Inv

(* The row, the locks and the versions are always consistent.              *)
THEOREM Consistent == Spec => []Inv
<1>1. Init => Inv
      BY InitInv
<1>2. Inv /\ [Next]_vars => Inv'
      BY TypeStep, LockStep, VersionStep, FreshStep DEF Inv
<1> QED BY <1>1, <1>2, PTL DEF Spec

(* Type correctness.                                                       *)
THEOREM TypeCorrect == Spec => []TypeOK
<1>1. Inv => TypeOK
      BY DEF Inv
<1> QED BY <1>1, Consistent, PTL

LEMMA LedgerCorrect == Spec => []LedgerInv
<1>1. Init => LedgerInv
      BY InitInv
<1>2. Inv /\ LedgerInv /\ [Next]_vars => LedgerInv'
      BY LedgerStep
<1> QED BY <1>1, <1>2, Consistent, PTL DEF Spec

(* What the scheduler releases is the body that was approved when the      *)
(* schedule was filed (the pinned version of ScheduleEntry and execute).   *)
THEOREM ApprovedOnly == Spec => []ReleaseIsApproved
<1>1. LedgerInv => ReleaseIsApproved
      BY DEF LedgerInv, ReleaseIsApproved
<1> QED BY <1>1, LedgerCorrect, PTL

(* A schedule releases at most once, and is done exactly when it has.      *)
THEOREM OneReleaseEach == Spec => []DoneMeansReleased
<1>1. TypeOK /\ LedgerInv => DoneMeansReleased
  <2> SUFFICES ASSUME TypeOK, LedgerInv, NEW i \in Ids
               PROVE  LET releases == {r \in ledger : r.via = i}
                      IN  /\ Cardinality(releases) <= 1
                          /\ releases # {} => sched[i].state = "done"
                          /\ sched[i].state = "done" /\ sched[i].action = "publish"
                               => releases # {}
      BY DEF DoneMeansReleased
  <2> DEFINE releases == {r \in ledger : r.via = i}
  <2>1. i # None
        BY DEF Ids, None
  <2>2. \A r, s \in releases : r = s
        BY <2>1 DEF LedgerInv
  <2>3. Cardinality(releases) <= 1
    <3>1. CASE releases = {}
          BY <3>1, FS_EmptySet
    <3>2. CASE releases # {}
      <4>1. PICK r \in releases : releases = {r}
            BY <2>2, <3>2
      <4>2. Cardinality({r}) = 1
            BY FS_Singleton
      <4>3. Cardinality(releases) = 1
            BY <4>1, <4>2
      <4> QED BY <4>3
    <3> QED BY <3>1, <3>2
  <2>4. releases # {} => sched[i].state = "done"
        BY <2>1 DEF LedgerInv
  <2>5. sched[i].state = "done" /\ sched[i].action = "publish" => releases # {}
        BY DEF LedgerInv
  <2> QED BY <2>3, <2>4, <2>5
<1> QED BY <1>1, LedgerCorrect, TypeCorrect, PTL

(* A stale schedule is a publish whose version the entry has left.         *)
THEOREM StaleIsOvertaken == Spec => []StaleMeansOvertaken
<1>1. Init => StaleMeansOvertaken
      BY InitInv
<1>2. Inv /\ StaleMeansOvertaken /\ [Next]_vars => StaleMeansOvertaken'
      BY StaleStep
<1> QED BY <1>1, <1>2, Consistent, PTL DEF Spec

(* No two events of the entry share an idempotency key.                    *)
THEOREM KeysAreUnique == Spec => []OneEventPerWrite
<1>1. Init => EventInv
      BY InitInv
<1>2. Inv /\ EventInv /\ [Next]_vars => EventInv'
      BY EventStep
<1>3. EventInv => OneEventPerWrite
      BY DEF EventInv, OneEventPerWrite
<1> QED BY <1>1, <1>2, <1>3, Consistent, PTL DEF Spec

(* A requester is told the truth, and it stays true.                       *)
THEOREM NoticesAreTrue == Spec => []NoticeIsTrue
<1>1. Init => NoticeInv
      BY InitInv
<1>2. Inv /\ NoticeInv /\ [Next]_vars => NoticeInv'
      BY NoticeStep
<1>3. NoticeInv => NoticeIsTrue
      BY DEF NoticeInv, NoticeIsTrue, Told
<1> QED BY <1>1, <1>2, <1>3, Consistent, PTL DEF Spec

(* A closed schedule stays closed until the entry is deleted.              *)
THEOREM ClosedStaysClosed == Spec => TerminalIsFinal
<1>1. Inv /\ [Next]_vars =>
        [\A i \in Ids : sched[i].state \in Terminal =>
           sched'[i].state \in {sched[i].state, "gone"}]_vars
  <2> SUFFICES ASSUME Inv, [Next]_vars, NEW i \in Ids, sched[i].state \in Terminal
               PROVE  sched'[i].state \in {sched[i].state, "gone"}
      OBVIOUS
  <2>1. Move(i)
        BY ScheduleMoves DEF Inv
  <2>2. QED BY <2>1 DEF Move, Terminal
<1> QED BY <1>1, Consistent, PTL DEF Spec, TerminalIsFinal

(* A write lands on the working copy its author read.                      *)
THEOREM WritesAreNotLost == Spec => NoLostUpdate
<1>1. Inv /\ [Next]_vars =>
        [\A p \in Procs :
           /\ pc[p] \in {"mark", "commit"} /\ pc'[p] # pc[p] /\ entry'.ver # entry.ver
           => seen[p].body = entry.body /\ seen[p].status = entry.status]_vars
  <2> SUFFICES ASSUME Inv, [Next]_vars, NEW p \in Procs,
                      pc[p] \in {"mark", "commit"}, pc'[p] # pc[p], entry'.ver # entry.ver
               PROVE  seen[p].ver = entry.ver
      BY DEF Inv, VersionInv, SameCopy
  <2> USE DEF Inv
  <2>1. CASE p \in Sweepers
        BY <2>1, ReleaseAssumption DEF LockInv, FreshInv, Outcomes
  <2>2. CASE p \in Editors /\ op[p].kind # "delete"
        BY <2>2, ReleaseAssumption DEF LockInv, FreshInv
  <2>3. CASE p \in Editors /\ op[p].kind = "delete"
    <3>1. pc[p] = "mark" /\ lockE = p
          BY <2>3 DEF LockInv, EditorAt
    <3>2. ASSUME NEW q \in Editors, UpdateEntry(q) \/ SetEntryStatus(q) PROVE FALSE
      <4>1. lockE = q
            BY <3>2 DEF UpdateEntry, SetEntryStatus, FinishWrite, LockInv, EditorAt, Procs
      <4>2. QED BY <2>3, <3>1, <3>2, <4>1 DEF UpdateEntry, SetEntryStatus, Actions
    <3>3. ASSUME NEW q \in Editors, DeleteEntry(q) PROVE FALSE
          BY <3>3 DEF DeleteEntry, TypeOK, Rows
    <3>4. ASSUME NEW w \in Sweepers, CommitExecute(w) PROVE FALSE
      <4>1. lockE = w
            BY <3>4 DEF CommitExecute, LockInv, SweeperAt, Procs
      <4>2. QED BY <2>3, <3>1, <4>1, ReleaseAssumption
    <3>5. ASSUME NEW holders \in SUBSET Bodies, NEW as \in [Bodies -> Bodies],
                 RewriteEntries(holders, as)
          PROVE  FALSE
          BY <3>1, <3>5, ReleaseAssumption DEF RewriteEntries, Procs
    <3> QED BY <3>2, <3>3, <3>4, <3>5, EntryWriters
  <2> QED BY <2>1, <2>2, <2>3 DEF Procs
<1> QED BY <1>1, Consistent, PTL DEF Spec, NoLostUpdate

(* What the runs check of the schedules, for any number of replicas,        *)
(* editors and bodies (scheduler/worker.go execute, failSchedule).          *)
THEOREM SchedulesAreSound == Spec => []SchedulesSound
BY TypeCorrect, ApprovedOnly, OneReleaseEach, StaleIsOvertaken, NoticesAreTrue, KeysAreUnique, PTL
   DEF SchedulesSound

(* A release carries a version the entry has had.                          *)
PastInv == \A r \in ledger : r.ver <= entry.ver

LEMMA PastStep == Inv /\ PastInv /\ [Next]_vars => PastInv'
<1> SUFFICES ASSUME Inv, PastInv, [Next]_vars, NEW r \in ledger' PROVE r.ver <= entry'.ver
    BY DEF PastInv
<1>1. TypeOK /\ LockInv
      BY DEF Inv
<1>2. /\ entry \in Rows /\ entry.ver \in Nat /\ entry'.ver \in Nat /\ entry.ver <= entry'.ver
      /\ \A s \in ledger : s.ver \in Nat
      BY <1>1, EntryAdvances DEF TypeOK
<1>3. CASE r \in ledger
      BY <1>2, <1>3 DEF PastInv
<1>4. ASSUME NEW action, NEW via, SetEntryPublishState(action, via), r \notin ledger
      PROVE  r.ver <= entry'.ver
  <2>1. r.ver = entry.ver + 1 /\ action = "publish"
        BY <1>4 DEF SetEntryPublishState
  <2>2. entry'.ver = entry.ver + 1
        BY <1>2, <1>4, <2>1 DEF SetEntryPublishState, Released, Rows
  <2> QED BY <1>2, <2>1, <2>2
<1>5. CASE r \notin ledger
  <2>1. ~Quiet
        BY <1>5 DEF Quiet
  <2>2. ASSUME NEW p \in Editors, SetEntryStatus(p) PROVE r.ver <= entry'.ver
        BY <1>4, <1>5, <2>2 DEF SetEntryStatus
  <2>3. ASSUME NEW p \in Editors, DeleteEntry(p) PROVE FALSE
        BY <2>3 DEF DeleteEntry
  <2>4. ASSUME NEW w \in Sweepers, CommitExecute(w) PROVE r.ver <= entry'.ver
        BY <1>4, <1>5, <2>4 DEF CommitExecute
  <2> QED BY <1>1, <2>1, <2>2, <2>3, <2>4, LedgerWriters
<1> QED BY <1>3, <1>5

(* What delivery shows moves only with a release on record, by whoever and *)
(* in whatever order (SetEntryPublishState, recordPublishRevision).        *)
THEOREM ShelfIsRecorded == Spec => ShelfFollowsLedger
<1>1. Init => PastInv
      BY DEF Init, PastInv
<1>2. Inv /\ PastInv /\ [Next]_vars =>
        [entry'.snap # entry.snap /\ pc' # pc =>
           \E r \in ledger' \ ledger : r.body = entry'.snap /\ r.ver = entry'.snapVer]_vars
  <2> DEFINE Goal == \E r \in ledger' \ ledger : r.body = entry'.snap /\ r.ver = entry'.snapVer
  <2> SUFFICES ASSUME Inv, PastInv, [Next]_vars, entry'.snap # entry.snap, pc' # pc PROVE Goal
      OBVIOUS
  <2>1. entry \in Rows /\ entry.ver \in Nat
        BY DEF Inv, TypeOK, Rows
  <2>2. ASSUME NEW action, NEW via, SetEntryPublishState(action, via) PROVE Goal
    <3>1. CASE action = "publish"
      <4> DEFINE r == [via |-> via, ver |-> entry.ver + 1, body |-> entry.body]
      <4>1. r \in ledger' /\ entry' = Released(entry)
            BY <2>2, <3>1 DEF SetEntryPublishState
      <4>2. r \notin ledger
            BY <2>1 DEF PastInv
      <4>3. r.body = entry'.snap /\ r.ver = entry'.snapVer
            BY <2>1, <4>1 DEF Released, Rows
      <4> QED BY <4>1, <4>2, <4>3
    <3>2. CASE action # "publish"
      <4>1. entry'.snap = entry.snap
            BY <2>1, <2>2, <3>2 DEF SetEntryPublishState, Retracted, Rows
      <4> QED BY <4>1
    <3> QED BY <3>1, <3>2
  <2>3. ASSUME NEW p \in Editors, UpdateEntry(p) PROVE FALSE
        BY <2>1, <2>3 DEF UpdateEntry, Saved, Rows
  <2>4. ASSUME NEW p \in Editors, SetEntryStatus(p) PROVE Goal
        BY <2>2, <2>4 DEF SetEntryStatus
  <2>5. ASSUME NEW p \in Editors, DeleteEntry(p) PROVE FALSE
        BY <2>1, <2>5 DEF DeleteEntry, Rows
  <2>6. ASSUME NEW w \in Sweepers, CommitExecute(w) PROVE Goal
        BY <2>2, <2>6 DEF CommitExecute
  <2>7. ASSUME NEW holders \in SUBSET Bodies, NEW as \in [Bodies -> Bodies],
               RewriteEntries(holders, as)
        PROVE  FALSE
        BY <2>7 DEF RewriteEntries, local
  <2> QED BY <2>3, <2>4, <2>5, <2>6, <2>7, EntryWriters
<1>3. Inv /\ PastInv /\ [Next]_vars => PastInv'
      BY PastStep
<1> QED BY <1>1, <1>2, <1>3, Consistent, PTL DEF Spec, ShelfFollowsLedger


-----------------------------------------------------------------------------
(* What settling schedules looks like from outside: their fates change,    *)
(* what they are to do does not, and an entry that has moved on leaves no  *)
(* pending schedule intact.                                                *)
LEMMA SettledFates ==
  ASSUME Inv, NEW ids \in SUBSET Ids, NEW state \in States, state # "pending",
         Settle(ids, state), entry'.ver \in {entry.ver, entry.ver + 1}
  PROVE  /\ [i \in Ids |-> sched'[i].state] = Promise!Closed(ids, state)
         /\ [i \in Ids |-> sched'[i].action] = [i \in Ids |-> sched[i].action]
         /\ entry'.ver = entry.ver => Intact' = Intact \ ids
         /\ entry'.ver = entry.ver + 1 => Intact' = {}
<1>1. \A i \in Ids : /\ sched'[i].action = sched[i].action
                     /\ sched'[i].pin = sched[i].pin
                     /\ sched'[i].state = IF i \in ids THEN state ELSE sched[i].state
      BY Settling DEF Inv
<1>2. [i \in Ids |-> sched'[i].state] = Promise!Closed(ids, state)
      BY <1>1 DEF Promise!Closed
<1>3. [i \in Ids |-> sched'[i].action] = [i \in Ids |-> sched[i].action]
      BY <1>1
<1>4. entry'.ver = entry.ver => Intact' = Intact \ ids
      BY <1>1 DEF Intact, Pending
<1>5. ASSUME entry'.ver = entry.ver + 1, NEW i \in Intact' PROVE FALSE
  <2>1. i \in Ids /\ sched'[i].state = "pending" /\ sched'[i].action = "publish"
        /\ sched'[i].pin = entry'.ver
        BY <1>5 DEF Intact, Pending
  <2>2. sched[i].state = "pending" /\ sched[i].action = "publish" /\ sched[i].pin = entry'.ver
        BY <1>1, <2>1
  <2>3. sched[i].pin <= entry.ver /\ entry.ver \in Nat
        BY <2>1, <2>2 DEF Inv, VersionInv, TypeOK, Rows
  <2> QED BY <1>5, <2>2, <2>3
<1> QED BY <1>2, <1>3, <1>4, <1>5

(* Whoever commits a write holds the entry, and it is there.               *)
LEMMA WritersHold ==
  ASSUME Inv
  PROVE  /\ \A p \in Editors : pc[p] = "mark" => entry.live
         /\ \A w \in Sweepers : pc[w] = "commit" => entry.live
<1>1. ASSUME NEW p \in Editors, pc[p] = "mark" PROVE entry.live
  <2>1. lockE = p /\ p \in Procs
        BY <1>1 DEF Inv, LockInv, EditorAt, Procs
  <2> QED BY <2>1 DEF Inv, FreshInv
<1>2. ASSUME NEW w \in Sweepers, pc[w] = "commit" PROVE entry.live
  <2>1. lockE = w /\ w \in Procs
        BY <1>2 DEF Inv, LockInv, SweeperAt, Procs
  <2> QED BY <2>1 DEF Inv, FreshInv
<1> QED BY <1>1, <1>2

(* Outside, a release or a retraction is Show or Hide.                     *)
LEMMA ShelfWrites ==
  ASSUME Inv, NEW action \in Actions, NEW via, SetEntryPublishState(action, via)
  PROVE  /\ entry'.live = entry.live /\ entry'.body = entry.body
         /\ entry'.ver = entry.ver + 1
         /\ action = "publish" => Promise!Show(entry.body)
         /\ action = "unpublish" => Promise!Hide
<1>1. entry \in Rows
      BY DEF Inv, TypeOK
<1>2. CASE action = "publish"
  <2>1. entry' = Released(entry)
        BY <1>2 DEF SetEntryPublishState
  <2> QED BY <1>1, <1>2, <2>1 DEF Released, Rows, Published, Promise!Show
<1>3. CASE action = "unpublish"
  <2>1. entry' = Retracted(entry)
        BY <1>3 DEF SetEntryPublishState
  <2> QED BY <1>1, <1>3, <2>1 DEF Retracted, Rows, Published, Promise!Hide
<1> QED BY <1>2, <1>3 DEF Actions

(* Every action maps to a step of the promise or to none of its steps.     *)
LEMMA SaveStep ==
  ASSUME Inv, NEW p \in Editors, UpdateEntry(p)
  PROVE  Promise!Next
<1>1. /\ entry \in Rows /\ op[p].body \in Bodies
      /\ marks[p] \cap ToClose(p) \in SUBSET Ids
  <2>1. entry \in Rows /\ op[p] \in [kind : Ops \cup Actions, body : Bodies]
        /\ marks[p] \in SUBSET Ids
        BY DEF Inv, TypeOK, Procs
  <2> QED BY <2>1
<1>2. PICK S \in SUBSET Ids, b \in Bodies :
        S = marks[p] \cap ToClose(p) /\ b = op[p].body
      BY <1>1
<1>3. S \subseteq {i \in Promise!Open : [j \in Ids |-> sched[j].action][i] = "publish"}
      BY <1>2 DEF UpdateEntry, ToClose, Pending, Promise!Open
<1>4. /\ entry'.live = entry.live /\ entry'.body = b /\ entry'.snap = entry.snap
      /\ entry'.status = entry.status /\ entry'.ver = entry.ver + 1
      BY <1>1, <1>2 DEF UpdateEntry, Saved, Rows
<1>5. Settle(S, "stale") /\ "stale" \in States
      BY <1>2 DEF UpdateEntry, States
<1>6. /\ [i \in Ids |-> sched'[i].state] = Promise!Closed(S, "stale")
      /\ [i \in Ids |-> sched'[i].action] = [i \in Ids |-> sched[i].action]
      /\ Intact' = {}
      BY <1>4, <1>5, SettledFates
<1>7. entry.live /\ UNCHANGED <<approved, notices>>
      BY WritersHold DEF UpdateEntry, FinishWrite
<1>8. Promise!Save(b, S)
      BY <1>3, <1>4, <1>6, <1>7 DEF Promise!Save, Published
<1> QED BY <1>8 DEF Promise!Next

LEMMA DecideStep ==
  ASSUME Inv, NEW p \in Editors, SetEntryStatus(p)
  PROVE  Promise!Next
<1>1. PICK action \in Actions : action = op[p].kind /\ SetEntryPublishState(action, None)
      BY DEF SetEntryStatus
<1>2. ToClose(p) = Pending
      BY <1>1 DEF Actions, ToClose
<1>3. PICK S \in SUBSET Ids : S = marks[p] \cap Pending
      BY DEF Pending
<1>4. S \subseteq Promise!Open
      BY <1>3 DEF Pending, Promise!Open
<1>5. /\ entry'.live = entry.live /\ entry'.body = entry.body /\ entry'.ver = entry.ver + 1
      /\ Promise!Show(entry.body) \/ Promise!Hide
      BY <1>1, ShelfWrites DEF Actions
<1>6. Settle(S, "superseded") /\ "superseded" \in States
      BY <1>2, <1>3 DEF SetEntryStatus, States
<1>7. /\ [i \in Ids |-> sched'[i].state] = Promise!Closed(S, "superseded")
      /\ [i \in Ids |-> sched'[i].action] = [i \in Ids |-> sched[i].action]
      /\ Intact' = {}
      BY <1>5, <1>6, SettledFates
<1>8. entry.live /\ UNCHANGED <<approved, notices>>
      BY WritersHold DEF SetEntryStatus, FinishWrite
<1>9. Promise!Decide(S)
      BY <1>4, <1>5, <1>7, <1>8 DEF Promise!Decide
<1> QED BY <1>9 DEF Promise!Next

LEMMA RemoveStep ==
  ASSUME Inv, NEW p \in Editors, DeleteEntry(p)
  PROVE  Promise!Next
<1>1. PICK S \in SUBSET Ids : S = {i \in Ids : sched[i].state # "unused"}
      OBVIOUS
<1>2. ToClose(p) = S
      BY <1>1 DEF DeleteEntry, ToClose
<1>3. Settle(S, "gone") /\ "gone" \in States
      BY <1>2 DEF DeleteEntry, States
<1>4. /\ entry'.live = FALSE /\ entry'.body = entry.body /\ entry'.snap = entry.snap
      /\ entry'.status = entry.status /\ entry'.ver = entry.ver
      BY DEF DeleteEntry, Inv, TypeOK, Rows
<1>5. /\ [i \in Ids |-> sched'[i].state] = Promise!Closed(S, "gone")
      /\ [i \in Ids |-> sched'[i].action] = [i \in Ids |-> sched[i].action]
      /\ Intact' = Intact \ S
      BY <1>3, <1>4, SettledFates
<1>6. Intact \ S = {}
      BY <1>1 DEF Intact, Pending
<1>7. entry.live /\ UNCHANGED <<approved, notices>>
      BY WritersHold DEF DeleteEntry, FinishWrite
<1>8. {i \in Ids : [j \in Ids |-> sched[j].state][i] # "unused"} = S
      BY <1>1
<1>9. Promise!Remove
      BY <1>4, <1>5, <1>6, <1>7, <1>8 DEF Promise!Remove, Published
<1> QED BY <1>9 DEF Promise!Next

LEMMA RewriteStep ==
  ASSUME Inv, NEW holders \in SUBSET Bodies, NEW as \in [Bodies -> Bodies],
         RewriteEntries(holders, as)
  PROVE  Promise!Next
<1>1. PICK all \in [Bodies -> Bodies] : all = [b \in Bodies |-> IF b \in holders THEN as[b] ELSE b]
      OBVIOUS
<1>2. entry \in Rows /\ entry.body \in Bodies /\ entry.ver \in Nat
      /\ entry.snap \in Bodies \cup {NoBody}
      BY DEF Inv, TypeOK, Rows
<1>3. entry' = Rewritten(entry, holders, as)
      BY DEF RewriteEntries
<1>4. /\ entry'.live = entry.live /\ entry'.status = entry.status
      /\ entry'.body = IF entry.body \in holders THEN as[entry.body] ELSE entry.body
      /\ entry'.ver = IF entry.body \in holders THEN entry.ver + 1 ELSE entry.ver
      /\ entry'.snap = IF entry.snap \in holders THEN as[entry.snap] ELSE entry.snap
      BY <1>2, <1>3 DEF Rewritten, Rows
<1>5. entry'.body = all[entry.body]
      BY <1>1, <1>2, <1>4
<1>6. entry'.snap = IF entry.snap = NoBody THEN NoBody ELSE all[entry.snap]
      BY <1>1, <1>2, <1>4, ReleaseAssumption
<1>7. entry.live /\ UNCHANGED <<sched, approved, notices>>
      BY DEF RewriteEntries
<1>8. Intact' = {} \/ (entry'.body = entry.body /\ Intact' = Intact)
  <2>1. CASE entry.body \in holders
    <3>1. entry'.ver = entry.ver + 1
          BY <1>4, <2>1
    <3>2. ASSUME NEW i \in Intact' PROVE FALSE
      <4>1. sched[i].pin = entry.ver + 1 /\ sched[i].pin <= entry.ver
            BY <1>7, <3>1, <3>2 DEF Intact, Pending, Inv, VersionInv
      <4> QED BY <1>2, <4>1
    <3> QED BY <3>2
  <2>2. CASE entry.body \notin holders
        BY <1>4, <1>7, <2>2 DEF Intact, Pending
  <2> QED BY <2>1, <2>2
<1>9. Promise!Rewrite(all)
      BY <1>4, <1>5, <1>6, <1>7, <1>8 DEF Promise!Rewrite, Published
<1> QED BY <1>9 DEF Promise!Next

LEMMA FileStep ==
  ASSUME Inv, NEW p \in Editors, NEW i \in Ids, CreateEntrySchedule(p, i)
  PROVE  Promise!Next
<1>1. op[p].kind \in Actions /\ seen[p].body \in Bodies /\ SameCopy(seen[p])
  <2>1. p \in Procs /\ pc[p] = "file"
        BY DEF CreateEntrySchedule, Procs
  <2> QED BY <2>1 DEF Inv, LockInv, VersionInv, TypeOK, Rows
<1>2. PICK action \in Actions, b \in Bodies : action = op[p].kind /\ b = seen[p].body
      BY <1>1
<1>3. /\ sched \in [Ids -> [state : States, action : Actions, pin : Nat]]
      /\ approved \in [Ids -> Bodies \cup {NoBody}]
      BY DEF Inv, TypeOK
<1>4. PICK pin : /\ sched' = [sched EXCEPT ![i] = [state |-> "pending", action |-> action, pin |-> pin]]
                 /\ action = "publish" => pin = seen[p].ver
      BY <1>2 DEF CreateEntrySchedule, PinnedVersionFor
<1>5. /\ [j \in Ids |-> sched'[j].state]
           = [[j \in Ids |-> sched[j].state] EXCEPT ![i] = "pending"]
      /\ [j \in Ids |-> sched'[j].action]
           = [[j \in Ids |-> sched[j].action] EXCEPT ![i] = action]
      BY <1>3, <1>4
<1>6. approved' = [approved EXCEPT ![i] = b] /\ entry.live /\ UNCHANGED <<entry, notices>>
      BY <1>2 DEF CreateEntrySchedule
<1>7. Promise!Open = {} /\ sched[i].state = "unused"
      BY DEF CreateEntrySchedule, NextId, Pending, Promise!Open
<1>8. Intact' = {} \/ (action = "publish" /\ b = entry.body /\ Intact' = {i})
  <2>1. \A j \in Ids : sched[j].state # "pending"
        BY DEF CreateEntrySchedule, Pending
  <2>2. Intact' \subseteq {i}
        BY <1>3, <1>4, <2>1 DEF Intact, Pending
  <2>3. i \in Intact' => action = "publish" /\ pin = entry.ver
        BY <1>3, <1>4, <1>6 DEF Intact, Pending
  <2>4. i \in Intact' => action = "publish" /\ b = entry.body
        BY <1>1, <1>2, <1>4, <2>3 DEF SameCopy
  <2> QED BY <2>2, <2>4
<1>9. Promise!File(i, action, b)
      BY <1>5, <1>6, <1>7, <1>8 DEF Promise!File
<1> QED BY <1>9 DEF Promise!Next, Actions

(* A schedule ends alone, without the entry's being touched.               *)
LEMMA DropStep ==
  ASSUME Inv, NEW i \in Pending, NEW state \in {"stale", "cancelled", "failed"},
         Settle({i}, state), UNCHANGED <<entry, approved, notices>>,
         state = "stale" => sched[i].action = "publish" /\ sched[i].pin # entry.ver
  PROVE  Promise!Next
<1>1. i \in Ids /\ {i} \in SUBSET Ids /\ state \in States /\ state # "pending"
      BY DEF Pending, States
<1>2. entry'.ver = entry.ver
      OBVIOUS
<1>3. /\ [j \in Ids |-> sched'[j].state] = Promise!Closed({i}, state)
      /\ [j \in Ids |-> sched'[j].action] = [j \in Ids |-> sched[j].action]
      /\ Intact' = Intact \ {i}
      BY <1>1, <1>2, SettledFates
<1>4. i \in Promise!Open
      BY DEF Pending, Promise!Open
<1>5. state = "stale" => [j \in Ids |-> sched[j].action][i] = "publish" /\ i \notin Intact
      BY <1>1 DEF Intact
<1>6. Promise!Drop(i)
      BY <1>3, <1>4, <1>5 DEF Promise!Drop
<1> QED BY <1>1, <1>6 DEF Promise!Next

LEMMA StaleDrop ==
  ASSUME Inv, NEW w \in Sweepers, FinishStale(w)
  PROVE  Promise!Next
<1>1. PICK i \in Ids : i = job[w] /\ sched[i].state = "pending"
      BY DEF FinishStale, Inv, LockInv
<1>2. sched[i].action = "publish" /\ seen[w].ver # sched[i].pin /\ sched[i].pin <= seen[w].ver
      BY <1>1 DEF FinishStale, Overtaken, Inv, FreshInv
<1>3. seen[w].ver <= entry.ver /\ w \in Procs
      BY DEF Inv, VersionInv, SameCopy, Procs
<1>4. sched[i].pin \in Nat /\ seen[w].ver \in Nat /\ entry.ver \in Nat
      BY <1>3 DEF Inv, TypeOK, Rows
<1>5. sched[i].pin # entry.ver
      BY <1>2, <1>3, <1>4
<1>6. i \in Pending /\ Settle({i}, "stale") /\ UNCHANGED <<entry, approved, notices>>
      BY <1>1 DEF FinishStale, Pending
<1> QED BY <1>2, <1>5, <1>6, DropStep

LEMMA FireStep ==
  ASSUME Inv, NEW w \in Sweepers, CommitExecute(w)
  PROVE  Promise!Next
<1>1. PICK i \in Ids : i = job[w] /\ sched[i].state = "pending"
      BY DEF CommitExecute, Inv, LockInv
<1>2. PICK action \in Actions : action = sched[i].action
      BY DEF Inv, TypeOK
<1>3. SetEntryPublishState(action, i) /\ Settle({i}, "done") /\ UNCHANGED <<approved, notices>>
      BY <1>1, <1>2 DEF CommitExecute
<1>4. action = "publish" => sched[i].pin = entry.ver /\ approved[i] = entry.body
      BY <1>1, <1>2 DEF CommitExecute, Inv, FreshInv, VersionInv, Overtaken
<1>5. /\ entry'.live = entry.live /\ entry'.body = entry.body
      /\ entry'.ver = entry.ver + 1
      /\ action = "publish" => Promise!Show(entry.body)
      /\ action = "unpublish" => Promise!Hide
      BY <1>3, ShelfWrites
<1>6. {i} \in SUBSET Ids /\ "done" \in States
      BY DEF States
<1>7. /\ [j \in Ids |-> sched'[j].state] = Promise!Closed({i}, "done")
      /\ [j \in Ids |-> sched'[j].action] = [j \in Ids |-> sched[j].action]
      /\ Intact' = {}
      BY <1>3, <1>5, <1>6, SettledFates
<1>8. entry.live
      BY WritersHold DEF CommitExecute
<1>9. i \in Promise!Open
      BY <1>1 DEF Promise!Open
<1>10. IF [j \in Ids |-> sched[j].action][i] = "publish"
       THEN i \in Intact /\ Promise!Show(approved[i]) ELSE Promise!Hide
  <2>1. CASE action = "publish"
    <3>1. i \in Intact /\ Promise!Show(approved[i])
          BY <1>1, <1>2, <1>4, <1>5, <2>1 DEF Intact, Pending
    <3> QED BY <1>2, <2>1, <3>1
  <2>2. CASE action = "unpublish"
        BY <1>2, <1>5, <2>2
  <2> QED BY <2>1, <2>2 DEF Actions
<1>11. Promise!Fire(i)
      BY <1>3, <1>5, <1>7, <1>8, <1>9, <1>10 DEF Promise!Fire
<1> QED BY <1>11 DEF Promise!Next

LEMMA TellStep ==
  ASSUME Inv, NoticeInv, NEW w \in Sweepers, NotifyRequester(w)
  PROVE  Promise!Next
<1>1. pc[w] \in Outcomes /\ job[w] \in Ids
      BY DEF NotifyRequester, Inv, LockInv, Outcomes
<1>2. PICK i \in Ids, kind \in Outcomes : i = job[w] /\ kind = pc[w]
      BY <1>1
<1>3. Told(i, kind)
      BY <1>2 DEF NoticeInv
<1>4. sched[i].state \in {Promise!Recorded[kind], "gone"} /\ kind \in DOMAIN Promise!Recorded
      BY <1>3 DEF Told, Promise!Recorded, Outcomes
<1>5. notices' = notices \cup {<<i, kind>>} /\ UNCHANGED <<entry, sched, approved>>
      BY <1>2 DEF NotifyRequester, tables
<1>6. Promise!Tell(i, kind)
      BY <1>4, <1>5 DEF Promise!Tell, Intact, Pending
<1> QED BY <1>4, <1>6 DEF Promise!Next

(* What no editor, requester or delivery can tell is no step of the promise. *)
LEMMA SilentStep ==
  ASSUME Inv, NoticeInv, [Next]_vars, UNCHANGED <<entry, sched>>
  PROVE  Promise!Next \/ UNCHANGED Promise!vars
<1> DEFINE Goal == UNCHANGED <<approved, notices>>
<1>1. CASE Goal
  <2>1. Intact' = Intact
        BY DEF Intact, Pending
  <2> QED BY <1>1, <2>1 DEF Promise!vars, Published
<1>2. ASSUME UNCHANGED vars PROVE Goal
      BY <1>2 DEF vars, tables
<1>3. ASSUME NEW p \in Editors,
             \/ LockForWrite(p) \/ WriteConflict(p) \/ SelectSchedules(p) \/ RefuseSchedule(p)
             \/ Rollback(p) \/ (\E k \in Ops, b \in Bodies : ReadForWrite(p, k, b))
             \/ (\E a \in Actions : ReadForSchedule(p, a))
      PROVE  Goal
      BY <1>3 DEF LockForWrite, WriteConflict, SelectSchedules, RefuseSchedule, Rollback,
                  ReadForWrite, ReadForSchedule, tables
<1>4. ASSUME NEW p \in Editors,
             \/ UpdateEntry(p) \/ SetEntryStatus(p) \/ DeleteEntry(p)
             \/ (\E i \in Ids : CreateEntrySchedule(p, i))
      PROVE  Promise!Next
      BY <1>4, SaveStep, DecideStep, RemoveStep, FileStep
<1>5. ASSUME NEW w \in Sweepers,
             \/ (\E i \in Ids : ClaimDueEntrySchedule(w, i)) \/ ReadForExecute(w)
             \/ FinishStale(w) \/ CommitExecute(w) \/ MarkFailed(w)
             \/ LockForExecute(w) \/ ExecuteConflict(w) \/ ExecuteError(w) \/ Crash(w)
      PROVE  Goal
      BY <1>5 DEF ClaimDueEntrySchedule, ReadForExecute, FinishStale, CommitExecute, MarkFailed,
                  LockForExecute, ExecuteConflict, ExecuteError, Crash, tables
<1>6. ASSUME NEW w \in Sweepers, NotifyRequester(w) PROVE Promise!Next
      BY <1>6, TellStep
<1>7. ASSUME NEW i \in Ids, CancelEntrySchedule(i) \/ ComeDue(i) PROVE Goal
      BY <1>7 DEF CancelEntrySchedule, ComeDue, tables
<1>8. ASSUME NEW p \in Editors, NEW w \in Sweepers, AbortEditor(p, w) \/ AbortSweeper(p, w)
      PROVE  Goal
      BY <1>8 DEF AbortEditor, AbortSweeper, tables
<1>9. ASSUME NEW holders \in SUBSET Bodies, NEW as \in [Bodies -> Bodies],
             RewriteEntries(holders, as)
      PROVE  Goal
      BY <1>9 DEF RewriteEntries
<1> HIDE DEF Goal
<1> QED BY <1>1, <1>2, <1>3, <1>4, <1>5, <1>6, <1>7, <1>8, <1>9, RewriteCases
      DEF Next, EditorStep, Requests, SweeperStep, Detector

(* Every request and every due schedule takes effect in one step or not at *)
(* all, and a schedule publishes what was approved or nothing: what the    *)
(* version guards, the locks and the two transactions of execute amount to.*)
THEOREM ReleaseRefinement == Spec => TakesEffectAtOnce
<1>1. Init => Promise!Init
  <2> SUFFICES ASSUME Init PROVE Promise!Init
      OBVIOUS
  <2>1. PICK b \in Bodies :
          /\ entry = [live |-> TRUE, ver |-> 1, body |-> b, status |-> "draft",
                      snap |-> NoBody, snapVer |-> 0]
          /\ sched = [i \in Ids |-> [state |-> "unused", action |-> "publish", pin |-> 0]]
          /\ approved = [i \in Ids |-> NoBody] /\ notices = {}
        BY DEF Init
  <2>2. /\ [i \in Ids |-> sched[i].state] = [i \in Ids |-> "unused"]
        /\ [i \in Ids |-> sched[i].action] = [i \in Ids |-> "publish"]
        /\ Intact = {}
        BY <2>1 DEF Intact, Pending
  <2> QED BY <2>1, <2>2 DEF Promise!Init, Published
<1>2. Inv /\ NoticeInv /\ [Next]_vars => [Promise!Next]_(Promise!vars)
  <2> SUFFICES ASSUME Inv, NoticeInv, [Next]_vars
               PROVE  Promise!Next \/ UNCHANGED Promise!vars
      OBVIOUS
  <2> DEFINE Goal == Promise!Next \/ UNCHANGED Promise!vars
  <2>1. ASSUME UNCHANGED <<entry, sched>> PROVE Goal
        BY <2>1, SilentStep
  <2>2. ASSUME NEW p \in Editors,
               \/ UpdateEntry(p) \/ SetEntryStatus(p) \/ DeleteEntry(p)
               \/ (\E i \in Ids : CreateEntrySchedule(p, i))
        PROVE  Goal
        BY <2>2, SaveStep, DecideStep, RemoveStep, FileStep
  <2>3. ASSUME NEW w \in Sweepers, FinishStale(w) \/ CommitExecute(w) PROVE Goal
        BY <2>3, StaleDrop, FireStep
  <2>4. ASSUME NEW w \in Sweepers, MarkFailed(w) PROVE Goal
    <3>1. CASE job[w] \in Pending
      <4>1. PICK i \in Pending : i = job[w]
            BY <3>1
      <4>2. Settle({i}, "failed") /\ UNCHANGED <<entry, approved, notices>>
            BY <2>4, <4>1 DEF MarkFailed
      <4> QED BY <4>2, DropStep
    <3>2. CASE job[w] \notin Pending
          BY <2>1, <2>4, <3>2 DEF MarkFailed
    <3> QED BY <3>1, <3>2
  <2>5. ASSUME NEW i \in Ids, CancelEntrySchedule(i) PROVE Goal
    <3>1. i \in Pending /\ Settle({i}, "cancelled") /\ UNCHANGED <<entry, approved, notices>>
          BY <2>5 DEF CancelEntrySchedule
    <3> QED BY <3>1, DropStep
  <2>6. ASSUME NEW holders \in SUBSET Bodies, NEW as \in [Bodies -> Bodies],
               RewriteEntries(holders, as)
        PROVE  Goal
        BY <2>6, RewriteStep
  <2> HIDE DEF Goal
  <2>7. entry' = entry \/ Goal
        BY <2>2, <2>3, <2>6, EntryWriters
  <2>8. sched' = sched \/ Goal
        BY <2>2, <2>3, <2>4, <2>5, ScheduleWriters
  <2>9. Goal
        BY <2>1, <2>7, <2>8
  <2> QED BY <2>9 DEF Goal
<1>3. Init => NoticeInv
      BY InitInv
<1>4. Inv /\ NoticeInv /\ [Next]_vars => NoticeInv'
      BY NoticeStep
<1> QED BY <1>1, <1>2, <1>3, <1>4, Consistent, PTL DEF Spec, TakesEffectAtOnce, Promise!Spec

=============================================================================
