---------------------------- MODULE EntryRelease ----------------------------
(***************************************************************************)
(* The release of one CMS entry: editors who save, publish, unpublish,     *)
(* delete and schedule, against the scheduler's workers that carry out due *)
(* schedules (internal/cms/content: service, repository, scheduler).       *)
(*                                                                         *)
(* Everything runs in READ COMMITTED transactions.  A reader sees the last *)
(* committed row; a writer first takes the row's lock and re-evaluates its *)
(* WHERE clause on the committed row.  The effects of a transaction are    *)
(* applied in its commit, with the locks held until then, so what the      *)
(* model shows between two steps is what other transactions can read.      *)
(* Writes to the entry are guarded by the version the writer read before,  *)
(* outside the transaction.                                                *)
(*                                                                         *)
(* A body stands for the payload up to the names of its keys.  Ids number  *)
(* the schedules in the order of their filing.                             *)
(***************************************************************************)
EXTENDS Integers, FiniteSets

CONSTANTS
  Editors,      \* request handlers acting on the entry
  Sweepers,     \* scheduler workers, one per replica
  Bodies,       \* possible payloads
  MaxWrites,    \* bound on requests and schema changes
  MaxSchedules, \* bound on schedules filed
  MaxFaults,    \* bound on crashes and database errors of the workers
  Nobody,       \* holder of a free lock
  NoBody        \* the snapshot of an entry never published

ASSUME ReleaseAssumption ==
  /\ Editors \cap Sweepers = {}
  /\ Bodies # {} /\ NoBody \notin Bodies
  /\ Nobody \notin Editors \cup Sweepers
  /\ MaxWrites \in Nat /\ MaxSchedules \in Nat /\ MaxFaults \in Nat

Procs == Editors \cup Sweepers
Ids == 1 .. MaxSchedules
None == 0

VARIABLES
  entry,    \* the committed row of the entry
  sched,    \* the committed schedules
  due,      \* schedules whose run_at has passed
  lockE,    \* holder of the entry's row lock
  lockS,    \* holders of the schedules' row locks
  pc,       \* where each process stands
  op,       \* the request an editor is serving
  seen,     \* the row each process read with GetEntry
  job,      \* the schedule a worker has claimed
  marks,    \* the pending schedules a writer's UPDATE has selected
  writes, faults,
  approved, \* history: the body that was shown when a schedule was filed
  ledger,   \* entry_publish_revisions
  events,   \* idempotency keys of the events enqueued for the entry
  emitted,  \* history: number of events enqueued
  notices   \* notifications sent to requesters

tables  == <<entry, sched, approved, ledger, events, emitted>>
locks   == <<lockE, lockS>>
local   == <<pc, op, seen, job, marks>>
bounds  == <<writes, faults>>
vars    == <<tables, locks, local, bounds, due, notices>>

Statuses == {"draft", "published"}
Rows == [live : BOOLEAN, ver : Nat, body : Bodies, status : Statuses,
         snap : Bodies \cup {NoBody}, snapVer : Nat]
States == {"unused", "pending", "done", "stale", "cancelled", "superseded",
           "failed", "gone"}
Actions == {"publish", "unpublish"}
Ops == {"update", "publish", "unpublish", "delete"}
Outcomes == {"succeeded", "stale", "failed"}   \* what a requester is told

(* The six states of migration 000041, "unused" before the row exists and  *)
(* "gone" after the cascade of the entry's deletion.                       *)
Terminal == States \ {"unused", "pending"}

TypeOK ==
  /\ entry \in Rows
  /\ sched \in [Ids -> [state : States, action : Actions, pin : Nat]]
  /\ due \subseteq Ids
  /\ lockE \in Procs \cup {Nobody}
  /\ lockS \in [Ids -> Sweepers \cup {Nobody}]
  /\ pc \in [Procs -> {"idle", "read", "locked", "mark", "file",
                       "claimed", "exec", "commit", "failing"} \cup Outcomes]
  /\ op \in [Editors -> [kind : Ops \cup Actions, body : Bodies]]
  /\ seen \in [Procs -> Rows]
  /\ job \in [Sweepers -> Ids \cup {None}]
  /\ marks \in [Procs -> SUBSET Ids]
  /\ writes \in 0 .. MaxWrites /\ faults \in 0 .. MaxFaults
  /\ approved \in [Ids -> Bodies \cup {NoBody}]
  /\ ledger \subseteq [via : Ids \cup {None}, ver : Nat, body : Bodies]
  /\ events \subseteq {"updated", "published", "draft", "deleted"} \X Nat
  /\ emitted \in Nat
  /\ notices \subseteq Ids \X Outcomes

Init ==
  \E b \in Bodies :
    /\ entry = [live |-> TRUE, ver |-> 1, body |-> b, status |-> "draft",
                snap |-> NoBody, snapVer |-> 0]
    /\ sched = [i \in Ids |-> [state |-> "unused", action |-> "publish", pin |-> 0]]
    /\ due = {}
    /\ lockE = Nobody
    /\ lockS = [i \in Ids |-> Nobody]
    /\ pc = [p \in Procs |-> "idle"]
    /\ op = [p \in Editors |-> [kind |-> "update", body |-> b]]
    /\ seen = [p \in Procs |-> entry]
    /\ job = [w \in Sweepers |-> None]
    /\ marks = [p \in Procs |-> {}]
    /\ writes = 0 /\ faults = 0
    /\ approved = [i \in Ids |-> NoBody]
    /\ ledger = {} /\ events = {} /\ emitted = 0
    /\ notices = {}

Goto(p, label) == pc' = [pc EXCEPT ![p] = label]
Pending == {i \in Ids : sched[i].state = "pending"}
Published(row) == row.status = "published"
HasUnpublishedChanges(row) == Published(row) /\ row.body # row.snap

-----------------------------------------------------------------------------
(* The entry's writes, as the rows they leave behind.                      *)

(* Mutant: a save goes live at once.                                       *)
SavedLive(row, body) == [row EXCEPT !.body = body, !.snap = body, !.ver = @ + 1]

(* Mutant: a save takes the entry off the shelf.                           *)
SavedAsDraft(row, body) == [row EXCEPT !.body = body, !.status = "draft", !.ver = @ + 1]

Saved(row, body) == [row EXCEPT !.body = body, !.ver = @ + 1]

Released(row) ==
  [row EXCEPT !.status = "published", !.snap = row.body,
              !.snapVer = row.ver + 1, !.ver = @ + 1]

(* Mutant: a retraction archives the entry.                                *)
RetractedToArchive(row) == [row EXCEPT !.status = "archived", !.ver = @ + 1]

(* Unpublishing keeps the published snapshot.                              *)
Retracted(row) == [row EXCEPT !.status = "draft", !.ver = @ + 1]

(* Mutant: the idempotency key forgets the version.                        *)
EmitPerKind(kind, ver) ==
  /\ events' = events \cup {<<kind, 0>>}
  /\ emitted' = emitted + 1

(* Enqueue one event with its idempotency key, in the same transaction.    *)
Emit(kind, ver) ==
  /\ events' = events \cup {<<kind, ver>>}
  /\ emitted' = emitted + 1

(* SetEntryPublishState, all of it that other transactions can see.        *)
SetEntryPublishState(action, via) ==
  IF action = "publish"
  THEN /\ entry' = Released(entry)
       /\ ledger' = ledger \cup {[via |-> via, ver |-> entry.ver + 1, body |-> entry.body]}
       /\ Emit("published", entry.ver + 1)
  ELSE /\ entry' = Retracted(entry)
       /\ ledger' = ledger
       /\ Emit("draft", entry.ver + 1)

Settle(ids, state) ==
  sched' = [i \in Ids |-> IF i \in ids THEN [sched[i] EXCEPT !.state = state]
                          ELSE sched[i]]

-----------------------------------------------------------------------------
(* Editors.                                                                *)

(* A status change that would change nothing returns before any write.     *)
NotNoop(kind) ==
  CASE kind = "publish"   -> ~Published(entry) \/ HasUnpublishedChanges(entry)
    [] kind = "unpublish" -> Published(entry)
    [] OTHER              -> TRUE

(* UpdateEntry, SetEntryStatus or DeleteEntry reads the entry.             *)
ReadForWrite(p, kind, body) ==
  /\ pc[p] = "idle" /\ writes < MaxWrites
  /\ entry.live /\ NotNoop(kind)
  /\ writes' = writes + 1
  /\ seen' = [seen EXCEPT ![p] = entry]
  /\ op' = [op EXCEPT ![p] = [kind |-> kind, body |-> body]]
  /\ Goto(p, "read")
  /\ UNCHANGED <<tables, locks, job, marks, due, faults, notices>>

(* Mutant: the UPDATE matches the id alone.                                *)
RowExists(p) == entry.live

(* The guard of the row's UPDATE; a DELETE carries no version.             *)
RowMatches(p) ==
  entry.live /\ (op[p].kind = "delete" \/ entry.ver = seen[p].ver)

LockForWrite(p) ==
  /\ pc[p] = "read" /\ lockE = Nobody /\ RowMatches(p)
  /\ lockE' = p
  /\ Goto(p, "locked")
  /\ UNCHANGED <<tables, lockS, op, seen, job, marks, bounds, due, notices>>

(* ErrVersionConflict or ErrNotFound.                                      *)
WriteConflict(p) ==
  /\ pc[p] = "read" /\ lockE = Nobody /\ ~RowMatches(p)
  /\ Goto(p, "idle")
  /\ UNCHANGED <<tables, locks, op, seen, job, marks, bounds, due, notices>>

(* Mutants: a save also closes takedowns; closing ignores the state.       *)
ToCloseBothActions(p) ==
  CASE op[p].kind = "update" -> {i \in Pending : sched[i].pin < entry.ver + 1}
    [] op[p].kind = "delete" -> {i \in Ids : sched[i].state # "unused"}
    [] OTHER                 -> Pending

ToCloseAnyState(p) == {i \in Ids : sched[i].state # "unused"}

(* The schedules the write closes: markSchedulesStale takes the publish    *)
(* schedules pinned below the new version, markSchedulesSuperseded all,    *)
(* and the deletion cascades over every row.                               *)
ToClose(p) ==
  CASE op[p].kind = "update" ->
         {i \in Pending : sched[i].action = "publish" /\ sched[i].pin < entry.ver + 1}
    [] op[p].kind = "delete" -> {i \in Ids : sched[i].state # "unused"}
    [] OTHER                 -> Pending

SelectSchedules(p) ==
  /\ pc[p] = "locked"
  /\ marks' = [marks EXCEPT ![p] = ToClose(p)]
  /\ Goto(p, "mark")
  /\ UNCHANGED <<tables, locks, op, seen, job, bounds, due, notices>>

(* Every selected row is free, so the UPDATE re-evaluates it and ends.     *)
RowsFree(ids) == \A i \in ids : lockS[i] = Nobody

FinishWrite(p) ==
  /\ pc[p] = "mark" /\ RowsFree(marks[p])
  /\ lockE' = Nobody
  /\ marks' = [marks EXCEPT ![p] = {}]
  /\ Goto(p, "idle")
  /\ UNCHANGED <<lockS, op, seen, job, bounds, due, notices>>

UpdateEntry(p) ==
  /\ op[p].kind = "update"
  /\ FinishWrite(p)
  /\ entry' = Saved(entry, op[p].body)
  /\ Settle(marks[p] \cap ToClose(p), "stale")
  /\ Emit("updated", entry.ver + 1)
  /\ UNCHANGED <<approved, ledger>>

SetEntryStatus(p) ==
  /\ op[p].kind \in Actions
  /\ FinishWrite(p)
  /\ SetEntryPublishState(op[p].kind, None)
  /\ Settle(marks[p] \cap ToClose(p), "superseded")
  /\ UNCHANGED approved

DeleteEntry(p) ==
  /\ op[p].kind = "delete"
  /\ FinishWrite(p)
  /\ entry' = [entry EXCEPT !.live = FALSE]
  /\ Settle(ToClose(p), "gone")
  /\ Emit("deleted", 0)
  /\ ledger' = {}
  /\ UNCHANGED approved

(* A statement of the transaction refuses, a unique value being taken.     *)
Rollback(p) ==
  /\ pc[p] \in {"locked", "mark"}
  /\ lockE' = Nobody
  /\ marks' = [marks EXCEPT ![p] = {}]
  /\ Goto(p, "idle")
  /\ UNCHANGED <<tables, lockS, op, seen, job, bounds, due, notices>>

(* A schema change rewrites both copies of the entry where they hold the   *)
(* key, and bumps the version of each copy it rewrites.  It emits nothing  *)
(* and closes no schedule.                                                 *)
Rewritten(row, holders, as) ==
  [row EXCEPT !.body    = IF row.body \in holders THEN as[@] ELSE @,
              !.ver     = IF row.body \in holders THEN @ + 1 ELSE @,
              !.snap    = IF row.snap \in holders THEN as[@] ELSE @,
              !.snapVer = IF row.snap \in holders THEN @ + 1 ELSE @]

RewriteEntries(holders, as) ==
  /\ writes < MaxWrites /\ entry.live /\ lockE = Nobody
  /\ {entry.body, entry.snap} \cap holders # {}
  /\ writes' = writes + 1
  /\ entry' = Rewritten(entry, holders, as)
  /\ UNCHANGED <<sched, approved, ledger, events, emitted, locks, local, faults,
                 due, notices>>

(* A rename changes no value; a deletion strips the key from its holders.  *)
RenameField(holders) == RewriteEntries(holders, [b \in Bodies |-> b])

DeleteField(strip) ==
  /\ \A b \in Bodies : strip[strip[b]] = strip[b]
  /\ RewriteEntries({b \in Bodies : strip[b] # b}, strip)

(* ScheduleEntry reads the entry and refuses a schedule without effect ... *)
ReadForSchedule(p, action) ==
  /\ pc[p] = "idle" /\ writes < MaxWrites
  /\ entry.live /\ NotNoop(action)
  /\ writes' = writes + 1
  /\ seen' = [seen EXCEPT ![p] = entry]
  /\ op' = [op EXCEPT ![p] = [kind |-> action, body |-> entry.body]]
  /\ Goto(p, "file")
  /\ UNCHANGED <<tables, locks, job, marks, due, faults, notices>>

NextId(i) == sched[i].state = "unused" /\ \A j \in Ids : j < i => sched[j].state # "unused"

PinnedVersionFor(p) ==
  IF op[p].kind = "publish" THEN seen[p].ver ELSE seen[p].snapVer

(* A deletion that holds the entry makes the insert wait on the foreign key. *)
BeingDeleted == lockE \in Editors /\ op[lockE].kind = "delete"

(* ... and inserts it in a transaction of its own; one pending schedule    *)
(* per entry is a unique index.                                            *)
CreateEntrySchedule(p, i) ==
  /\ pc[p] = "file" /\ NextId(i) /\ Pending = {}
  /\ entry.live /\ ~BeingDeleted
  /\ sched' = [sched EXCEPT ![i] =
       [state |-> "pending", action |-> op[p].kind, pin |-> PinnedVersionFor(p)]]
  /\ approved' = [approved EXCEPT ![i] = seen[p].body]
  /\ Goto(p, "idle")
  /\ UNCHANGED <<entry, ledger, events, emitted, locks, op, seen, job, marks,
                 bounds, due, notices>>

RefuseSchedule(p) ==
  /\ pc[p] = "file"
  /\ ~entry.live \/ Pending # {} \/ ~\E i \in Ids : NextId(i)
  /\ Goto(p, "idle")
  /\ UNCHANGED <<tables, locks, op, seen, job, marks, bounds, due, notices>>

(* CancelEntrySchedule closes whichever schedule is pending.               *)
CancelEntrySchedule(i) ==
  /\ i \in Pending /\ lockS[i] = Nobody /\ writes < MaxWrites
  /\ writes' = writes + 1
  /\ Settle({i}, "cancelled")
  /\ UNCHANGED <<entry, approved, ledger, events, emitted, locks, local, faults,
                 due, notices>>

-----------------------------------------------------------------------------
(* The scheduler.                                                          *)

ComeDue(i) ==
  /\ i \in Pending \ due
  /\ due' = due \cup {i}
  /\ UNCHANGED <<tables, locks, local, bounds, notices>>

(* Tick's scan only proposes; the claim re-checks state and run_at and     *)
(* skips a row another transaction has locked.                             *)
ClaimDueEntrySchedule(w, i) ==
  /\ pc[w] = "idle" /\ i \in Pending \cap due /\ lockS[i] = Nobody
  /\ lockS' = [lockS EXCEPT ![i] = w]
  /\ job' = [job EXCEPT ![w] = i]
  /\ Goto(w, "claimed")
  /\ UNCHANGED <<tables, lockE, op, seen, marks, bounds, due, notices>>

ReadForExecute(w) ==
  /\ pc[w] = "claimed"
  /\ seen' = [seen EXCEPT ![w] = entry]
  /\ Goto(w, "exec")
  /\ UNCHANGED <<tables, locks, op, job, marks, bounds, due, notices>>

(* Mutant: the worker does not compare versions again.                     *)
OvertakenNever(w) == FALSE

(* Only a publish is bound to the version it was approved at.              *)
Overtaken(w) ==
  sched[job[w]].action = "publish" /\ seen[w].ver # sched[job[w]].pin

Unclaim(w) == lockS' = [lockS EXCEPT ![job[w]] = Nobody]

(* Mutant: an overtaken schedule is skipped without a terminal state.      *)
FinishStaleSilently(w) ==
  /\ pc[w] = "exec" /\ Overtaken(w)
  /\ Unclaim(w)
  /\ Goto(w, "idle")
  /\ UNCHANGED <<tables, lockE, op, seen, job, marks, bounds, due, notices>>

FinishStale(w) ==
  /\ pc[w] = "exec" /\ Overtaken(w)
  /\ Settle({job[w]}, "stale")
  /\ Unclaim(w)
  /\ Goto(w, "stale")
  /\ UNCHANGED <<entry, approved, ledger, events, emitted, lockE, op, seen, job,
                 marks, bounds, due, notices>>

(* FinishEntrySchedule(done) has run; SetEntryPublishState wants the entry. *)
LockForExecute(w) ==
  /\ pc[w] = "exec" /\ ~Overtaken(w) /\ lockE = Nobody
  /\ entry.live /\ entry.ver = seen[w].ver
  /\ lockE' = w
  /\ Goto(w, "commit")
  /\ UNCHANGED <<tables, lockS, op, seen, job, marks, bounds, due, notices>>

ExecuteConflict(w) ==
  /\ pc[w] = "exec" /\ ~Overtaken(w) /\ lockE = Nobody
  /\ ~(entry.live /\ entry.ver = seen[w].ver)
  /\ Unclaim(w)
  /\ Goto(w, "failing")
  /\ UNCHANGED <<tables, lockE, op, seen, job, marks, bounds, due, notices>>

(* Terminal state, release, ledger and event commit together.              *)
CommitExecute(w) ==
  /\ pc[w] = "commit"
  /\ SetEntryPublishState(sched[job[w]].action, job[w])
  /\ Settle({job[w]}, "done")
  /\ Unclaim(w)
  /\ lockE' = Nobody
  /\ Goto(w, "succeeded")
  /\ UNCHANGED <<approved, op, seen, job, marks, bounds, due, notices>>

(* Mutants: the failure overwrites any state; the notice needs no record.  *)
MarkFailedAnyState(w) ==
  /\ pc[w] = "failing" /\ lockS[job[w]] = Nobody
  /\ Settle({job[w]}, "failed")
  /\ Goto(w, "failed")
  /\ UNCHANGED <<entry, approved, ledger, events, emitted, locks, op, seen, job,
                 marks, bounds, due, notices>>

MarkFailedAndTell(w) ==
  /\ pc[w] = "failing" /\ lockS[job[w]] = Nobody
  /\ Settle({job[w]} \cap Pending, "failed")
  /\ Goto(w, "failed")
  /\ UNCHANGED <<entry, approved, ledger, events, emitted, locks, op, seen, job,
                 marks, bounds, due, notices>>

(* markFailed, in a transaction of its own, on a row still pending.        *)
MarkFailed(w) ==
  /\ pc[w] = "failing" /\ lockS[job[w]] = Nobody
  /\ IF job[w] \in Pending
     THEN Settle({job[w]}, "failed") /\ Goto(w, "failed")
     ELSE UNCHANGED sched /\ Goto(w, "idle")
  /\ UNCHANGED <<entry, approved, ledger, events, emitted, locks, op, seen, job,
                 marks, bounds, due, notices>>

(* The outcome was recorded inside the transaction; it is sent after.      *)
NotifyRequester(w) ==
  /\ pc[w] \in Outcomes
  /\ notices' = notices \cup {<<job[w], pc[w]>>}
  /\ Goto(w, "idle")
  /\ UNCHANGED <<tables, locks, op, seen, job, marks, bounds, due>>

-----------------------------------------------------------------------------
(* What the database and the platform do to transactions.                  *)

ReleaseLocks(w) ==
  /\ lockE' = IF lockE = w THEN Nobody ELSE lockE
  /\ lockS' = [i \in Ids |-> IF lockS[i] = w THEN Nobody ELSE lockS[i]]

(* A statement of the worker's transaction fails.                          *)
ExecuteError(w) ==
  /\ pc[w] \in {"claimed", "exec", "commit"} /\ faults < MaxFaults
  /\ faults' = faults + 1
  /\ ReleaseLocks(w)
  /\ Goto(w, "failing")
  /\ UNCHANGED <<tables, op, seen, job, marks, writes, due, notices>>

(* The process dies, or is shut down: the claim rolls back to pending and  *)
(* markFailed is not called.                                               *)
Crash(w) ==
  /\ pc[w] # "idle" /\ faults < MaxFaults
  /\ faults' = faults + 1
  /\ ReleaseLocks(w)
  /\ Goto(w, "idle")
  /\ UNCHANGED <<tables, op, seen, job, marks, writes, due, notices>>

(* The editor holds the entry and waits for the schedule, the worker holds *)
(* the schedule and waits for the entry: the detector aborts either.       *)
Deadlocked(p, w) ==
  /\ pc[p] = "mark" /\ pc[w] = "exec" /\ ~Overtaken(w)
  /\ lockE = p /\ job[w] \in marks[p] /\ lockS[job[w]] = w

AbortEditor(p, w) ==
  /\ Deadlocked(p, w)
  /\ lockE' = Nobody
  /\ marks' = [marks EXCEPT ![p] = {}]
  /\ Goto(p, "idle")
  /\ UNCHANGED <<tables, lockS, op, seen, job, bounds, due, notices>>

AbortSweeper(p, w) ==
  /\ Deadlocked(p, w)
  /\ Unclaim(w)
  /\ Goto(w, "failing")
  /\ UNCHANGED <<tables, lockE, op, seen, job, marks, bounds, due, notices>>

-----------------------------------------------------------------------------
EditorStep(p) ==
  \/ LockForWrite(p) \/ WriteConflict(p) \/ SelectSchedules(p)
  \/ UpdateEntry(p) \/ SetEntryStatus(p) \/ DeleteEntry(p)
  \/ \E i \in Ids : CreateEntrySchedule(p, i)
  \/ RefuseSchedule(p)

Requests(p) ==
  \/ \E k \in Ops, b \in Bodies : ReadForWrite(p, k, b)
  \/ \E a \in Actions : ReadForSchedule(p, a)
  \/ Rollback(p)

SweeperStep(w) ==
  \/ \E i \in Ids : ClaimDueEntrySchedule(w, i)
  \/ ReadForExecute(w) \/ FinishStale(w) \/ LockForExecute(w) \/ ExecuteConflict(w)
  \/ CommitExecute(w) \/ MarkFailed(w) \/ NotifyRequester(w)

Detector == \E p \in Editors, w \in Sweepers : AbortEditor(p, w) \/ AbortSweeper(p, w)

Next ==
  \/ \E p \in Editors : EditorStep(p) \/ Requests(p)
  \/ \E w \in Sweepers : SweeperStep(w) \/ ExecuteError(w) \/ Crash(w)
  \/ \E i \in Ids : CancelEntrySchedule(i) \/ ComeDue(i)
  \/ \E holders \in SUBSET Bodies : RenameField(holders)
  \/ \E strip \in [Bodies -> Bodies] : DeleteField(strip)
  \/ Detector

(* Statements end, the poll loop ticks, time passes, and the database      *)
(* resolves deadlocks.  Nobody is obliged to file a request.               *)
Fairness ==
  /\ \A p \in Editors : WF_vars(EditorStep(p))
  /\ \A w \in Sweepers : WF_vars(SweeperStep(w))
  /\ \A i \in Ids : WF_vars(ComeDue(i))
  /\ WF_vars(Detector)

Spec == Init /\ [][Next]_vars
FairSpec == Spec /\ Fairness

-----------------------------------------------------------------------------
(* Properties.                                                             *)

(* What the scheduler releases is the content that was approved: the body  *)
(* ScheduleEntry read when it pinned the version, whatever editors, schema *)
(* changes and other replicas did between the approval and the release.    *)
ReleaseIsApproved ==
  \A r \in ledger : r.via # None =>
    sched[r.via].action = "publish" /\ r.body = approved[r.via]

(* A schedule releases at most once, a release leaves it done, and a done  *)
(* publish has released: execute's writes and the claim settle together    *)
(* although markFailed and the replicas come later.                        *)
DoneMeansReleased ==
  \A i \in Ids :
    LET releases == {r \in ledger : r.via = i}
    IN  /\ Cardinality(releases) <= 1
        /\ releases # {} => sched[i].state = "done"
        /\ sched[i].state = "done" /\ sched[i].action = "publish" => releases # {}

(* An editor's save never closes a takedown: a stale schedule is a publish *)
(* whose version the entry has left (markSchedulesStale, execute).         *)
StaleMeansOvertaken ==
  \A i \in Ids : sched[i].state = "stale" =>
    sched[i].action = "publish" /\ sched[i].pin < entry.ver

(* Two writes of the entry never enqueue under one idempotency key, so the *)
(* outbox's ON CONFLICT DO NOTHING swallows no event (emitEntryEvent).     *)
OneEventPerWrite == Cardinality(events) = emitted

(* A requester is told what became of the schedule and never two things:   *)
(* notifyRequester runs after the commit, when others may have moved on.   *)
NoticeIsTrue ==
  \A n \in notices :
    sched[n[1]].state \in {"gone",
      CASE n[2] = "succeeded" -> "done" [] n[2] = "stale" -> "stale" [] OTHER -> "failed"}

(* The six states of a schedule are final but for the entry's deletion.    *)
TerminalIsFinal ==
  [][\A i \in Ids : sched[i].state \in Terminal =>
       sched'[i].state \in {sched[i].state, "gone"}]_vars

(* A write lands on the very working copy its author read: no save,        *)
(* release, retraction or schema change in between is overwritten (the     *)
(* version in the WHERE clause of UpdateEntry and SetEntryPublishState).   *)
(* A schema change that rewrites the snapshot alone goes unseen.           *)
NoLostUpdate ==
  [][\A p \in Procs :
       /\ pc[p] \in {"mark", "commit"} /\ pc'[p] # pc[p] /\ entry'.ver # entry.ver
       => seen[p].body = entry.body /\ seen[p].status = entry.status]_vars

(* No request and no worker moves the public snapshot without a release in *)
(* entry_publish_revisions of the same body and version; only a schema     *)
(* change does, and it moves no process.                                   *)
ShelfFollowsLedger ==
  [][entry'.snap # entry.snap /\ pc' # pc =>
       \E r \in ledger' \ ledger : r.body = entry'.snap /\ r.ver = entry'.snapVer]_vars

(* A schedule that came due leaves pending: it is carried out, overtaken,  *)
(* cancelled, superseded or failed, through crashes, conflicts between     *)
(* replicas and deadlocks with editors.                                    *)
DueSettles ==
  \A i \in Ids : (i \in due /\ i \in Pending) ~> i \notin Pending

(* postgres_repository.go:938: "published_version is what a delivery       *)
(* consumer watches for change; moving the snapshot while it stands still  *)
(* is exactly the lie that amendment closed."                              *)
PublishedVersionTracks ==
  [][entry.snap # NoBody /\ entry'.snap # entry.snap =>
       entry'.snapVer # entry.snapVer]_vars

(* What the scheduler did, what the schedule's row says of it and what the
   requester was told are one story, and the body released is the one that was
   scheduled (scheduler/worker.go execute, failSchedule); and no write's event is
   taken for another's (postgres_repository.go 1978). *)
SchedulesSound ==
  /\ TypeOK /\ ReleaseIsApproved /\ DoneMeansReleased /\ StaleMeansOvertaken /\ NoticeIsTrue
  /\ OneEventPerWrite

(* A schedule is intact while the version it was pinned at is current.     *)
Intact ==
  {i \in Pending : sched[i].action = "publish" /\ sched[i].pin = entry.ver}

Promise == INSTANCE ScheduledRelease WITH
  Schedules <- Ids,
  exists <- entry.live,
  body <- entry.body,
  public <- entry.snap,
  shown <- Published(entry),
  fate <- [i \in Ids |-> sched[i].state],
  plan <- [i \in Ids |-> sched[i].action],
  intact <- Intact,
  told <- notices

(* Requests and due schedules take effect in one step or not at all,       *)
(* though each is two transactions, versions stand for bodies, and         *)
(* replicas crash and race (content_service.go, scheduler/worker.go).      *)
TakesEffectAtOnce == Promise!Spec

=============================================================================
