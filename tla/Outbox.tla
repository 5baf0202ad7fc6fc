------------------------------- MODULE Outbox -------------------------------
(***************************************************************************)
(* The transactional outbox: integration_outbox and the workers draining   *)
(* it (internal/pkg/outbox).                                               *)
(*                                                                         *)
(* A row is one event, identified by its idempotency key; its number is    *)
(* its place in created_at order.  Every server replica runs one worker.   *)
(* Each repository call is one SQL statement and hence one atomic step;    *)
(* between two calls of a worker anything may happen, including the death  *)
(* of the process.  There is no clock: `Age' says that a claim has become  *)
(* older than the stale threshold, which may happen to a claim whose       *)
(* worker is alive, because a batch of ten rows with a ten second timeout  *)
(* per endpoint outlasts the default threshold of sixty seconds.           *)
(***************************************************************************)
EXTENDS Integers, FiniteSets

CONSTANTS
  N,            \* number of events the writers may commit
  UserRows,     \* rows carrying a user.* event, delivered to MCP
  UnroutedRows, \* rows whose event type no handler knows
  Workers,      \* one outbox worker per replica
  NHooks,       \* number of webhook endpoints ever registered
  BatchSize,    \* Worker.limit
  MaxRetries,   \* Worker.maxRetries
  MaxFaults     \* bound on crashes, deployments and database errors

Rows == 1 .. N
ContentRows == Rows \ (UserRows \cup UnroutedRows)

(* Endpoint numbers follow created_at, the order in which the directory    *)
(* lists them.  0 stands for MCP.                                          *)
MCP == 0
Hooks == 1 .. NHooks
Dests == 0 .. NHooks

ASSUME OutboxAssumption ==
  /\ N \in Nat /\ NHooks \in Nat
  /\ UserRows \subseteq Rows /\ UnroutedRows \subseteq Rows
  /\ UserRows \cap UnroutedRows = {}
  /\ IsFiniteSet(Workers) /\ Workers # {}
  /\ BatchSize \in Nat \ {0} /\ MaxRetries \in Nat \ {0} /\ MaxFaults \in Nat

NoRow == 0

VARIABLES
  status,    \* outbox_status of each row, "none" before its INSERT commits
  retry,     \* retry_count
  old,       \* rows whose claimed_at is older than the stale threshold
  hooks,     \* registered, active webhook endpoints
  nextHook,  \* number the next registration gets
  phase,     \* where each worker's poll loop stands
  hand,      \* rows of the batch a worker has claimed and not yet settled
  cur,       \* the row being delivered
  todo,      \* destinations of cur not yet reached
  stopping,  \* workers whose context is cancelled (shutdown)
  faults,    \* faults injected so far
  heard,     \* history: destinations that processed the event
  owed,      \* history: destinations subscribed ever since the commit
  reclaimed, \* history: rows ReclaimStale has taken back at least once
  notices    \* history: dead-letter notifications sent per row

table   == <<status, retry, old>>
loop    == <<phase, hand, cur, todo, stopping>>
record == <<heard, owed, reclaimed, notices>>
vars    == <<table, loop, record, hooks, nextHook, faults>>

Statuses == {"none", "pending", "processing", "done", "failed"}
Phases   == {"poll", "claim", "batch", "send", "fail", "notify"}

TypeOK ==
  /\ status \in [Rows -> Statuses]
  /\ retry \in [Rows -> Nat]
  /\ old \subseteq Rows
  /\ hooks \subseteq Hooks
  /\ nextHook \in 1 .. NHooks + 1
  /\ phase \in [Workers -> Phases]
  /\ hand \in [Workers -> SUBSET Rows]
  /\ cur \in [Workers -> Rows \cup {NoRow}]
  /\ todo \in [Workers -> SUBSET Dests]
  /\ stopping \subseteq Workers
  /\ faults \in 0 .. MaxFaults
  /\ heard \in [Rows -> SUBSET Dests]
  /\ owed \in [Rows -> SUBSET Dests]
  /\ reclaimed \subseteq Rows
  /\ notices \in [Rows -> Nat]

Init ==
  /\ status = [r \in Rows |-> "none"]
  /\ retry = [r \in Rows |-> 0]
  /\ old = {}
  /\ hooks = {}
  /\ nextHook = 1
  /\ phase = [w \in Workers |-> "poll"]
  /\ hand = [w \in Workers |-> {}]
  /\ cur = [w \in Workers |-> NoRow]
  /\ todo = [w \in Workers |-> {}]
  /\ stopping = {}
  /\ faults = 0
  /\ heard = [r \in Rows |-> {}]
  /\ owed = [r \in Rows |-> {}]
  /\ reclaimed = {}
  /\ notices = [r \in Rows |-> 0]

Fault == faults < MaxFaults /\ faults' = faults + 1

(* Mutant: content events go to the MCP gateway as well.                   *)
AudienceAndMCP(r, hs) == IF r \in UserRows THEN {MCP} ELSE hs \cup {MCP}

(* Everyone an event is addressed to while the registered set is `hs'.     *)
Audience(r, hs) == IF r \in UserRows THEN {MCP} ELSE hs

-----------------------------------------------------------------------------
(* Writers and the webhook registry.                                       *)

(* The writer's transaction commits.  A second enqueue of the same         *)
(* idempotency key is a stuttering step (ON CONFLICT DO NOTHING).          *)
EnqueueTx(r) ==
  /\ status[r] = "none"
  /\ status' = [status EXCEPT ![r] = "pending"]
  /\ owed' = [owed EXCEPT ![r] = Audience(r, hooks)]
  /\ UNCHANGED <<retry, old, loop, heard, reclaimed, notices,
                 hooks, nextHook, faults>>

CreateWebhook ==
  /\ nextHook <= NHooks
  /\ hooks' = hooks \cup {nextHook}
  /\ nextHook' = nextHook + 1
  /\ UNCHANGED <<table, loop, record, faults>>

DeleteWebhook(e) ==
  /\ e \in hooks
  /\ hooks' = hooks \ {e}
  /\ owed' = [r \in Rows |-> owed[r] \ {e}]
  /\ UNCHANGED <<table, loop, heard, reclaimed, notices,
                 nextHook, faults>>

-----------------------------------------------------------------------------
(* The worker.                                                             *)

(* Time passes: the claim on r outlives the threshold.                     *)
Age(r) ==
  /\ status[r] = "processing" /\ r \notin old
  /\ old' = old \cup {r}
  /\ UNCHANGED <<status, retry, loop, record, hooks, nextHook, faults>>

(* Mutant: the reaper forgets to look at the status.                       *)
StaleAnyStatus == old

(* Mutant: the reaper is missing.                                          *)
StaleNever == {}

StaleRows == {r \in old : status[r] = "processing"}

(* A tick of Run starts with the reaper.  The retry count is left alone.   *)
ReclaimStale(w) ==
  /\ phase[w] = "poll" /\ w \notin stopping
  /\ status' = [r \in Rows |-> IF r \in StaleRows THEN "pending" ELSE status[r]]
  /\ old' = old \ StaleRows
  /\ reclaimed' = reclaimed \cup StaleRows
  /\ phase' = [phase EXCEPT ![w] = "claim"]
  /\ UNCHANGED <<retry, hand, cur, todo, stopping, heard, owed,
                 notices, hooks, nextHook, faults>>

(* Mutant: rows another worker is processing are claimable too.            *)
ClaimableAnyOpen ==
  LET open == {r \in Rows : status[r] \in {"pending", "processing"}}
  IN  {r \in open : Cardinality({p \in open : p < r}) < BatchSize}

(* The oldest pending rows, at most BatchSize of them.                     *)
Claimable ==
  LET pending == {r \in Rows : status[r] = "pending"}
  IN  {r \in pending : Cardinality({p \in pending : p < r}) < BatchSize}

ClaimPending(w) ==
  /\ phase[w] = "claim" /\ w \notin stopping
  /\ hand' = [hand EXCEPT ![w] = Claimable]
  /\ status' = [r \in Rows |-> IF r \in Claimable THEN "processing" ELSE status[r]]
  /\ old' = old \ Claimable
  /\ phase' = [phase EXCEPT ![w] = IF Claimable = {} THEN "poll" ELSE "batch"]
  /\ UNCHANGED <<retry, cur, todo, stopping, record, hooks, nextHook, faults>>

(* A claim issued on the cancelled context fails.                          *)
ClaimCancelled(w) ==
  /\ phase[w] = "claim" /\ w \in stopping
  /\ phase' = [phase EXCEPT ![w] = "poll"]
  /\ UNCHANGED <<table, hand, cur, todo, stopping, record, hooks, nextHook, faults>>

(* deliver: choose the handler and, for a content event, read the          *)
(* directory once.  UPDATE ... RETURNING promises no order, so the rows of *)
(* a batch are taken in any order.                                         *)
Deliver(w, r) ==
  /\ phase[w] = "batch" /\ w \notin stopping /\ r \in hand[w] \ UnroutedRows
  /\ cur' = [cur EXCEPT ![w] = r]
  /\ todo' = [todo EXCEPT ![w] = Audience(r, hooks)]
  /\ phase' = [phase EXCEPT ![w] = "send"]
  /\ UNCHANGED <<table, hand, stopping, record, hooks, nextHook, faults>>

(* The default arm: no handler for the event type.                         *)
DeliverUnrouted(w, r) ==
  /\ phase[w] = "batch" /\ r \in hand[w] \cap UnroutedRows
  /\ cur' = [cur EXCEPT ![w] = r]
  /\ phase' = [phase EXCEPT ![w] = "fail"]
  /\ UNCHANGED <<table, hand, todo, stopping, heard, owed, reclaimed, notices,
                 hooks, nextHook, faults>>

(* After shutdown began the batch loop goes on, and every remaining        *)
(* delivery fails at once on the cancelled context.                        *)
DeliverCancelled(w, r) ==
  /\ phase[w] = "batch" /\ w \in stopping /\ r \in hand[w] \ UnroutedRows
  /\ cur' = [cur EXCEPT ![w] = r]
  /\ phase' = [phase EXCEPT ![w] = "fail"]
  /\ UNCHANGED <<table, hand, todo, stopping, record, hooks, nextHook, faults>>

(* The next destination, in directory order.                               *)
IsNext(w, d) == d \in todo[w] /\ \A e \in todo[w] : d <= e

SendOk(w, d) ==
  /\ phase[w] = "send" /\ w \notin stopping /\ IsNext(w, d)
  /\ todo' = [todo EXCEPT ![w] = @ \ {d}]
  /\ heard' = [heard EXCEPT ![cur[w]] = @ \cup {d}]
  /\ UNCHANGED <<table, phase, hand, cur, stopping, owed, reclaimed,
                 notices, hooks, nextHook, faults>>

(* One failing endpoint ends the fan-out.  A timeout after the receiver    *)
(* processed the event looks the same as one before it did.                *)
SendFail(w, d, processed) ==
  /\ phase[w] = "send" /\ IsNext(w, d)
  /\ phase' = [phase EXCEPT ![w] = "fail"]
  /\ todo' = [todo EXCEPT ![w] = {}]
  /\ heard' = IF processed THEN [heard EXCEPT ![cur[w]] = @ \cup {d}] ELSE heard
  /\ UNCHANGED <<table, hand, cur, stopping, owed, reclaimed, notices,
                 hooks, nextHook, faults>>

(* The loop moves on to the rest of the batch, or back to the ticker.      *)
Settle(w) ==
  /\ hand' = [hand EXCEPT ![w] = @ \ {cur[w]}]
  /\ cur' = [cur EXCEPT ![w] = NoRow]
  /\ phase' = [phase EXCEPT ![w] = IF hand[w] = {cur[w]} THEN "poll" ELSE "batch"]
  /\ UNCHANGED <<todo, stopping>>

(* Mutant: the fan-out returns after the first endpoint that accepted.     *)
MarkDoneAfterFirst(w) ==
  /\ phase[w] = "send" /\ (todo[w] = {} \/ todo[w] # Audience(cur[w], hooks))
  /\ status' = [status EXCEPT ![cur[w]] = "done"]
  /\ Settle(w)
  /\ UNCHANGED <<retry, old, record, hooks, nextHook, faults>>

(* MarkDone has no guard on the row's current status.                      *)
MarkDone(w) ==
  /\ phase[w] = "send" /\ todo[w] = {}
  /\ status' = [status EXCEPT ![cur[w]] = "done"]
  /\ Settle(w)
  /\ UNCHANGED <<retry, old, record, hooks, nextHook, faults>>

(* Mutant: the budget is compared with > instead of >=.                    *)
DeadLate(r) == retry[r] + 1 > MaxRetries

Dead(r) == retry[r] + 1 >= MaxRetries

(* Mutant: the counter runs down instead of up.                            *)
FailRowDown(r) ==
  /\ retry' = [retry EXCEPT ![r] = @ - 1]
  /\ status' = [status EXCEPT ![r] = IF Dead(r) THEN "failed" ELSE "pending"]
  /\ UNCHANGED old

(* Neither has MarkFailedWithRetry.  claimed_at is left alone.             *)
FailRow(r) ==
  /\ retry' = [retry EXCEPT ![r] = @ + 1]
  /\ status' = [status EXCEPT ![r] = IF Dead(r) THEN "failed" ELSE "pending"]
  /\ UNCHANGED old

(* Mutant: every failure notifies, not only the one that kills the row.    *)
MarkFailedAndNotify(w) ==
  /\ phase[w] = "fail"
  /\ FailRow(cur[w])
  /\ phase' = [phase EXCEPT ![w] = "notify"]
  /\ UNCHANGED <<hand, cur, todo, stopping>>
  /\ UNCHANGED <<record, hooks, nextHook, faults>>

MarkFailedWithRetry(w) ==
  /\ phase[w] = "fail"
  /\ FailRow(cur[w])
  /\ IF Dead(cur[w]) /\ cur[w] \in ContentRows
     THEN /\ phase' = [phase EXCEPT ![w] = "notify"]
          /\ UNCHANGED <<hand, cur, todo, stopping>>
     ELSE Settle(w)
  /\ UNCHANGED <<record, hooks, nextHook, faults>>

NotifyDeadLetter(w) ==
  /\ phase[w] = "notify"
  /\ notices' = [notices EXCEPT ![cur[w]] = @ + 1]
  /\ Settle(w)
  /\ UNCHANGED <<table, heard, owed, reclaimed, hooks, nextHook, faults>>

-----------------------------------------------------------------------------
(* Faults.                                                                 *)

(* A repository call returns an error.  A failed mark may or may not have  *)
(* been applied; the loop logs it and goes on, and sends no notice.        *)
MarkError(w, applied) ==
  /\ Fault
  /\ \/ /\ phase[w] = "send" /\ todo[w] = {}
        /\ IF applied
           THEN status' = [status EXCEPT ![cur[w]] = "done"] /\ UNCHANGED <<retry, old>>
           ELSE UNCHANGED table
     \/ /\ phase[w] = "fail"
        /\ IF applied THEN FailRow(cur[w]) ELSE UNCHANGED table
  /\ Settle(w)
  /\ UNCHANGED <<record, hooks, nextHook>>

(* ReclaimStale or ClaimPending fails, or the directory cannot be read.    *)
ReclaimError(w) ==
  /\ Fault
  /\ phase[w] = "poll" /\ w \notin stopping
  /\ phase' = [phase EXCEPT ![w] = "claim"]
  /\ UNCHANGED <<table, hand, cur, todo, stopping, record, hooks, nextHook>>

ClaimError(w) ==
  /\ Fault
  /\ phase[w] = "claim"
  /\ phase' = [phase EXCEPT ![w] = "poll"]
  /\ UNCHANGED <<table, hand, cur, todo, stopping, record, hooks, nextHook>>

DirectoryError(w, r) ==
  /\ Fault
  /\ phase[w] = "batch" /\ r \in hand[w] \cap ContentRows
  /\ cur' = [cur EXCEPT ![w] = r]
  /\ phase' = [phase EXCEPT ![w] = "fail"]
  /\ UNCHANGED <<table, hand, todo, stopping, record, hooks, nextHook>>

(* Graceful shutdown: the context is cancelled, the batch is still walked  *)
(* to its end, Run returns and a new process takes over.                   *)
Shutdown(w) ==
  /\ Fault
  /\ w \notin stopping
  /\ stopping' = stopping \cup {w}
  /\ UNCHANGED <<table, phase, hand, cur, todo, record, hooks, nextHook>>

Restart(w) ==
  /\ w \in stopping /\ phase[w] = "poll"
  /\ stopping' = stopping \ {w}
  /\ UNCHANGED <<table, phase, hand, cur, todo, record, hooks, nextHook, faults>>

(* The process dies with rows in hand; its replacement knows none of them. *)
Crash(w) ==
  /\ Fault
  /\ phase' = [phase EXCEPT ![w] = "poll"]
  /\ hand' = [hand EXCEPT ![w] = {}]
  /\ cur' = [cur EXCEPT ![w] = NoRow]
  /\ todo' = [todo EXCEPT ![w] = {}]
  /\ stopping' = stopping \ {w}
  /\ UNCHANGED <<table, record, hooks, nextHook>>

-----------------------------------------------------------------------------
WorkerStep(w) ==
  \/ ReclaimStale(w) \/ ClaimPending(w) \/ ClaimCancelled(w)
  \/ \E r \in Rows : Deliver(w, r) \/ DeliverUnrouted(w, r) \/ DeliverCancelled(w, r)
  \/ \E d \in Dests : SendOk(w, d) \/ \E p \in BOOLEAN : SendFail(w, d, p)
  \/ MarkDone(w) \/ MarkFailedWithRetry(w) \/ NotifyDeadLetter(w) \/ Restart(w)

FaultStep(w) ==
  \/ \E a \in BOOLEAN : MarkError(w, a)
  \/ ReclaimError(w) \/ ClaimError(w)
  \/ \E r \in Rows : DirectoryError(w, r)
  \/ Shutdown(w) \/ Crash(w)

Next ==
  \/ \E r \in Rows : EnqueueTx(r) \/ Age(r)
  \/ CreateWebhook
  \/ \E e \in Hooks : DeleteWebhook(e)
  \/ \E w \in Workers : WorkerStep(w) \/ FaultStep(w)

(* The ticker keeps firing, every call has a timeout, and time passes.     *)
(* Nothing is assumed about the outcome of a delivery.                     *)
Fairness ==
  /\ \A w \in Workers : WF_vars(WorkerStep(w))
  /\ \A r \in Rows : WF_vars(Age(r))

Spec == Init /\ [][Next]_vars
FairSpec == Spec /\ Fairness

-----------------------------------------------------------------------------
(* The inductive invariant behind the properties, in named parts.          *)

Delivering == {"send", "fail", "notify"}

(* A worker works on a row it holds; between batches it holds none.        *)
HandInv ==
  \A w \in Workers :
    /\ phase[w] \in Delivering => cur[w] \in hand[w]
    /\ phase[w] \in {"poll", "claim"} => hand[w] = {}
    /\ \A r \in hand[w] : status[r] # "none"

(* In the middle of a fan-out only the destinations still to do are owed.  *)
FanoutInv ==
  /\ \A r \in Rows : owed[r] \subseteq Audience(r, hooks)
  /\ \A w \in Workers : phase[w] = "send" =>
        owed[cur[w]] \subseteq heard[cur[w]] \cup todo[w]

(* Workers that may still count a failure against r.                       *)
Holders(r) ==
  {w \in Workers : r \in hand[w] /\ ~(phase[w] = "notify" /\ cur[w] = r)}

(* Past the budget, every further failure uses up one of the holders.      *)
BudgetInv ==
  \A r \in Rows :
    /\ status[r] \in {"none", "pending", "processing"} => retry[r] < MaxRetries
    /\ retry[r] >= MaxRetries =>
         retry[r] + Cardinality(Holders(r)) < MaxRetries + Cardinality(Workers)

(* The holder of a row that was never reclaimed is alone, and the row is   *)
(* in processing until that holder settles it.                             *)
ClaimInv ==
  \A r \in Rows \ reclaimed : \A w \in Workers : r \in hand[w] =>
    /\ \A v \in Workers : r \in hand[v] => v = w
    /\ IF phase[w] = "notify" /\ cur[w] = r
       THEN status[r] = "failed" ELSE status[r] = "processing"

(* A worker about to notify has just killed the content row it holds.      *)
NoticeInv ==
  /\ \A w \in Workers : phase[w] = "notify" =>
        cur[w] \in ContentRows /\ retry[cur[w]] >= MaxRetries
  /\ \A r \in Rows : notices[r] > 0 => r \in ContentRows /\ retry[r] >= MaxRetries

(* An endpoint is on a list of destinations only if it was registered, and *)
(* MCP only on that of a user event.                                       *)
Registered == 1 .. nextHook - 1

AddressInv ==
  /\ hooks \subseteq Registered
  /\ \A w \in Workers : phase[w] = "send" => todo[w] \subseteq Audience(cur[w], Registered)

-----------------------------------------------------------------------------
(* What the outbox promises.  Who has claimed a row does not matter to it. *)

Fate(s) ==
  CASE s = "none" -> "none"
    [] s \in {"pending", "processing"} -> "open"
    [] s = "done" -> "done"
    [] s = "failed" -> "dead"

Promise == INSTANCE EventDelivery WITH
  Events <- Rows, UserEvents <- UserRows, ContentEvents <- ContentRows,
  Endpoints <- Hooks, Gateway <- MCP,
  fate <- [r \in Rows |-> Fate(status[r])], tries <- retry,
  active <- hooks, known <- Registered, told <- notices

-----------------------------------------------------------------------------
(* Properties.                                                             *)

(* Claims, batches, the reaper, deployments and crashes are invisible: the *)
(* poll loop and its SQL implement what the outbox promises, in which done *)
(* means heard and dead means the tries are spent, at every step.          *)
KeepsPromise == Promise!Spec

(* MarkDone is only reached after the whole fan-out: a row marked done has *)
(* been processed by every destination that was subscribed without a break *)
(* since the event was committed.  This is the at-least-once promise, and  *)
(* it has to survive crashes, reclaimed claims, two workers on one row and *)
(* changes of the registry during the fan-out.                             *)
DoneMeansHeard ==
  \A r \in Rows : status[r] = "done" => owed[r] \subseteq heard[r]

(* MarkFailedWithRetry's budget: a row that can still be claimed has       *)
(* budget left, and the count oversteps maxRetries by at most one for each *)
(* other worker still holding a reclaimed copy of the row.                 *)
RetryBudget ==
  \A r \in Rows :
    /\ status[r] \in {"pending", "processing"} => retry[r] < MaxRetries
    /\ retry[r] < MaxRetries + Cardinality(Workers)

(* ClaimPending with SKIP LOCKED makes a claim exclusive: two workers have *)
(* the same row in hand only if ReclaimStale took it back in between.      *)
ExclusiveClaim ==
  \A r \in Rows \ reclaimed : \A v, w \in Workers :
    r \in hand[v] /\ r \in hand[w] => v = w

(* notifyDeadLetter runs after the dead state is committed, and only for a *)
(* content event: no notice for a row that still has retries.              *)
NoticeMeansDead ==
  \A r \in Rows : notices[r] > 0 => r \in ContentRows /\ retry[r] >= MaxRetries

(* Although MarkDone and MarkFailedWithRetry have no guard on the status,  *)
(* a settled row only moves again when its claim had once been reclaimed.  *)
SettledUnlessReclaimed ==
  [][\A r \in Rows : status[r] \in {"done", "failed"} /\ r \notin reclaimed
        => status'[r] = status[r]]_vars

(* No event is stranded: whatever receivers answer, and wherever a worker  *)
(* dies, every committed row ends for good in done or in the dead letters. *)
EveryEventSettles ==
  \A r \in Rows : status[r] = "pending" ~> [](status[r] \in {"done", "failed"})

(* A row is done only when all who were owed the event heard it, and reported
   as dead only when its retries are spent (worker.go deliver, notifyDeadLetter). *)
RowsSound == TypeOK /\ DoneMeansHeard /\ NoticeMeansDead

=============================================================================
