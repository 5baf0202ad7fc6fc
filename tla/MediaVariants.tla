---------------------------- MODULE MediaVariants ----------------------------
(***************************************************************************)
(* One media asset: its row, the rows of its renderings, the bytes in the  *)
(* object store, and those at work on it: requests that complete, enqueue  *)
(* and delete, and the replicas of the transform worker.                   *)
(*                                                                         *)
(* A replica claims the due rows with their locks, renders into the store, *)
(* records the outcomes and commits; the store is not part of the          *)
(* transaction.  An attempt that failed is charged by a second one.  The   *)
(* row of the original, which is never rendered, is left out.              *)
(***************************************************************************)
EXTENDS Integers, FiniteSets

CONSTANTS
  Presets,     \* the renderings of an image
  Replicas,    \* processes that run the transform worker
  Requests,    \* requests to complete or to delete
  MaxAttempts, \* domain.MaxMediaVariantAttempts
  MaxFaults    \* bound on crashes, and on errors nothing else explains

ASSUME MediaAssumption ==
  /\ IsFiniteSet(Presets)
  /\ MaxAttempts \in Nat \ {0} /\ MaxFaults \in Nat

VARIABLES
  asset,    \* the row of media_assets and whether an entry refers to it
  rows,     \* media_variants
  objects,  \* the renderings in the store
  source,   \* the bytes that were uploaded
  worker,   \* what each replica has claimed and done
  request,  \* what each request has read
  faults    \* crashes and unexplained errors so far

mediaVars == <<asset, rows, objects, source, worker, request, faults>>

-----------------------------------------------------------------------------
(* Bytes that pass the checks render or break the decoder.                 *)
Bytes == {"none", "image", "poison", "junk"}
AssetStates == {"none", "reserved", "uploaded", "gone"}
RowStates == {"absent", "pending", "done", "skipped", "failed"}

Absent == [state |-> "absent", key |-> FALSE, attempts |-> 0, due |-> TRUE]
Resting == [stage |-> "idle", rows |-> {}, todo |-> {}, out |-> [p \in Presets |-> "none"]]
NoRequest == [op |-> "none", stage |-> "idle", uploaded |-> FALSE, keys |-> {}, late |-> FALSE]

MediaInit ==
  /\ asset = [state |-> "none", referenced |-> FALSE]
  /\ rows = [p \in Presets |-> Absent]
  /\ objects = {}
  /\ source = "none"
  /\ worker = [r \in Replicas |-> Resting]
  /\ request = [q \in Requests |-> NoRequest]
  /\ faults = 0

Exists == asset.state \in {"reserved", "uploaded"}
ClaimedBy(r) == IF worker[r].stage = "rendering" THEN worker[r].rows ELSE {}
Claimed == UNION {ClaimedBy(r) : r \in Replicas}
SelectedBy(q) == IF request[q].stage = "selected" THEN request[q].keys ELSE {}
Selected == UNION {SelectedBy(q) : q \in Requests}
Locked == Claimed \cup Selected

-----------------------------------------------------------------------------
(* Uploading.                                                              *)

CreateMediaUpload ==
  /\ asset.state = "none"
  /\ asset' = [asset EXCEPT !.state = "reserved"]
  /\ UNCHANGED <<rows, objects, source, worker, request, faults>>

(* The form goes straight to the store, and outlives the asset's row.      *)
(* Until when it is valid is left out.                                     *)
Upload(b) ==
  /\ asset.state # "none" /\ b # "none"
  /\ source' = b
  /\ UNCHANGED <<asset, rows, objects, worker, request, faults>>

Ask(q, next) ==
  /\ request' = [request EXCEPT ![q] = next]
  /\ UNCHANGED <<asset, rows, objects, source, worker, faults>>

Idle(q) == request[q].stage = "idle"

(* What landed is measured; what breaks a limit is discarded.              *)
CompleteMediaUpload(q) ==
  /\ Idle(q) /\ Exists /\ source # "none"
  /\ Ask(q, IF source = "junk"
            THEN [NoRequest EXCEPT !.op = "discard", !.stage = "counted"]
            ELSE [NoRequest EXCEPT !.op = "complete", !.stage = "measured"])

(* EnqueueMediaVariants keeps a key, and starts the attempts over.         *)
Requeued(p) == [Absent EXCEPT !.state = "pending", !.key = rows[p].key]

(* Marking and enqueueing are one transaction.                             *)
MarkMediaUploaded(q) ==
  /\ request[q].stage = "measured"
  /\ IF ~Exists THEN Ask(q, NoRequest)
     ELSE /\ Locked = {}
          /\ asset' = [asset EXCEPT !.state = "uploaded"]
          /\ rows' = [p \in Presets |-> Requeued(p)]
          /\ request' = [request EXCEPT ![q] = NoRequest]
          /\ UNCHANGED <<objects, source, worker, faults>>

EnqueueMediaVariants ==
  /\ asset.state = "uploaded" /\ Locked = {}
  /\ rows' = [p \in Presets |-> Requeued(p)]
  /\ UNCHANGED <<asset, objects, source, worker, request, faults>>

(* Entries may name an uploaded asset, and stop.                           *)
Refer(b) ==
  /\ asset.state = "uploaded" /\ asset.referenced # b
  /\ asset' = [asset EXCEPT !.referenced = b]
  /\ request' = [q \in Requests |-> [request[q] EXCEPT !.late = @ \/ (b /\ request[q].op = "delete")]]
  /\ UNCHANGED <<rows, objects, source, worker, faults>>

-----------------------------------------------------------------------------
(* Deleting: by a request, by the sweep of orphans, or as a discard.       *)

Bounded == faults < MaxFaults
Fault == faults + 1

(* Mutant: the references are not counted.                                 *)
DeleteUncounted(q, force) ==
  /\ Idle(q) /\ Exists
  /\ Ask(q, [NoRequest EXCEPT !.op = IF force THEN "force" ELSE "delete",
                              !.stage = "counted", !.uploaded = asset.state = "uploaded"])

(* The asset as it was read decides whether there are bytes to delete.     *)
DeleteMediaAsset(q, force) ==
  /\ Idle(q) /\ Exists
  /\ force \/ ~asset.referenced
  /\ Ask(q, [NoRequest EXCEPT !.op = IF force THEN "force" ELSE "delete",
                              !.stage = "counted", !.uploaded = asset.state = "uploaded"])

Keyed == {p \in Presets : rows[p].state # "absent" /\ rows[p].key}

(* SELECT ... FOR UPDATE waits for the rows it sees: those with a key.     *)
SelectKeys(q) ==
  /\ request[q].stage = "counted"
  /\ IF ~Exists
     THEN Ask(q, IF request[q].op = "discard"
                 THEN [request[q] EXCEPT !.stage = "cleaning"] ELSE NoRequest)
     ELSE /\ Keyed \cap Locked = {}
          /\ Ask(q, [request[q] EXCEPT !.stage = "selected", !.keys = Keyed])

(* Mutant: the rows go without waiting for the claim that holds them.      *)
DeleteUnderClaim(q) ==
  /\ request[q].stage = "selected"
  /\ IF Exists
     THEN /\ asset' = [state |-> "gone", referenced |-> FALSE]
          /\ rows' = [p \in Presets |-> Absent]
          /\ request' = [request EXCEPT ![q].stage = "cleaning"]
          /\ UNCHANGED <<objects, source, worker, faults>>
     ELSE Ask(q, IF request[q].op = "discard"
                 THEN [request[q] EXCEPT !.stage = "cleaning"] ELSE NoRequest)

(* The cascade waits for every row; the rows go with the asset.            *)
DeleteRow(q) ==
  /\ request[q].stage = "selected"
  /\ Locked \subseteq SelectedBy(q)
  /\ IF Exists
     THEN /\ asset' = [state |-> "gone", referenced |-> FALSE]
          /\ rows' = [p \in Presets |-> Absent]
          /\ request' = [request EXCEPT ![q].stage = "cleaning"]
          /\ UNCHANGED <<objects, source, worker, faults>>
     ELSE Ask(q, IF request[q].op = "discard"
                 THEN [request[q] EXCEPT !.stage = "cleaning"] ELSE NoRequest)

(* The transaction fails: a discard goes on to delete the bytes.           *)
DeletionFails(q) ==
  /\ request[q].stage \in {"counted", "selected"} /\ Bounded
  /\ request' = [request EXCEPT ![q] =
       IF request[q].op = "discard" THEN [request[q] EXCEPT !.stage = "cleaning"]
       ELSE NoRequest]
  /\ faults' = Fault
  /\ UNCHANGED <<asset, rows, objects, source, worker>>

(* Mutant: the bytes go before the rows do.                                *)
BytesFirst(q) ==
  /\ request[q].stage \in {"selected", "cleaning"}
  /\ objects' = IF request[q].op = "discard" THEN objects ELSE objects \ request[q].keys
  /\ source' = IF request[q].op = "discard" \/ request[q].uploaded THEN "none" ELSE source
  /\ request' = [request EXCEPT ![q] =
       IF request[q].stage = "cleaning" THEN NoRequest ELSE request[q]]
  /\ UNCHANGED <<asset, rows, worker, faults>>

(* Bytes last.  A discard takes the upload and forgets the renderings.     *)
DeleteObjects(q) ==
  /\ request[q].stage = "cleaning"
  /\ objects' = IF request[q].op = "discard" THEN objects ELSE objects \ request[q].keys
  /\ source' = IF request[q].op = "discard" \/ request[q].uploaded THEN "none" ELSE source
  /\ request' = [request EXCEPT ![q] = NoRequest]
  /\ UNCHANGED <<asset, rows, worker, faults>>

RequestStep(q) ==
  \/ CompleteMediaUpload(q)
  \/ MarkMediaUploaded(q)
  \/ \E force \in BOOLEAN : DeleteMediaAsset(q, force)
  \/ SelectKeys(q)
  \/ DeleteRow(q)
  \/ DeletionFails(q)
  \/ DeleteObjects(q)

-----------------------------------------------------------------------------
(* The transform worker.                                                   *)

Due == {p \in Presets : rows[p].state = "pending" /\ rows[p].due}

Turn(r, next) ==
  /\ worker' = [worker EXCEPT ![r] = next]
  /\ UNCHANGED <<asset, rows, objects, source, request, faults>>

(* FOR UPDATE SKIP LOCKED.                                                 *)
ClaimPendingMediaVariants(r) ==
  /\ worker[r].stage = "idle" /\ Due \ Locked # {}
  /\ Turn(r, [Resting EXCEPT !.stage = "rendering", !.rows = Due \ Locked,
                             !.todo = Due \ Locked])

(* Bytes that cannot be read, or break the decoder, fail the attempt; so   *)
(* do a render, a put and a timeout.  The claim is rolled back, and the    *)
(* objects put so far stay.                                                *)
RenderFails(r) ==
  /\ worker[r].stage = "rendering" /\ worker[r].todo # {}
  /\ source \in {"none", "poison"}
  /\ Turn(r, [Resting EXCEPT !.stage = "failed"])

RenderErrs(r) ==
  /\ worker[r].stage = "rendering" /\ Bounded
  /\ worker' = [worker EXCEPT ![r] = [Resting EXCEPT !.stage = "failed"]]
  /\ faults' = Fault
  /\ UNCHANGED <<asset, rows, objects, source, request>>

Recorded(r, p, outcome) ==
  [worker[r] EXCEPT !.todo = @ \ {p}, !.out = [@ EXCEPT ![p] = outcome]]

(* A source that is no image is failed for good, one too small is skipped. *)
RenderNothing(r, p) ==
  /\ worker[r].stage = "rendering" /\ p \in worker[r].todo
  /\ source \in {"image", "junk"}
  /\ Turn(r, Recorded(r, p, IF source = "junk" THEN "failed" ELSE "skipped"))

Render(r, p) ==
  /\ worker[r].stage = "rendering" /\ p \in worker[r].todo
  /\ source = "image"
  /\ objects' = objects \cup {p}
  /\ worker' = [worker EXCEPT ![r] = Recorded(r, p, "done")]
  /\ UNCHANGED <<asset, rows, source, request, faults>>

Finished(p, outcome) ==
  CASE outcome = "done"    -> [rows[p] EXCEPT !.state = "done", !.key = TRUE, !.due = TRUE]
    [] outcome = "skipped" -> [rows[p] EXCEPT !.state = "skipped", !.due = TRUE]
    [] outcome = "failed"  -> [rows[p] EXCEPT !.state = "failed", !.attempts = @ + 1, !.due = TRUE]

(* FinishMediaVariant finds every row: the lock of the claim holds it.     *)
CommitRendering(r) ==
  /\ worker[r].stage = "rendering" /\ worker[r].todo = {}
  /\ rows' = [p \in Presets |-> IF p \in worker[r].rows
                                THEN Finished(p, worker[r].out[p]) ELSE rows[p]]
  /\ worker' = [worker EXCEPT ![r] = Resting]
  /\ UNCHANGED <<asset, objects, source, request, faults>>

(* Mutant: the last attempt is retried too.                                *)
ChargedAgain(p) ==
  [rows[p] EXCEPT !.attempts = @ + 1, !.due = FALSE,
     !.state = IF rows[p].attempts + 1 > MaxAttempts THEN "failed" ELSE "pending"]

(* Mutant: no attempt is the last.                                         *)
ChargedForEver(p) ==
  [rows[p] EXCEPT !.due = FALSE,
     !.attempts = IF rows[p].attempts + 1 >= MaxAttempts THEN rows[p].attempts ELSE @ + 1]

(* failure: the last attempt fails the row, another waits for its backoff. *)
Charged(p) ==
  [rows[p] EXCEPT !.attempts = @ + 1, !.due = FALSE,
     !.state = IF rows[p].attempts + 1 >= MaxAttempts THEN "failed" ELSE "pending"]

(* The rows are claimed afresh, skipping those that are locked: whatever   *)
(* else is due now is charged.                                             *)
MarkRetry(r) ==
  /\ worker[r].stage = "failed"
  /\ rows' = [p \in Presets |-> IF p \in Due \ Locked THEN Charged(p) ELSE rows[p]]
  /\ worker' = [worker EXCEPT ![r] = Resting]
  /\ UNCHANGED <<asset, objects, source, request, faults>>

MarkRetryFails(r) ==
  /\ worker[r].stage = "failed" /\ Bounded
  /\ worker' = [worker EXCEPT ![r] = Resting]
  /\ faults' = Fault
  /\ UNCHANGED <<asset, rows, objects, source, request>>

Backoff(p) ==
  /\ rows[p].state = "pending" /\ ~rows[p].due /\ p \notin Locked
  /\ rows' = [rows EXCEPT ![p].due = TRUE]
  /\ UNCHANGED <<asset, objects, source, worker, request, faults>>

(* The claim dies with the process, and charges nobody.                    *)
Crash(r) ==
  /\ worker[r].stage # "idle" /\ Bounded
  /\ worker' = [worker EXCEPT ![r] = Resting]
  /\ faults' = Fault
  /\ UNCHANGED <<asset, rows, objects, source, request>>

Tick(r) ==
  \/ ClaimPendingMediaVariants(r)
  \/ RenderFails(r)
  \/ \E p \in Presets : RenderNothing(r, p) \/ Render(r, p)
  \/ CommitRendering(r)
  \/ MarkRetry(r)

WorkerFaults(r) == RenderErrs(r) \/ MarkRetryFails(r) \/ Crash(r)

Editors ==
  \/ CreateMediaUpload
  \/ \E b \in Bytes : Upload(b)
  \/ EnqueueMediaVariants
  \/ \E b \in BOOLEAN : Refer(b)

MediaNext ==
  \/ Editors
  \/ \E q \in Requests : RequestStep(q)
  \/ \E r \in Replicas : Tick(r) \/ WorkerFaults(r)
  \/ \E p \in Presets : Backoff(p)

(* The worker ticks, requests are served to their end, and time passes;    *)
(* editors and faults owe nothing.  That a charge meets its rows unlocked  *)
(* is not assumed: SKIP LOCKED passes by what another replica has claimed. *)
MediaFairness ==
  /\ \A r \in Replicas : WF_mediaVars(Tick(r))
  /\ \A q \in Requests :
       WF_mediaVars(SelectKeys(q) \/ DeleteRow(q) \/ DeleteObjects(q) \/ MarkMediaUploaded(q))
  /\ \A p \in Presets : WF_mediaVars(Backoff(p))

MediaSpec == MediaInit /\ [][MediaNext]_mediaVars
FairMediaSpec == MediaSpec /\ MediaFairness

-----------------------------------------------------------------------------
(* Type invariant of the asset, its bytes and those at work on it.         *)
MediaTypeOK ==
  /\ asset \in [state : AssetStates, referenced : BOOLEAN]
  /\ rows \in [Presets -> [state : RowStates, key : BOOLEAN, attempts : 0..MaxAttempts,
                           due : BOOLEAN]]
  /\ objects \subseteq Presets
  /\ source \in Bytes
  /\ worker \in [Replicas -> [stage : {"idle", "rendering", "failed"}, rows : SUBSET Presets,
                              todo : SUBSET Presets,
                              out : [Presets -> {"none", "done", "skipped", "failed"}]]]
  /\ request \in [Requests -> [op : {"none", "complete", "delete", "force", "discard"},
                               stage : {"idle", "measured", "counted", "selected", "cleaning"},
                               uploaded : BOOLEAN, keys : SUBSET Presets, late : BOOLEAN]]
  /\ faults \in 0..MaxFaults

(* No row points at deleted bytes: a rendering with a key is in the store  *)
(* as long as its row is there, and so is the source of an uploaded asset  *)
(* unless the deletion of a discard failed.                                *)
RowsHaveBytes ==
  /\ \A p \in Presets : rows[p].key => p \in objects
  /\ asset.state = "uploaded" /\ faults = 0 => source # "none"

(* Two replicas never render one row, and nobody renders a row that is     *)
(* gone: the cascade of a deletion waits for the claim.                    *)
ClaimHolds ==
  /\ \A r, s \in Replicas : r # s => ClaimedBy(r) \cap ClaimedBy(s) = {}
  /\ \A r \in Replicas : \A p \in ClaimedBy(r) : rows[p].state = "pending"

(* Unforced, an asset that entries refer to goes only if they came to      *)
(* refer to it after they were counted: the sweep's recheck narrows the    *)
(* window that its comment calls closed, and a reference taken after the   *)
(* recheck still loses the asset.                                          *)
ReferencedSurvives ==
  [][asset.state # "gone" /\ asset'.state = "gone" /\ asset.referenced =>
       \E q \in Requests : request[q].stage = "selected"
         /\ (request[q].op # "delete" \/ request[q].late)]_mediaVars

(* Rows waiting to be rendered come to rest or go, through failures,       *)
(* crashes and other replicas, unless they are enqueued again and again or *)
(* charges find them claimed by another replica again and again.           *)
RenderingsSettle ==
  \/ \A p \in Presets : (rows[p].state = "pending") ~> (rows[p].state # "pending")
  \/ []<><<EnqueueMediaVariants \/ \E q \in Requests : MarkMediaUploaded(q)>>_mediaVars
  \/ []<><<\E r \in Replicas : MarkRetry(r) /\ Due \cap Claimed # {}>>_mediaVars

(* DeleteMediaAsset's comment: "waiting here means the keys it commits are *)
(* the keys we return".                                                    *)
CommittedKeysReturned ==
  [][\A q \in Requests :
       request[q].stage = "selected" /\ request'[q].stage = "cleaning" /\ Exists
         => Keyed \subseteq request[q].keys]_mediaVars

(* Rows that claim a rendering have its bytes, and their attempts stay within
   the budget (mediatransform/worker.go renderAll, markRetry). *)
RenditionsSound == MediaTypeOK /\ RowsHaveBytes

=============================================================================
