---------------------------- MODULE ContentProofs ----------------------------
(***************************************************************************)
(* Proofs about what entries hold besides plain values: their assets and   *)
(* renderings (MediaVariants), for every set of presets, of replicas and   *)
(* of requests, every budget of attempts and every number of faults, and   *)
(* their component items (SchemaComponents), for all sets of components,   *)
(* names, sub-fields, calls and writers; and about how they are read back  *)
(* (EntryReads), for all entries, relations, role lists, readers and paths,*)
(* and any number of writes beside the read.                               *)
(***************************************************************************)
EXTENDS MediaVariants, SchemaComponents, EntryReads, FiniteSetTheorems, SequenceTheorems, TLAPS

-----------------------------------------------------------------------------
(* MediaVariants.                                                          *)

(* What a replica holds while it renders: rows still pending, and of those *)
(* it has done with an outcome each, the rendering being in the store.     *)
WorkInv ==
  /\ \A r \in Replicas : worker[r].stage = "rendering" =>
       /\ worker[r].todo \subseteq worker[r].rows
       /\ \A p \in worker[r].rows \ worker[r].todo :
            /\ worker[r].out[p] # "none"
            /\ worker[r].out[p] = "done" => p \in objects
  /\ \A p \in Presets : rows[p].state = "pending" => rows[p].attempts < MaxAttempts

(* The locks of requests and of claims exclude each other.                 *)
LockInv ==
  /\ ClaimHolds
  /\ \A r \in Replicas, q \in Requests : ClaimedBy(r) \cap SelectedBy(q) = {}

(* An asset is gone for good, and its rows with it, before any rendering   *)
(* is deleted.                                                             *)
GoneInv ==
  /\ asset.state = "gone" => \A p \in Presets : rows[p] = Absent
  /\ \A q \in Requests :
       /\ ~Idle(q) => asset.state # "none"
       /\ request[q].stage = "cleaning" /\ (faults = 0 \/ request[q].op # "discard")
            => asset.state = "gone"

(* Bytes that were measured are there until the asset goes.                *)
SourceInv ==
  \A q \in Requests : request[q].stage = "measured" /\ Exists /\ faults = 0 => source # "none"

(* A deletion that was not overtaken by a reference finds none.            *)
CountInv ==
  \A q \in Requests :
    request[q].stage \in {"counted", "selected"} /\ request[q].op = "delete"
      /\ ~request[q].late => ~asset.referenced

MediaInv == /\ MediaTypeOK /\ WorkInv /\ LockInv /\ GoneInv /\ SourceInv /\ CountInv
            /\ RowsHaveBytes

-----------------------------------------------------------------------------
Asset == [state : AssetStates, referenced : BOOLEAN]
Row == [state : RowStates, key : BOOLEAN, attempts : 0..MaxAttempts, due : BOOLEAN]
Outcomes == {"none", "done", "skipped", "failed"}
Worker == [stage : {"idle", "rendering", "failed"}, rows : SUBSET Presets,
           todo : SUBSET Presets, out : [Presets -> Outcomes]]
Request == [op : {"none", "complete", "delete", "force", "discard"},
            stage : {"idle", "measured", "counted", "selected", "cleaning"},
            uploaded : BOOLEAN, keys : SUBSET Presets, late : BOOLEAN]

LEMMA TypeForm ==
  MediaTypeOK <=> /\ asset \in Asset
                  /\ rows \in [Presets -> Row]
                  /\ objects \subseteq Presets
                  /\ source \in Bytes
                  /\ worker \in [Replicas -> Worker]
                  /\ request \in [Requests -> Request]
                  /\ faults \in 0..MaxFaults
BY DEF MediaTypeOK, Asset, Row, Worker, Request, Outcomes

LEMMA Rests == Absent \in Row /\ Resting \in Worker /\ NoRequest \in Request
BY MediaAssumption DEF Absent, Row, RowStates, Resting, Worker, Outcomes, NoRequest, Request

(* Records whose stage, keys or mark changes stay requests.                *)
LEMMA RequestFields ==
  ASSUME NEW r \in Request, NEW K \in SUBSET Presets, NEW b \in BOOLEAN,
         NEW op \in {"none", "complete", "delete", "force", "discard"},
         NEW stage \in {"idle", "measured", "counted", "selected", "cleaning"}
  PROVE  /\ [r EXCEPT !.stage = stage] \in Request
         /\ [r EXCEPT !.stage = stage, !.keys = K] \in Request
         /\ [r EXCEPT !.late = b] \in Request
         /\ [r EXCEPT !.op = op, !.stage = stage] \in Request
         /\ [r EXCEPT !.op = op, !.stage = stage, !.uploaded = b] \in Request
BY DEF Request

(* A step of a request changes no other request.                           *)
LEMMA RequestForm ==
  ASSUME MediaTypeOK, NEW q \in Requests, RequestStep(q)
  PROVE  /\ \E r \in Request : request' = [request EXCEPT ![q] = r]
         /\ worker' = worker
         /\ faults' \in {faults, faults + 1} /\ faults' \in 0..MaxFaults
<1> USE TypeForm, Rests
<1>0. Keyed \subseteq Presets /\ request[q] \in Request
  BY DEF Keyed
<1> DEFINE Goal == /\ \E r \in Request : request' = [request EXCEPT ![q] = r]
                   /\ worker' = worker
                   /\ faults' \in {faults, faults + 1} /\ faults' \in 0..MaxFaults
<1>1. ASSUME CompleteMediaUpload(q) PROVE Goal
  BY <1>0, <1>1, RequestFields DEF CompleteMediaUpload, Ask
<1>2. ASSUME MarkMediaUploaded(q) PROVE Goal
  BY <1>2 DEF MarkMediaUploaded, Ask
<1>3. ASSUME NEW force \in BOOLEAN, DeleteMediaAsset(q, force) PROVE Goal
  <2> DEFINE r == [NoRequest EXCEPT !.op = IF force THEN "force" ELSE "delete",
                      !.stage = "counted", !.uploaded = asset.state = "uploaded"]
  <2>1. r \in Request
    BY RequestFields
  <2> QED BY <1>3, <2>1 DEF DeleteMediaAsset, Ask
<1>4. ASSUME SelectKeys(q) PROVE Goal
  BY <1>0, <1>4, RequestFields DEF SelectKeys, Ask
<1>5. ASSUME DeleteRow(q) PROVE Goal
  <2>1. [request[q] EXCEPT !.stage = "cleaning"] \in Request
    BY <1>0, RequestFields
  <2>2. [request EXCEPT ![q].stage = "cleaning"]
          = [request EXCEPT ![q] = [request[q] EXCEPT !.stage = "cleaning"]]
    OBVIOUS
  <2> QED BY <1>5, <2>1, <2>2 DEF DeleteRow, Ask
<1>6. ASSUME DeletionFails(q) PROVE Goal
  <2>1. [request[q] EXCEPT !.stage = "cleaning"] \in Request
    BY <1>0, RequestFields
  <2>2. faults' = faults + 1 /\ faults' \in 0..MaxFaults /\ worker' = worker
    BY <1>6, MediaAssumption DEF DeletionFails, Bounded, Fault
  <2> QED BY <1>6, <2>1, <2>2 DEF DeletionFails
<1>7. ASSUME DeleteObjects(q) PROVE Goal
  BY <1>7 DEF DeleteObjects
<1> QED BY <1>1, <1>2, <1>3, <1>4, <1>5, <1>6, <1>7 DEF RequestStep

LEMMA WorkerFields ==
  ASSUME NEW w \in Worker, NEW K \in SUBSET Presets,
         NEW stage \in {"idle", "rendering", "failed"}
  PROVE  /\ [w EXCEPT !.stage = stage] \in Worker
         /\ [w EXCEPT !.stage = stage, !.rows = K, !.todo = K] \in Worker
         /\ \A p \in Presets, outcome \in Outcomes :
              [w EXCEPT !.todo = @ \ {p}, !.out = [@ EXCEPT ![p] = outcome]] \in Worker
BY DEF Worker

(* A step of a replica changes no other replica, and no request.           *)
LEMMA WorkerForm ==
  ASSUME MediaTypeOK, NEW r \in Replicas, Tick(r) \/ WorkerFaults(r)
  PROVE  /\ \E w \in Worker : worker' = [worker EXCEPT ![r] = w]
         /\ request' = request /\ asset' = asset /\ source' = source
         /\ objects' \in SUBSET Presets /\ objects \subseteq objects'
         /\ faults' \in {faults, faults + 1} /\ faults' \in 0..MaxFaults
<1> USE TypeForm, Rests
<1>0. Due \subseteq Presets /\ worker[r] \in Worker /\ Due \ Locked \in SUBSET Presets
  BY DEF Due
<1> DEFINE Goal == /\ \E w \in Worker : worker' = [worker EXCEPT ![r] = w]
                   /\ request' = request /\ asset' = asset /\ source' = source
                   /\ objects' \in SUBSET Presets /\ objects \subseteq objects'
                   /\ faults' \in {faults, faults + 1} /\ faults' \in 0..MaxFaults
<1>1. ASSUME ClaimPendingMediaVariants(r) PROVE Goal
  <2>1. [Resting EXCEPT !.stage = "rendering", !.rows = Due \ Locked,
                        !.todo = Due \ Locked] \in Worker
    BY <1>0, WorkerFields
  <2> QED BY <1>1, <2>1 DEF ClaimPendingMediaVariants, Turn
<1>2. [Resting EXCEPT !.stage = "failed"] \in Worker
  BY WorkerFields
<1>3. ASSUME RenderFails(r) PROVE Goal
  BY <1>2, <1>3 DEF RenderFails, Turn
<1>4. ASSUME NEW p \in Presets, RenderNothing(r, p) \/ Render(r, p) PROVE Goal
  <2>1. \A outcome \in Outcomes : Recorded(r, p, outcome) \in Worker
    BY <1>0, WorkerFields DEF Recorded
  <2>2. "failed" \in Outcomes /\ "skipped" \in Outcomes /\ "done" \in Outcomes
    BY DEF Outcomes
  <2>3. CASE RenderNothing(r, p)
    BY <2>1, <2>2, <2>3 DEF RenderNothing, Turn
  <2>4. CASE Render(r, p)
    BY <2>1, <2>2, <2>4 DEF Render
  <2> QED BY <1>4, <2>3, <2>4
<1>5. ASSUME CommitRendering(r) \/ MarkRetry(r) PROVE Goal
  BY <1>5 DEF CommitRendering, MarkRetry
<1>6. ASSUME WorkerFaults(r) PROVE Goal
  BY <1>2, <1>6, MediaAssumption
     DEF WorkerFaults, RenderErrs, MarkRetryFails, Crash, Bounded, Fault
<1> QED BY <1>1, <1>3, <1>4, <1>5, <1>6 DEF Tick

(* The rows a claim records are charged within the budget.                 *)
LEMMA RowsRecorded ==
  ASSUME MediaTypeOK, WorkInv, NEW p \in Presets, rows[p].state = "pending"
  PROVE  /\ Charged(p) \in Row
         /\ Charged(p).state = "pending" => Charged(p).attempts < MaxAttempts
         /\ \A outcome \in Outcomes \ {"none"} :
              Finished(p, outcome) \in Row /\ Finished(p, outcome).state # "pending"
<1>1. /\ rows[p] \in Row /\ rows[p].attempts < MaxAttempts /\ rows[p].attempts + 1 \in 0..MaxAttempts
      /\ rows[p].attempts \in Nat
  BY TypeForm, MediaAssumption DEF WorkInv, Row
<1>2. /\ Charged(p) \in Row
      /\ Charged(p).state = "pending" => Charged(p).attempts < MaxAttempts
  <2>1. CASE rows[p].attempts + 1 >= MaxAttempts
    BY <1>1, <2>1 DEF Charged, Row, RowStates
  <2>2. CASE ~(rows[p].attempts + 1 >= MaxAttempts)
    <3>1. rows[p].attempts + 1 < MaxAttempts
      BY <1>1, <2>2, MediaAssumption
    <3>2. Charged(p) = [rows[p] EXCEPT !.attempts = rows[p].attempts + 1, !.due = FALSE,
                                       !.state = "pending"]
      BY <2>2 DEF Charged
    <3> QED BY <1>1, <3>1, <3>2 DEF Row, RowStates
  <2> QED BY <2>1, <2>2
<1>3. Finished(p, "done") \in Row /\ Finished(p, "done").state # "pending"
  BY <1>1 DEF Finished, Row, RowStates
<1>4. Finished(p, "skipped") \in Row /\ Finished(p, "skipped").state # "pending"
  BY <1>1 DEF Finished, Row, RowStates
<1>5. Finished(p, "failed") \in Row /\ Finished(p, "failed").state # "pending"
  BY <1>1 DEF Finished, Row, RowStates
<1> QED BY <1>2, <1>3, <1>4, <1>5 DEF Outcomes

-----------------------------------------------------------------------------
(* Editors leave the claims and the choices of everybody as they are.      *)
LEMMA EditorForm ==
  ASSUME MediaTypeOK, Editors
  PROVE  /\ asset' \in Asset /\ rows' \in [Presets -> Row] /\ source' \in Bytes
         /\ objects' = objects /\ worker' = worker /\ faults' = faults
         /\ request' \in [Requests -> Request]
         /\ \A q \in Requests : \E b \in BOOLEAN : request'[q] = [request[q] EXCEPT !.late = b]
         /\ rows' = rows \/ (Locked = {} /\ asset.state = "uploaded" /\ asset' = asset
                               /\ rows' = [p \in Presets |-> Requeued(p)])
<1> USE TypeForm
<1>1. \A p \in Presets : Requeued(p) \in Row
  BY Rests DEF Requeued, Row, RowStates
<1>2. \A q \in Requests : request[q] = [request[q] EXCEPT !.late = request[q].late]
                          /\ request[q].late \in BOOLEAN
  BY DEF Request
<1> DEFINE Goal ==
         /\ asset' \in Asset /\ rows' \in [Presets -> Row] /\ source' \in Bytes
         /\ objects' = objects /\ worker' = worker /\ faults' = faults
         /\ request' \in [Requests -> Request]
         /\ \A q \in Requests : \E b \in BOOLEAN : request'[q] = [request[q] EXCEPT !.late = b]
         /\ rows' = rows \/ (Locked = {} /\ asset.state = "uploaded" /\ asset' = asset
                               /\ rows' = [p \in Presets |-> Requeued(p)])
<1>3. ASSUME CreateMediaUpload PROVE Goal
  BY <1>2, <1>3 DEF CreateMediaUpload, Asset, AssetStates
<1>4. ASSUME NEW b \in Bytes, Upload(b) PROVE Goal
  BY <1>2, <1>4 DEF Upload
<1>5. ASSUME EnqueueMediaVariants PROVE Goal
  BY <1>1, <1>2, <1>5 DEF EnqueueMediaVariants
<1>6. ASSUME NEW b \in BOOLEAN, Refer(b) PROVE Goal
  <2>1. \A q \in Requests : (request[q].late \/ (b /\ request[q].op = "delete")) \in BOOLEAN
    BY <1>2
  <2>2. \A q \in Requests :
          request'[q] = [request[q] EXCEPT !.late = request[q].late \/ (b /\ request[q].op = "delete")]
    BY <1>6 DEF Refer
  <2>0. \A q \in Requests : \E c \in BOOLEAN : request'[q] = [request[q] EXCEPT !.late = c]
    BY <2>1, <2>2
  <2>3. request' \in [Requests -> Request]
    <3>1. ASSUME NEW q \in Requests PROVE request'[q] \in Request
      <4>1. PICK c \in BOOLEAN : request'[q] = [request[q] EXCEPT !.late = c]
        BY <2>0
      <4> QED BY <4>1 DEF Request
    <3> QED BY <1>6, <3>1 DEF Refer
  <2>4. /\ asset' \in Asset /\ rows' = rows /\ source' = source /\ objects' = objects
        /\ worker' = worker /\ faults' = faults
    BY <1>6 DEF Refer, Asset
  <2> QED BY <2>0, <2>3, <2>4
<1> QED BY <1>3, <1>4, <1>5, <1>6 DEF Editors

(* What a request may do to the asset and its rows: mark the asset and     *)
(* enqueue its renderings, or remove both.                                 *)
Marked(q) == /\ request[q].stage = "measured" /\ Exists /\ Locked = {}
             /\ asset' = [asset EXCEPT !.state = "uploaded"]
             /\ rows' = [p \in Presets |-> Requeued(p)]
             /\ request'[q] = NoRequest
Removed(q) == /\ request[q].stage = "selected" /\ Exists /\ Locked \subseteq SelectedBy(q)
              /\ asset' = [state |-> "gone", referenced |-> FALSE]
              /\ rows' = [p \in Presets |-> Absent]
              /\ request'[q] = [request[q] EXCEPT !.stage = "cleaning"]

LEMMA RequestEffect ==
  ASSUME MediaTypeOK, NEW q \in Requests, RequestStep(q)
  PROVE  (asset' = asset /\ rows' = rows) \/ Marked(q) \/ Removed(q)
<1> USE TypeForm
<1>1. CASE CompleteMediaUpload(q) \/ SelectKeys(q) \/ \E force \in BOOLEAN : DeleteMediaAsset(q, force)
  BY <1>1 DEF CompleteMediaUpload, SelectKeys, DeleteMediaAsset, Ask
<1>2. CASE MarkMediaUploaded(q)
  BY <1>2 DEF MarkMediaUploaded, Ask, Marked
<1>3. CASE DeleteRow(q)
  BY <1>3 DEF DeleteRow, Ask, Removed
<1>4. CASE DeletionFails(q) \/ DeleteObjects(q)
  BY <1>4 DEF DeletionFails, DeleteObjects
<1> QED BY <1>1, <1>2, <1>3, <1>4 DEF RequestStep

LEMMA TypesKept ==
  ASSUME MediaTypeOK, WorkInv, ClaimHolds, [MediaNext]_mediaVars PROVE MediaTypeOK'
<1> USE TypeForm, Rests
<1>0. SUFFICES /\ asset' \in Asset
               /\ rows' \in [Presets -> Row]
               /\ objects' \subseteq Presets
               /\ source' \in Bytes
               /\ worker' \in [Replicas -> Worker]
               /\ request' \in [Requests -> Request]
               /\ faults' \in 0..MaxFaults
  BY DEF MediaTypeOK, Asset, Row, Worker, Request, Outcomes
<1> DEFINE Goal == /\ asset' \in Asset
                   /\ rows' \in [Presets -> Row]
                   /\ objects' \subseteq Presets
                   /\ source' \in Bytes
                   /\ worker' \in [Replicas -> Worker]
                   /\ request' \in [Requests -> Request]
                   /\ faults' \in 0..MaxFaults
<1>1. ASSUME UNCHANGED mediaVars PROVE Goal
  BY <1>1 DEF mediaVars
<1>2. ASSUME Editors PROVE Goal
  BY <1>2, EditorForm
<1>3. ASSUME NEW q \in Requests, RequestStep(q) PROVE Goal
  <2>1. /\ request' \in [Requests -> Request] /\ worker' \in [Replicas -> Worker]
        /\ faults' \in 0..MaxFaults
    BY <1>3, RequestForm
  <2>2. asset' \in Asset /\ rows' \in [Presets -> Row]
    <3>1. \A p \in Presets : Requeued(p) \in Row
      BY DEF Requeued, Row, RowStates
    <3>2. CASE asset' = asset /\ rows' = rows
      BY <3>2
    <3>3. CASE Marked(q)
      BY <3>1, <3>3 DEF Marked, Asset, AssetStates
    <3>4. CASE Removed(q)
      BY <3>4 DEF Removed, Asset, AssetStates
    <3> QED BY <1>3, <3>2, <3>3, <3>4, RequestEffect
  <2>3. objects' \subseteq Presets /\ source' \in Bytes
    BY <1>3 DEF RequestStep, CompleteMediaUpload, MarkMediaUploaded, DeleteMediaAsset, SelectKeys,
              DeleteRow, DeletionFails, DeleteObjects, Ask, Bytes
  <2> QED BY <2>1, <2>2, <2>3
<1>4. ASSUME NEW r \in Replicas, Tick(r) \/ WorkerFaults(r) PROVE Goal
  <2>1. rows' \in [Presets -> Row]
    <3>1. CASE UNCHANGED rows
      BY <3>1
    <3>2. CASE CommitRendering(r)
      <4>1. ASSUME NEW p \in worker[r].rows PROVE Finished(p, worker[r].out[p]) \in Row
        <5>1. p \in Presets /\ worker[r].out[p] \in Outcomes /\ worker[r].stage = "rendering"
              /\ worker[r].todo = {}
          <6>1. worker[r] \in Worker
            OBVIOUS
          <6>2. worker[r].stage = "rendering" /\ worker[r].todo = {}
            BY <3>2 DEF CommitRendering
          <6>3. worker[r].rows \subseteq Presets /\ worker[r].out \in [Presets -> Outcomes]
            BY <6>1 DEF Worker
          <6> QED BY <6>2, <6>3
        <5>2. rows[p].state = "pending" /\ worker[r].out[p] # "none"
          BY <5>1 DEF WorkInv, ClaimHolds, ClaimedBy
        <5> QED BY <5>1, <5>2, RowsRecorded
      <4> QED BY <3>2, <4>1 DEF CommitRendering
    <3>3. CASE MarkRetry(r)
      <4>1. \A p \in Due : Charged(p) \in Row
        BY RowsRecorded DEF Due
      <4> QED BY <3>3, <4>1 DEF MarkRetry
    <3> QED BY <1>4, <3>1, <3>2, <3>3
          DEF Tick, WorkerFaults, ClaimPendingMediaVariants, RenderFails, RenderNothing, Render,
              RenderErrs, MarkRetryFails, Crash, Turn
  <2>2. asset' = asset /\ source' = source /\ request' = request /\ objects' \subseteq Presets
        /\ worker' \in [Replicas -> Worker] /\ faults' \in 0..MaxFaults
    BY <1>4, WorkerForm
  <2> QED BY <2>1, <2>2
<1>5. ASSUME NEW p \in Presets, Backoff(p) PROVE Goal
  BY <1>5 DEF Backoff, Row
<1> QED BY <1>1, <1>2, <1>3, <1>4, <1>5 DEF MediaNext

-----------------------------------------------------------------------------
LEMMA LockedBy ==
  ASSUME NEW p
  PROVE  p \in Locked <=> \/ \E r \in Replicas : p \in ClaimedBy(r)
                          \/ \E q \in Requests : p \in SelectedBy(q)
BY DEF Locked, Claimed, Selected

(* What a replica may do to its claim and to the rows.                     *)
LEMMA WorkerEffect ==
  ASSUME MediaTypeOK, NEW r \in Replicas, Tick(r) \/ WorkerFaults(r)
  PROVE  /\ \A s \in Replicas \ {r} : worker'[s] = worker[s] /\ ClaimedBy(s)' = ClaimedBy(s)
         /\ \/ rows' = rows /\ ClaimedBy(r)' \subseteq ClaimedBy(r)
            \/ rows' = rows /\ ClaimedBy(r) = {} /\ ClaimedBy(r)' = Due \ Locked
            \/ ClaimedBy(r)' = {} /\ \A p \in Presets : rows'[p] = rows[p] \/ p \in ClaimedBy(r)
            \/ ClaimedBy(r)' = {} /\ \A p \in Presets : rows'[p] = rows[p] \/ p \in Due \ Locked
<1> USE TypeForm
<1>0. \A s \in Replicas \ {r} : worker'[s] = worker[s] /\ ClaimedBy(s)' = ClaimedBy(s)
  <2>1. \A s \in Replicas \ {r} : worker'[s] = worker[s]
    BY WorkerForm
  <2> QED BY <2>1 DEF ClaimedBy
<1> DEFINE Goal == \/ rows' = rows /\ ClaimedBy(r)' \subseteq ClaimedBy(r)
                   \/ rows' = rows /\ ClaimedBy(r) = {} /\ ClaimedBy(r)' = Due \ Locked
                   \/ ClaimedBy(r)' = {} /\ \A p \in Presets : rows'[p] = rows[p] \/ p \in ClaimedBy(r)
                   \/ ClaimedBy(r)' = {} /\ \A p \in Presets : rows'[p] = rows[p] \/ p \in Due \ Locked
<1>1. ASSUME ClaimPendingMediaVariants(r) PROVE Goal
  <2>1. /\ worker[r].stage = "idle" /\ rows' = rows
        /\ worker'[r].stage = "rendering" /\ worker'[r].rows = Due \ Locked
    BY <1>1 DEF ClaimPendingMediaVariants, Turn, Resting
  <2> QED BY <2>1 DEF ClaimedBy
<1>2. ASSUME RenderFails(r) \/ WorkerFaults(r) PROVE Goal
  <2>1. worker'[r].stage # "rendering" /\ rows' = rows
    BY <1>2 DEF RenderFails, WorkerFaults, RenderErrs, MarkRetryFails, Crash, Turn, Resting
  <2> QED BY <2>1 DEF ClaimedBy
<1>3. ASSUME NEW p \in Presets, RenderNothing(r, p) \/ Render(r, p) PROVE Goal
  <2>1. worker'[r].rows = worker[r].rows /\ worker[r].stage = "rendering" /\ rows' = rows
    BY <1>3 DEF RenderNothing, Render, Turn, Recorded, Worker
  <2> QED BY <2>1 DEF ClaimedBy
<1>4. ASSUME CommitRendering(r) PROVE Goal
  <2>1. worker'[r].stage # "rendering" /\ worker[r].stage = "rendering"
    BY <1>4 DEF CommitRendering, Resting
  <2>2. \A p \in Presets : rows'[p] = rows[p] \/ p \in worker[r].rows
    BY <1>4 DEF CommitRendering
  <2> QED BY <2>1, <2>2 DEF ClaimedBy
<1>5. ASSUME MarkRetry(r) PROVE Goal
  <2>1. worker'[r].stage # "rendering"
    BY <1>5 DEF MarkRetry, Resting
  <2>2. \A p \in Presets : rows'[p] = rows[p] \/ p \in Due \ Locked
    BY <1>5 DEF MarkRetry
  <2> QED BY <2>1, <2>2 DEF ClaimedBy
<1> QED BY <1>0, <1>1, <1>2, <1>3, <1>4, <1>5 DEF Tick

(* What a request may do to the locks.                                     *)
LEMMA SelectionEffect ==
  ASSUME MediaTypeOK, NEW q \in Requests, RequestStep(q)
  PROVE  /\ \A s \in Requests \ {q} : request'[s] = request[s] /\ SelectedBy(s)' = SelectedBy(s)
         /\ \A r \in Replicas : ClaimedBy(r)' = ClaimedBy(r)
         /\ \/ SelectedBy(q)' = {}
            \/ SelectedBy(q)' = Keyed /\ Keyed \cap Locked = {}
<1> USE TypeForm
<1>1. \A s \in Requests \ {q} : request'[s] = request[s] /\ SelectedBy(s)' = SelectedBy(s)
  <2>1. \A s \in Requests \ {q} : request'[s] = request[s]
    BY RequestForm
  <2> QED BY <2>1 DEF SelectedBy
<1>2. \A r \in Replicas : ClaimedBy(r)' = ClaimedBy(r)
  BY RequestForm DEF ClaimedBy
<1> DEFINE Goal == \/ SelectedBy(q)' = {}
                   \/ SelectedBy(q)' = Keyed /\ Keyed \cap Locked = {}
<1>3. ASSUME request'[q].stage # "selected" PROVE Goal
  BY <1>3 DEF SelectedBy
<1>4. CASE \/ CompleteMediaUpload(q) \/ MarkMediaUploaded(q)
           \/ \E force \in BOOLEAN : DeleteMediaAsset(q, force)
           \/ DeleteRow(q) \/ DeletionFails(q) \/ DeleteObjects(q)
  <2>0. request[q] \in Request /\ NoRequest.stage = "idle"
    BY DEF NoRequest
  <2>1. request'[q].stage # "selected"
    <3>1. CASE CompleteMediaUpload(q) \/ \E force \in BOOLEAN : DeleteMediaAsset(q, force)
      BY ZenonT(40), <3>1 DEF CompleteMediaUpload, DeleteMediaAsset, Ask, NoRequest
    <3>2. CASE MarkMediaUploaded(q) \/ DeleteObjects(q)
      BY <2>0, <3>2 DEF MarkMediaUploaded, DeleteObjects, Ask
    <3>3. CASE DeleteRow(q)
      BY <2>0, <3>3 DEF DeleteRow, Ask, Request
    <3>4. CASE DeletionFails(q)
      BY <2>0, <3>4 DEF DeletionFails, Request
    <3> QED BY <1>4, <3>1, <3>2, <3>3, <3>4
  <2> QED BY <1>1, <1>2, <1>3, <2>1
<1>5. CASE SelectKeys(q)
  <2>1. CASE Exists
    <3>1. request'[q].stage = "selected" /\ request'[q].keys = Keyed /\ Keyed \cap Locked = {}
      BY <1>5, <2>1 DEF SelectKeys, Ask, Request
    <3> QED BY <1>1, <1>2, <3>1 DEF SelectedBy
  <2>2. CASE ~Exists
    <3>1. request'[q].stage # "selected"
      BY <1>5, <2>2 DEF SelectKeys, Ask, NoRequest, Request
    <3> QED BY <1>1, <1>2, <1>3, <3>1
  <2> QED BY <2>1, <2>2
<1> QED BY <1>1, <1>2, <1>4, <1>5 DEF RequestStep

LEMMA LocksKept ==
  ASSUME MediaTypeOK, LockInv, [MediaNext]_mediaVars PROVE LockInv'
<1> USE TypeForm DEF LockInv, ClaimHolds
<1>0. \A r \in Replicas : ClaimedBy(r) \subseteq Presets
  BY DEF ClaimedBy, Worker
<1>1. ASSUME UNCHANGED mediaVars PROVE LockInv'
  BY <1>1 DEF mediaVars, ClaimedBy, SelectedBy
<1>2. ASSUME Editors PROVE LockInv'
  <2>1. /\ \A r \in Replicas : ClaimedBy(r)' = ClaimedBy(r)
        /\ \A q \in Requests : SelectedBy(q)' = SelectedBy(q)
    <3>1. worker' = worker /\ \A q \in Requests : request'[q].stage = request[q].stage
                                                   /\ request'[q].keys = request[q].keys
      BY <1>2, EditorForm DEF Request
    <3> QED BY <3>1 DEF ClaimedBy, SelectedBy
  <2>2. rows' = rows \/ Locked = {}
    BY <1>2, EditorForm
  <2> QED BY <1>0, <2>1, <2>2, LockedBy
<1>3. ASSUME NEW q \in Requests, RequestStep(q) PROVE LockInv'
  <2>1. /\ \A s \in Requests \ {q} : SelectedBy(s)' = SelectedBy(s)
        /\ \A r \in Replicas : ClaimedBy(r)' = ClaimedBy(r)
        /\ \/ SelectedBy(q)' = {}
           \/ SelectedBy(q)' = Keyed /\ Keyed \cap Locked = {}
    BY <1>3, SelectionEffect
  <2>2. rows' = rows \/ \A r \in Replicas : ClaimedBy(r) = {}
    <3>1. CASE Marked(q)
      BY <3>1, LockedBy DEF Marked
    <3>2. CASE Removed(q)
      BY <3>2, LockedBy DEF Removed
    <3> QED BY <1>3, <3>1, <3>2, RequestEffect
  <2>3. \A r \in Replicas, s \in Requests : ClaimedBy(r)' \cap SelectedBy(s)' = {}
    <3> SUFFICES ASSUME NEW r \in Replicas, NEW s \in Requests
                 PROVE  ClaimedBy(r)' \cap SelectedBy(s)' = {}
      OBVIOUS
    <3>1. CASE s # q
      BY <2>1, <3>1
    <3>2. CASE s = q
      BY <2>1, <3>2, LockedBy
    <3> QED BY <3>1, <3>2
  <2>4. \A r \in Replicas : \A p \in ClaimedBy(r)' : rows'[p].state = "pending"
    BY <2>1, <2>2
  <2> QED BY <2>1, <2>3, <2>4
<1>4. ASSUME NEW r \in Replicas, Tick(r) \/ WorkerFaults(r) PROVE LockInv'
  <2>1. \A q \in Requests : SelectedBy(q)' = SelectedBy(q)
    BY <1>4, WorkerForm DEF SelectedBy
  <2>2. \A s \in Replicas \ {r} : ClaimedBy(s)' = ClaimedBy(s)
    BY <1>4, WorkerEffect
  <2>3. \A p \in Due : p \in Presets /\ rows[p].state = "pending"
    BY DEF Due
  <2>4. CASE rows' = rows /\ ClaimedBy(r)' \subseteq ClaimedBy(r)
    BY <2>1, <2>2, <2>4
  <2>5. CASE rows' = rows /\ ClaimedBy(r) = {} /\ ClaimedBy(r)' = Due \ Locked
    BY <2>1, <2>2, <2>3, <2>5, LockedBy
  <2>6. CASE ClaimedBy(r)' = {} /\ \A p \in Presets : rows'[p] = rows[p] \/ p \in ClaimedBy(r)
    BY <1>0, <2>1, <2>2, <2>6
  <2>7. CASE ClaimedBy(r)' = {} /\ \A p \in Presets : rows'[p] = rows[p] \/ p \in Due \ Locked
    BY <1>0, <2>1, <2>2, <2>7, LockedBy
  <2> QED BY <1>4, <2>4, <2>5, <2>6, <2>7, WorkerEffect
<1>5. ASSUME NEW p \in Presets, Backoff(p) PROVE LockInv'
  <2>1. /\ \A r \in Replicas : ClaimedBy(r)' = ClaimedBy(r)
        /\ \A q \in Requests : SelectedBy(q)' = SelectedBy(q)
    BY <1>5 DEF Backoff, ClaimedBy, SelectedBy
  <2>2. \A x \in Presets : rows'[x].state = rows[x].state
    BY <1>5 DEF Backoff, Row
  <2> QED BY <1>0, <2>1, <2>2
<1> QED BY <1>1, <1>2, <1>3, <1>4, <1>5 DEF MediaNext

-----------------------------------------------------------------------------
(* The bytes of renderings go only when their asset has gone, and then     *)
(* nobody renders.                                                         *)
LEMMA ObjectsKept ==
  ASSUME MediaTypeOK, GoneInv, LockInv, [MediaNext]_mediaVars
  PROVE  \/ objects \subseteq objects'
         \/ /\ rows' = rows /\ \A p \in Presets : rows[p] = Absent
            /\ worker' = worker /\ \A r \in Replicas : ClaimedBy(r) = {}
<1> USE TypeForm
<1>1. CASE UNCHANGED mediaVars \/ Editors \/ \E p \in Presets : Backoff(p)
  BY <1>1, EditorForm DEF mediaVars, Backoff
<1>2. ASSUME NEW r \in Replicas, Tick(r) \/ WorkerFaults(r) PROVE objects \subseteq objects'
  BY <1>2, WorkerForm
<1>3. ASSUME NEW q \in Requests, RequestStep(q), ~DeleteObjects(q) PROVE objects' = objects
  BY <1>3 DEF RequestStep, CompleteMediaUpload, MarkMediaUploaded, DeleteMediaAsset, SelectKeys,
              DeleteRow, DeletionFails, Ask
<1>4. ASSUME NEW q \in Requests, DeleteObjects(q), request[q].op # "discard"
      PROVE  /\ rows' = rows /\ \A p \in Presets : rows[p] = Absent
             /\ worker' = worker /\ \A r \in Replicas : ClaimedBy(r) = {}
  <2>1. /\ request[q].stage = "cleaning" /\ rows' = rows /\ worker' = worker
        /\ asset.state = "gone"
    BY <1>4 DEF DeleteObjects, GoneInv
  <2>2. \A p \in Presets : rows[p] = Absent /\ rows[p].state = "absent"
    BY <2>1 DEF GoneInv, Absent
  <2>3. \A r \in Replicas : ClaimedBy(r) \subseteq Presets
    BY DEF ClaimedBy, Worker
  <2> QED BY <2>1, <2>2, <2>3 DEF LockInv, ClaimHolds
<1>5. ASSUME NEW q \in Requests, DeleteObjects(q), request[q].op = "discard"
      PROVE  objects' = objects
  BY <1>5 DEF DeleteObjects
<1> QED BY <1>1, <1>2, <1>3, <1>4, <1>5 DEF MediaNext

(* What a replica that goes on rendering holds after its step.             *)
LEMMA RenderingEffect ==
  ASSUME MediaTypeOK, NEW r \in Replicas, Tick(r) \/ WorkerFaults(r),
         worker'[r].stage = "rendering"
  PROVE  \/ worker'[r].todo = worker'[r].rows
         \/ \E p \in worker[r].todo, outcome \in Outcomes \ {"none"} :
              /\ worker[r].stage = "rendering" /\ worker'[r] = Recorded(r, p, outcome)
              /\ outcome = "done" => p \in objects'
<1> USE TypeForm
<1>1. CASE ClaimPendingMediaVariants(r)
  BY <1>1 DEF ClaimPendingMediaVariants, Turn, Resting
<1>2. ASSUME RenderFails(r) \/ WorkerFaults(r) \/ CommitRendering(r) \/ MarkRetry(r) PROVE FALSE
  BY <1>2 DEF RenderFails, WorkerFaults, RenderErrs, MarkRetryFails, Crash, CommitRendering,
              MarkRetry, Turn, Resting
<1>3. ASSUME NEW p \in Presets, RenderNothing(r, p)
      PROVE  \E outcome \in Outcomes \ {"none"} :
               /\ p \in worker[r].todo /\ outcome # "done"
               /\ worker[r].stage = "rendering" /\ worker'[r] = Recorded(r, p, outcome)
  BY <1>3 DEF RenderNothing, Turn, Outcomes
<1>4. ASSUME NEW p \in Presets, Render(r, p)
      PROVE  /\ p \in worker[r].todo /\ p \in objects' /\ "done" \in Outcomes \ {"none"}
             /\ worker[r].stage = "rendering" /\ worker'[r] = Recorded(r, p, "done")
  BY <1>4 DEF Render, Outcomes
<1> QED BY <1>1, <1>2, <1>3, <1>4 DEF Tick

LEMMA WorkKept ==
  ASSUME MediaTypeOK, WorkInv, GoneInv, LockInv, [MediaNext]_mediaVars PROVE WorkInv'
<1> USE TypeForm
<1> DEFINE Work(r) == worker[r].stage = "rendering" =>
                        /\ worker[r].todo \subseteq worker[r].rows
                        /\ \A p \in worker[r].rows \ worker[r].todo :
                             /\ worker[r].out[p] # "none"
                             /\ worker[r].out[p] = "done" => p \in objects
           Budget == \A p \in Presets : rows[p].state = "pending" => rows[p].attempts < MaxAttempts
<1>0. \A r \in Replicas : worker[r] \in Worker /\ Work(r)
  BY DEF WorkInv
<1>1. ASSUME NEW r \in Replicas PROVE Work(r)'
  <2>1. CASE worker'[r] = worker[r]
    <3>1. CASE objects \subseteq objects'
      BY <1>0, <2>1, <3>1
    <3>2. CASE ClaimedBy(r) = {}
      BY <1>0, <2>1, <3>2 DEF ClaimedBy
    <3> QED BY <3>1, <3>2, ObjectsKept
  <2>2. CASE Tick(r) \/ WorkerFaults(r)
    <3> SUFFICES ASSUME worker'[r].stage = "rendering"
                 PROVE  /\ worker'[r].todo \subseteq worker'[r].rows
                        /\ \A p \in worker'[r].rows \ worker'[r].todo :
                             /\ worker'[r].out[p] # "none"
                             /\ worker'[r].out[p] = "done" => p \in objects'
      OBVIOUS
    <3>1. CASE worker'[r].todo = worker'[r].rows
      BY <3>1
    <3>2. ASSUME NEW p \in worker[r].todo, NEW outcome \in Outcomes \ {"none"},
                 worker[r].stage = "rendering", worker'[r] = Recorded(r, p, outcome),
                 outcome = "done" => p \in objects'
          PROVE  /\ worker'[r].todo \subseteq worker'[r].rows
                 /\ \A x \in worker'[r].rows \ worker'[r].todo :
                      /\ worker'[r].out[x] # "none"
                      /\ worker'[r].out[x] = "done" => x \in objects'
      <4>1. objects \subseteq objects'
        BY <2>2, WorkerForm
      <4>2. /\ worker'[r].todo = worker[r].todo \ {p} /\ worker'[r].rows = worker[r].rows
            /\ worker'[r].out = [worker[r].out EXCEPT ![p] = outcome]
            /\ worker[r].out \in [Presets -> Outcomes] /\ worker[r].rows \subseteq Presets
        BY <1>0, <3>2 DEF Recorded, Worker
      <4> QED BY <1>0, <3>2, <4>1, <4>2
    <3> QED BY <2>2, <3>1, <3>2, RenderingEffect
  <2>3. worker'[r] = worker[r] \/ Tick(r) \/ WorkerFaults(r)
    BY EditorForm, RequestForm, WorkerEffect DEF MediaNext, mediaVars, Backoff
  <2> QED BY <2>1, <2>2, <2>3
<1>2. Budget'
  <2> DEFINE Fine(p) == rows'[p].state = "pending" => rows'[p].attempts < MaxAttempts
  <2>0. \A p \in Presets : rows[p] \in Row /\ (rows[p].state = "pending" => rows[p].attempts < MaxAttempts)
    BY DEF WorkInv
  <2>1. CASE rows' = rows
    BY <2>0, <2>1
  <2>2. CASE rows' = [p \in Presets |-> Requeued(p)] \/ rows' = [p \in Presets |-> Absent]
    <3>1. Absent.attempts = 0 /\ \A p \in Presets : Requeued(p).attempts = 0
      BY DEF Requeued, Absent
    <3>2. 0 < MaxAttempts
      BY MediaAssumption
    <3>3. \A p \in Presets : rows'[p] = Requeued(p) \/ rows'[p] = Absent
      BY <2>2
    <3> QED BY <3>1, <3>2, <3>3
  <2>3. ASSUME NEW r \in Replicas, CommitRendering(r) PROVE \A p \in Presets : Fine(p)
    <3> SUFFICES ASSUME NEW p \in Presets PROVE Fine(p)
      OBVIOUS
    <3>1. CASE p \notin worker[r].rows
      BY <2>0, <2>3, <3>1 DEF CommitRendering
    <3>2. CASE p \in worker[r].rows
      <4>1. worker[r].stage = "rendering" /\ worker[r].todo = {}
            /\ rows'[p] = Finished(p, worker[r].out[p])
        BY <2>3, <3>2 DEF CommitRendering
      <4>2. worker[r].out[p] \in Outcomes
        BY <1>0 DEF Worker
      <4>3. rows[p].state = "pending" /\ worker[r].out[p] # "none"
        BY <1>0, <3>2, <4>1 DEF LockInv, ClaimHolds, ClaimedBy
      <4> QED BY <4>1, <4>2, <4>3, RowsRecorded
    <3> QED BY <3>1, <3>2
  <2>4. ASSUME NEW r \in Replicas, MarkRetry(r) PROVE \A p \in Presets : Fine(p)
    BY <2>0, <2>4, RowsRecorded DEF MarkRetry, Due
  <2>5. ASSUME NEW p \in Presets, Backoff(p) PROVE \A x \in Presets : Fine(x)
    BY <2>0, <2>5 DEF Backoff, Row
  <2>6. CASE Editors
    BY <2>1, <2>2, <2>6, EditorForm
  <2>7. ASSUME NEW q \in Requests, RequestStep(q) PROVE Budget'
    BY <2>1, <2>2, <2>7, RequestEffect DEF Marked, Removed
  <2>8. ASSUME NEW r \in Replicas, Tick(r) \/ WorkerFaults(r) PROVE Budget'
    <3>1. rows' = rows \/ CommitRendering(r) \/ MarkRetry(r)
      BY <2>8 DEF Tick, WorkerFaults, ClaimPendingMediaVariants, RenderFails, RenderNothing,
                  Render, RenderErrs, MarkRetryFails, Crash, Turn
    <3> QED BY <2>1, <2>3, <2>4, <3>1
  <2>9. CASE UNCHANGED mediaVars
    BY <2>1, <2>9 DEF mediaVars
  <2> QED BY <2>5, <2>6, <2>7, <2>8, <2>9 DEF MediaNext
<1> QED BY <1>1, <1>2 DEF WorkInv

(* Whatever a replica does, the rows remain a function on the presets.     *)
LEMMA WorkerRows ==
  ASSUME MediaTypeOK, NEW r \in Replicas, Tick(r) \/ WorkerFaults(r)
  PROVE  rows' = [p \in Presets |-> rows'[p]]
BY TypeForm DEF Tick, WorkerFaults, ClaimPendingMediaVariants, RenderFails, RenderNothing, Render,
   RenderErrs, CommitRendering, MarkRetry, MarkRetryFails, Crash, Turn

LEMMA GoneKept ==
  ASSUME MediaTypeOK, GoneInv, LockInv, [MediaNext]_mediaVars PROVE GoneInv'
<1> USE TypeForm
<1> DEFINE Goner(q) ==
             q \in Requests =>
               /\ ~Idle(q) => asset.state # "none"
               /\ request[q].stage = "cleaning" /\ (faults = 0 \/ request[q].op # "discard")
                    => asset.state = "gone"
           Gone == asset.state = "gone" => \A p \in Presets : rows[p] = Absent
<1>0. Gone /\ \A q \in Requests : Goner(q) /\ request[q] \in Request
  BY DEF GoneInv
<1>1. SUFFICES Gone' /\ \A q \in Requests : Goner(q)'
  BY DEF GoneInv
<1> SUFFICES ASSUME NEW q PROVE Gone' /\ Goner(q)'
  OBVIOUS
<1>2. CASE UNCHANGED mediaVars
  BY <1>0, <1>2 DEF mediaVars, Idle
<1>3. CASE Editors
  <2>1. (asset'.state # "none" /\ asset'.state = asset.state) \/ (asset.state = "none" /\ asset'.state # "gone")
    BY <1>3 DEF Editors, CreateMediaUpload, Upload, EnqueueMediaVariants, Refer, Asset, AssetStates
  <2>2. rows' = rows \/ asset'.state # "gone"
    BY <1>3, EditorForm
  <2>3. /\ faults' = faults
        /\ q \in Requests => /\ request'[q].stage = request[q].stage
                             /\ request'[q].op = request[q].op
    BY <1>0, <1>3, EditorForm DEF Request
  <2> QED BY <1>0, <2>1, <2>2, <2>3 DEF Idle
<1>4. ASSUME NEW s \in Requests, RequestStep(s) PROVE Gone' /\ Goner(q)'
  <2>1. asset.state # "none" /\ (asset.state = "gone" => asset' = asset /\ rows' = rows)
    <3>1. asset.state # "none"
      BY <1>0, <1>4 DEF RequestStep, CompleteMediaUpload, MarkMediaUploaded, DeleteMediaAsset,
                        SelectKeys, DeleteRow, DeletionFails, DeleteObjects, Exists, Idle
    <3> QED BY <1>4, <3>1, RequestEffect DEF Marked, Removed, Exists
  <2>2. asset'.state # "none" /\ (asset.state # "gone" /\ asset'.state = "gone" => Removed(s))
    BY <1>4, <2>1, RequestEffect DEF Marked, Removed, Asset
  <2>3. Gone'
    BY <1>0, <2>1, <2>2 DEF Removed
  <2>4. CASE q \in Requests \ {s}
    <3>0. faults \in Nat
      BY DEF MediaTypeOK
    <3>1. request'[q] = request[q] /\ (faults' = 0 => faults = 0)
      BY <1>4, <2>4, <3>0, RequestForm
    <3> QED BY <1>0, <2>1, <2>2, <2>3, <3>1 DEF Idle
  <2>5. CASE q = s
    <3>1. SUFFICES ASSUME request'[q].stage = "cleaning", faults' = 0 \/ request'[q].op # "discard"
                   PROVE  asset'.state = "gone"
      BY <2>2, <2>3, <2>5
    <3>2. NoRequest.stage = "idle"
      BY DEF NoRequest
    <3>3. CASE DeleteRow(q)
      BY <1>0, <2>1, <3>1, <3>2, <3>3 DEF DeleteRow, Ask, Exists, Asset, AssetStates, Request
    <3>4. CASE SelectKeys(q)
      <4>1. ~Exists
        <5> SUFFICES ASSUME Exists PROVE request'[q].stage = "selected"
          BY <3>1
        <5> QED BY <1>0, <2>5, <3>4 DEF SelectKeys, Ask, Request
      <4>2. asset' = asset
        BY <3>4 DEF SelectKeys, Ask
      <4> QED BY <2>1, <4>1, <4>2 DEF Exists, Asset, AssetStates
    <3>5. CASE DeletionFails(q)
      <4>1. faults' # 0
        BY <3>5 DEF DeletionFails, Fault
      <4>2. request'[q].op = "discard"
        BY <1>0, <3>1, <3>2, <3>5 DEF DeletionFails, Request
      <4> QED BY <3>1, <4>1, <4>2
    <3>6. CASE \/ CompleteMediaUpload(q) \/ MarkMediaUploaded(q) \/ DeleteObjects(q)
               \/ \E force \in BOOLEAN : DeleteMediaAsset(q, force)
      <4>1. request'[q].stage # "cleaning"
        <5>1. CASE CompleteMediaUpload(q) \/ \E force \in BOOLEAN : DeleteMediaAsset(q, force)
          <6>1. CASE CompleteMediaUpload(q)
            BY <2>5, <6>1 DEF CompleteMediaUpload, Ask, NoRequest
          <6>2. ASSUME NEW force \in BOOLEAN, DeleteMediaAsset(q, force)
                PROVE  request'[q].stage # "cleaning"
            BY <2>5, <6>2 DEF DeleteMediaAsset, Ask, NoRequest
          <6> QED BY <5>1, <6>1, <6>2
        <5>2. CASE MarkMediaUploaded(q) \/ DeleteObjects(q)
          BY <1>0, <2>5, <3>2, <5>2 DEF MarkMediaUploaded, DeleteObjects, Ask
        <5> QED BY <3>6, <5>1, <5>2
      <4> QED BY <3>1, <4>1
    <3> QED BY <1>4, <2>5, <3>3, <3>4, <3>5, <3>6 DEF RequestStep
  <2> QED BY <2>3, <2>4, <2>5
<1>5. ASSUME NEW r \in Replicas, Tick(r) \/ WorkerFaults(r) PROVE Gone' /\ Goner(q)'
  <2>1. asset' = asset /\ request' = request /\ (faults' = 0 => faults = 0)
    BY <1>5, WorkerForm
  <2>2. ASSUME asset.state = "gone" PROVE rows' = rows
    <3>1. \A p \in Presets : rows[p] = Absent /\ Absent.state = "absent"
      BY <1>0, <2>2 DEF Absent
    <3>2. ClaimedBy(r) \subseteq Presets
      BY DEF ClaimedBy, Worker
    <3>3. ClaimedBy(r) = {} /\ Due = {}
      BY <3>1, <3>2 DEF LockInv, ClaimHolds, Due
    <3>4. rows' = rows \/ \A p \in Presets : rows'[p] = rows[p]
      BY <1>5, <3>3, WorkerEffect
    <3>5. rows' = [p \in Presets |-> rows'[p]]
      BY <1>5, WorkerRows
    <3> QED BY <3>4, <3>5
  <2> QED BY <1>0, <2>1, <2>2 DEF Idle
<1>6. ASSUME NEW p \in Presets, Backoff(p) PROVE Gone' /\ Goner(q)'
  <2>1. asset.state # "gone" /\ asset' = asset /\ request' = request /\ faults' = faults
    BY <1>0, <1>6 DEF Backoff, Absent
  <2> QED BY <1>0, <2>1 DEF Idle
<1> QED BY <1>2, <1>3, <1>4, <1>5, <1>6 DEF MediaNext

-----------------------------------------------------------------------------
(* The uploaded bytes go with the asset, or after a deletion that failed.  *)
LEMMA SourceEffect ==
  ASSUME MediaTypeOK, GoneInv, [MediaNext]_mediaVars
  PROVE  /\ \/ source' = source \/ source' # "none"
            \/ faults # 0
            \/ asset.state = "gone" /\ asset' = asset
         /\ faults' = 0 => faults = 0
<1> USE TypeForm
<1>0. faults \in Nat
  BY DEF MediaTypeOK
<1>1. CASE UNCHANGED mediaVars \/ \E p \in Presets : Backoff(p)
  BY <1>1 DEF mediaVars, Backoff
<1>2. CASE Editors
  BY <1>2 DEF Editors, CreateMediaUpload, Upload, EnqueueMediaVariants, Refer
<1>3. ASSUME NEW r \in Replicas, Tick(r) \/ WorkerFaults(r)
      PROVE  source' = source /\ (faults' = 0 => faults = 0)
  BY <1>0, <1>3, WorkerForm
<1>4. ASSUME NEW q \in Requests, RequestStep(q) PROVE faults' = 0 => faults = 0
  BY <1>0, <1>4, RequestForm
<1>5. ASSUME NEW q \in Requests, RequestStep(q), ~DeleteObjects(q) PROVE source' = source
  BY <1>5 DEF RequestStep, CompleteMediaUpload, MarkMediaUploaded, DeleteMediaAsset, SelectKeys,
              DeleteRow, DeletionFails, Ask
<1>6. ASSUME NEW q \in Requests, DeleteObjects(q)
      PROVE  faults # 0 \/ (asset.state = "gone" /\ asset' = asset)
  BY <1>6 DEF DeleteObjects, GoneInv
<1> QED BY <1>1, <1>2, <1>3, <1>4, <1>5, <1>6 DEF MediaNext

(* An asset that was not there is reserved by nobody's request.            *)
LEMMA AssetEffect ==
  ASSUME MediaTypeOK, [MediaNext]_mediaVars
  PROVE  \/ asset' = asset
         \/ asset.state = "none" /\ request' = request /\ asset'.state = "reserved"
              /\ asset'.referenced = asset.referenced
         \/ \E b \in BOOLEAN : Refer(b)
         \/ \E q \in Requests : RequestStep(q) /\ (Marked(q) \/ Removed(q))
<1> USE TypeForm
<1>1. CASE UNCHANGED mediaVars \/ \E p \in Presets : Backoff(p)
  BY <1>1 DEF mediaVars, Backoff
<1>2. CASE Editors
  BY <1>2 DEF Editors, CreateMediaUpload, Upload, EnqueueMediaVariants, Asset
<1>3. ASSUME NEW r \in Replicas, Tick(r) \/ WorkerFaults(r) PROVE asset' = asset
  BY <1>3, WorkerForm
<1>4. ASSUME NEW q \in Requests, RequestStep(q) PROVE asset' = asset \/ Marked(q) \/ Removed(q)
  BY <1>4, RequestEffect
<1> QED BY <1>1, <1>2, <1>3, <1>4 DEF MediaNext

LEMMA SourceKept ==
  ASSUME MediaTypeOK, GoneInv, SourceInv, [MediaNext]_mediaVars PROVE SourceInv'
<1> USE TypeForm
<1> SUFFICES ASSUME NEW q \in Requests, request'[q].stage = "measured", Exists', faults' = 0
             PROVE  source' # "none"
  BY DEF SourceInv
<1>1. Exists /\ (asset' = asset => Exists')
  <2>1. asset.state = "none" => Idle(q)
    BY DEF GoneInv
  <2> QED BY <2>1, AssetEffect DEF Exists, Refer, Marked, Removed, Idle
<1>2. faults = 0 /\ (source' = source \/ source' # "none")
  BY <1>1, SourceEffect DEF Exists
<1>3. CASE request'[q].stage = request[q].stage
  BY <1>1, <1>2, <1>3 DEF SourceInv
<1>4. CASE request'[q].stage # request[q].stage
  <2>1. CompleteMediaUpload(q)
    <3>1. \E s \in Requests : RequestStep(s)
      <4>1. request'[q].stage = request[q].stage \/ \E s \in Requests : RequestStep(s)
        <5>1. CASE UNCHANGED mediaVars \/ \E p \in Presets : Backoff(p)
          BY <5>1 DEF mediaVars, Backoff
        <5>2. CASE Editors
          BY <5>2, EditorForm DEF Request
        <5>3. ASSUME NEW r \in Replicas, Tick(r) \/ WorkerFaults(r) PROVE request' = request
          BY <5>3, WorkerForm
        <5> QED BY <5>1, <5>2, <5>3 DEF MediaNext
      <4> QED BY <1>4, <4>1
    <3>2. PICK s \in Requests : RequestStep(s)
      BY <3>1
    <3>3. s = q
      BY <1>4, <3>2, RequestForm
    <3>4. NoRequest.stage = "idle"
      BY DEF NoRequest
    <3>5. ~MarkMediaUploaded(q) /\ ~DeleteObjects(q)
      BY <3>4 DEF MarkMediaUploaded, DeleteObjects, Ask
    <3>6. ~DeletionFails(q)
      BY <3>4 DEF DeletionFails, Request
    <3>7. ~SelectKeys(q) /\ ~DeleteRow(q)
      BY <1>1, <1>4 DEF SelectKeys, DeleteRow, Ask, Request
    <3>8. ASSUME NEW force \in BOOLEAN PROVE ~DeleteMediaAsset(q, force)
      BY DEF DeleteMediaAsset, Ask, NoRequest
    <3> QED BY <3>2, <3>3, <3>5, <3>6, <3>7, <3>8 DEF RequestStep
  <2> QED BY <2>1 DEF CompleteMediaUpload, Ask
<1> QED BY <1>3, <1>4

LEMMA CountKept ==
  ASSUME MediaTypeOK, CountInv, [MediaNext]_mediaVars PROVE CountInv'
<1> USE TypeForm
<1> DEFINE Counted(q) == /\ request[q].stage \in {"counted", "selected"}
                         /\ request[q].op = "delete" /\ ~request[q].late
<1> SUFFICES ASSUME NEW q \in Requests, Counted(q)' PROVE ~asset'.referenced
  BY DEF CountInv
<1>0. Counted(q) => ~asset.referenced
  BY DEF CountInv
<1>1. CASE UNCHANGED mediaVars \/ \E p \in Presets : Backoff(p)
  BY <1>0, <1>1 DEF mediaVars, Backoff
<1>2. CASE CreateMediaUpload \/ EnqueueMediaVariants \/ \E b \in Bytes : Upload(b)
  BY <1>0, <1>2 DEF CreateMediaUpload, EnqueueMediaVariants, Upload, Asset
<1>3. ASSUME NEW b \in BOOLEAN, Refer(b) PROVE ~asset'.referenced
  <2>1. /\ request'[q] = [request[q] EXCEPT !.late = @ \/ (b /\ request[q].op = "delete")]
        /\ asset' = [asset EXCEPT !.referenced = b]
    BY <1>3 DEF Refer
  <2>2. ~(b /\ request[q].op = "delete") /\ request'[q].op = request[q].op /\ asset'.referenced = b
    BY <2>1 DEF Request, Asset
  <2> QED BY <2>2
<1>4. ASSUME NEW r \in Replicas, Tick(r) \/ WorkerFaults(r) PROVE ~asset'.referenced
  BY <1>0, <1>4, WorkerForm
<1>5. ASSUME NEW s \in Requests, RequestStep(s) PROVE ~asset'.referenced
  <2>1. asset'.referenced = asset.referenced \/ ~asset'.referenced
    <3>1. CASE Marked(s)
      BY <3>1 DEF Marked, Asset
    <3>2. CASE Removed(s)
      BY <3>2 DEF Removed
    <3> QED BY <1>5, <3>1, <3>2, RequestEffect
  <2>2. CASE q # s
    BY <1>0, <1>5, <2>1, <2>2, RequestForm
  <2>3. CASE q = s
    <3>1. NoRequest.stage = "idle"
      BY DEF NoRequest
    <3>2. CASE MarkMediaUploaded(q) \/ DeleteObjects(q) \/ DeletionFails(q)
      BY <3>1, <3>2 DEF MarkMediaUploaded, DeleteObjects, DeletionFails, Ask, Request
    <3>3. CASE SelectKeys(q) \/ DeleteRow(q)
      <4>1. Counted(q)
        BY ZenonT(40), <3>1, <3>3 DEF SelectKeys, DeleteRow, Ask, Request
      <4> QED BY <1>0, <2>1, <4>1
    <3>4. CASE CompleteMediaUpload(q)
      BY <3>4 DEF CompleteMediaUpload, Ask, NoRequest
    <3>5. ASSUME NEW force \in BOOLEAN, DeleteMediaAsset(q, force) PROVE ~asset'.referenced
      <4>1. ~force
        BY <3>5 DEF DeleteMediaAsset, Ask, NoRequest
      <4> QED BY <3>5, <4>1 DEF DeleteMediaAsset, Ask
    <3> QED BY <1>5, <2>3, <3>2, <3>3, <3>4, <3>5 DEF RequestStep
  <2> QED BY <2>2, <2>3
<1> QED BY <1>1, <1>2, <1>3, <1>4, <1>5 DEF MediaNext, Editors

LEMMA BytesKept ==
  ASSUME MediaTypeOK, WorkInv, LockInv, GoneInv, SourceInv, RowsHaveBytes, [MediaNext]_mediaVars
  PROVE  RowsHaveBytes'
<1> USE TypeForm
<1>1. ASSUME asset'.state = "uploaded", faults' = 0 PROVE source' # "none"
  <2>1. \/ asset.state = "uploaded"
        \/ \E q \in Requests : request[q].stage = "measured" /\ Exists
    <3>1. CASE \E b \in BOOLEAN : Refer(b)
      BY <3>1 DEF Refer
    <3>2. ASSUME NEW q \in Requests, Marked(q) \/ Removed(q)
          PROVE  request[q].stage = "measured" /\ Exists
      BY <1>1, <3>2 DEF Marked, Removed
    <3> QED BY <1>1, <3>1, <3>2, AssetEffect
  <2>2. source # "none" /\ asset.state # "gone"
    BY <1>1, <2>1, SourceEffect DEF RowsHaveBytes, SourceInv, Exists
  <2> QED BY <1>1, <2>2, SourceEffect
<1>2. ASSUME NEW p \in Presets, rows'[p].key PROVE p \in objects'
  <2>0. /\ rows[p] \in Row /\ ~Absent.key /\ (rows[p].key => p \in objects)
        /\ Requeued(p).key = rows[p].key
    BY DEF RowsHaveBytes, Absent, Requeued
  <2>1. SUFFICES rows[p].key \/ p \in objects'
    BY <2>0, ObjectsKept
  <2>2. CASE rows' = rows
    BY <1>2, <2>2
  <2>3. CASE Editors
    BY <1>2, <2>0, <2>2, <2>3, EditorForm
  <2>4. ASSUME NEW q \in Requests, RequestStep(q) PROVE rows[p].key
    BY <1>2, <2>0, <2>2, <2>4, RequestEffect DEF Marked, Removed
  <2>5. CASE \E x \in Presets : Backoff(x)
    BY <1>2, <2>0, <2>5 DEF Backoff, Row
  <2>6. ASSUME NEW r \in Replicas, CommitRendering(r) PROVE rows[p].key \/ p \in objects'
    <3>1. worker[r] \in Worker /\ objects' = objects /\ worker[r].stage = "rendering"
      BY <2>6 DEF CommitRendering
    <3>2. CASE p \in worker[r].rows
      <4>1. worker[r].out[p] \in Outcomes \ {"none"} /\ (worker[r].out[p] = "done" => p \in objects)
        BY <2>6, <3>1, <3>2 DEF WorkInv, CommitRendering, Worker
      <4>2. rows'[p] = Finished(p, worker[r].out[p])
        BY <2>6, <3>2 DEF CommitRendering
      <4>3. Finished(p, "skipped").key = rows[p].key /\ Finished(p, "failed").key = rows[p].key
        BY <2>0 DEF Finished, Row
      <4> QED BY <1>2, <3>1, <4>1, <4>2, <4>3 DEF Outcomes
    <3>3. CASE p \notin worker[r].rows
      BY <1>2, <2>6, <3>3 DEF CommitRendering
    <3> QED BY <3>2, <3>3
  <2>7. ASSUME NEW r \in Replicas, MarkRetry(r) PROVE rows[p].key
    <3>1. Charged(p).key = rows[p].key
      BY <2>0 DEF Charged, Row
    <3> QED BY <1>2, <2>7, <3>1 DEF MarkRetry
  <2>8. ASSUME NEW r \in Replicas, Tick(r) \/ WorkerFaults(r) PROVE rows[p].key \/ p \in objects'
    <3>1. rows' = rows \/ CommitRendering(r) \/ MarkRetry(r)
      BY <2>8 DEF Tick, WorkerFaults, ClaimPendingMediaVariants, RenderFails, RenderNothing,
                  Render, RenderErrs, MarkRetryFails, Crash, Turn
    <3> QED BY <2>2, <2>6, <2>7, <3>1
  <2>9. CASE UNCHANGED mediaVars
    BY <2>2, <2>9 DEF mediaVars
  <2> QED BY <2>3, <2>4, <2>5, <2>8, <2>9 DEF MediaNext
<1> QED BY <1>1, <1>2 DEF RowsHaveBytes

-----------------------------------------------------------------------------
LEMMA Invariance == MediaSpec => []MediaInv
<1>1. MediaInit => MediaInv
  <2> SUFFICES ASSUME MediaInit PROVE MediaInv
    OBVIOUS
  <2> USE DEF MediaInit
  <2>1. MediaTypeOK
    BY TypeForm, Rests, MediaAssumption DEF Asset, AssetStates, Bytes
  <2>2. /\ \A r \in Replicas : worker[r].stage = "idle" /\ ClaimedBy(r) = {}
        /\ \A q \in Requests : request[q].stage = "idle" /\ SelectedBy(q) = {}
        /\ \A p \in Presets : rows[p].state = "absent" /\ ~rows[p].key
    BY DEF Resting, NoRequest, Absent, ClaimedBy, SelectedBy
  <2> QED BY <2>1, <2>2 DEF MediaInv, WorkInv, LockInv, ClaimHolds, GoneInv, SourceInv, CountInv,
                            RowsHaveBytes, Idle
<1>2. MediaInv /\ [MediaNext]_mediaVars => MediaInv'
  BY TypesKept, WorkKept, LocksKept, GoneKept, SourceKept, CountKept, BytesKept
     DEF MediaInv, LockInv
<1> QED BY <1>1, <1>2, PTL DEF MediaSpec

(* A row that names a rendering has its bytes in the store, whichever      *)
(* claims, commits, deletions, discards and crashes interleave, and no row *)
(* is attempted beyond the budget (worker.go renderAll and markRetry, and  *)
(* deleteMediaAsset of content_service).                                   *)
THEOREM RenditionsAreSound == MediaSpec => []RenditionsSound
<1>1. MediaInv => RenditionsSound
  BY DEF MediaInv, RenditionsSound
<1> QED BY <1>1, Invariance, PTL

(* No two replicas hold one row, and a row that is being rendered is still *)
(* there (FOR UPDATE SKIP LOCKED of ClaimPendingMediaVariants against the  *)
(* cascade of DeleteMediaAsset).                                           *)
THEOREM ClaimsHold == MediaSpec => []ClaimHolds
<1>1. MediaInv => ClaimHolds
  BY DEF MediaInv, LockInv
<1> QED BY <1>1, Invariance, PTL

(* Only a forced deletion, a discard or a deletion overtaken by a new      *)
(* reference takes an asset that entries refer to (the count in            *)
(* DeleteMediaAsset and the transaction that follows it).                  *)
THEOREM ReferencedAssetSurvives == MediaSpec => ReferencedSurvives
<1> DEFINE Step == asset.state # "gone" /\ asset'.state = "gone" /\ asset.referenced =>
                     \E q \in Requests : request[q].stage = "selected"
                       /\ (request[q].op # "delete" \/ request[q].late)
<1>1. MediaInv /\ [MediaNext]_mediaVars => [Step]_mediaVars
  <2> SUFFICES ASSUME MediaInv, [MediaNext]_mediaVars, asset.state # "gone",
                      asset'.state = "gone", asset.referenced
               PROVE  \E q \in Requests : request[q].stage = "selected"
                        /\ (request[q].op # "delete" \/ request[q].late)
    OBVIOUS
  <2>1. \E q \in Requests : Removed(q)
    BY AssetEffect, TypeForm DEF MediaInv, Refer, Marked, Asset
  <2> QED BY <2>1 DEF MediaInv, CountInv, Removed
<1> QED BY <1>1, Invariance, PTL DEF MediaSpec, ReferencedSurvives

-----------------------------------------------------------------------------
(* SchemaComponents.  A call that no other has overtaken still knows the   *)
(* component and the referrers it read, since every write overtakes all    *)
(* calls and drafts under way; and it knows the copies that were not       *)
(* written beside it.                                                      *)

(* What an item, a list and a call mean, of a state that is given: the     *)
(* component d is the one the item belongs to.                             *)
FitsBy(comp, f, i, d) ==
  /\ comp[d].live
  /\ \/ f.kind = "embed" /\ d \in f.uses /\ i.tag = NoItem
     \/ f.kind = "zone" /\ comp[d].name \in f.uses /\ i.tag = comp[d].name
  /\ \A k \in SubKeys : /\ k \in i.keys => comp[d].fields[k] # "none"
                        /\ comp[d].fields[k] = "required" => k \in i.keys

Fits(comp, f, i) == i.held => \E d \in Components : FitsBy(comp, f, i, d)

NamedIn(comp, n) == \E d \in Components : comp[d].live /\ comp[d].name = n

Resolved(comp, kind, uses) ==
  /\ kind = "zone" => \A n \in uses : NamedIn(comp, n)
  /\ kind = "embed" => \A d \in uses : comp[d].live

RefOf(comp, f, d) ==
  IF f.kind = "embed" /\ d \in f.uses THEN "embed"
  ELSE IF f.kind = "zone" /\ comp[d].live /\ comp[d].name \in f.uses THEN "zone"
  ELSE "none"

OnComponent == {"rename", "delete", "add_field", "update_field", "rename_field", "delete_field"}

(* What a call knows of the type as long as no other has written.          *)
KnowsType(comp, f, c) ==
  /\ c.op \in OnComponent => comp[c.id].live /\ comp[c.id].name = c.name
  /\ c.op = "rename_field" => comp[c.id].fields[c.to] = "none"
  /\ c.op = "add" => Resolved(comp, c.to, c.uses)
  /\ c.op = "update_zone" => Resolved(comp, "zone", c.uses)
  /\ c.stage = "checked" =>
       c.ref = IF c.op \in OnComponent THEN RefOf(comp, f, c.id) ELSE "none"

(* What it knows of an item once it has asked the entries.                 *)
KnowsItem(f, c, i) ==
  /\ c.op \in {"add_field", "update_field"} /\ c.to = "required" =>
       (ItsItem(i, c.ref, c.name) => c.key \in i.keys)
  /\ c.op = "delete_field" /\ ~c.force => (ItsItem(i, c.ref, c.name) => c.key \notin i.keys)
  /\ c.op = "update_zone" => ~(i.held /\ i.tag \in f.uses /\ i.tag \notin c.uses)

UsesForm(kind, uses) ==
  /\ kind = "zone" => uses \subseteq Names
  /\ kind = "embed" => \E d \in Components : uses = {d}

(* What a call was asked to do.                                            *)
AskForm(kind, c) ==
  /\ c.op \in OnComponent \cup {"add", "update_zone"}
  /\ c.op \in OnComponent <=> c.id \in Components
  /\ c.op = "rename" => c.to \in Names
  /\ c.op \in {"add_field", "update_field"} => c.to \in {"optional", "required"}
  /\ c.op \in {"add_field", "update_field", "rename_field", "delete_field"} => c.key \in SubKeys
  /\ c.op = "rename_field" => c.to \in SubKeys
  /\ c.op = "add" => c.to \in FieldKinds /\ UsesForm(c.to, c.uses)
  /\ c.op = "update_zone" => kind = "zone" /\ c.uses \subseteq Names
  /\ c.op # "delete_field" => ~c.force

Calls == [op : Ops, stage : {"idle", "read", "checked", "asked"}, id : Components \cup {NoComponent},
          name : Names \cup {"", "gone"}, ref : {"none", "zone", "embed"},
          key : SubKeys \cup {""},
          to : Names \cup SubKeys \cup {"", "zone", "embed", "optional", "required"},
          uses : SUBSET (Names \cup Components), force : BOOLEAN, crossed : BOOLEAN]
Drafts == [stage : {"idle", "valid", "based"}, item : Items, fresh : BOOLEAN, crossed : BOOLEAN]
ComponentRows == [live : BOOLEAN, name : Names \cup {"", "gone"}, fields : SubFields]
Fields == [kind : {"zone", "embed", NoField}, uses : SUBSET (Names \cup Components)]

(* A name is one component's.                                              *)
ComponentsForm ==
  /\ component \in [Components -> ComponentRows]
  /\ \A c \in Components : component[c].live => component[c].name \in Names
  /\ \A c, d \in Components :
       component[c].live /\ component[d].live /\ component[c].name = component[d].name => c = d

FieldForm == field \in Fields /\ UsesForm(field.kind, field.uses)

(* Without a field nothing is stored and nobody writes.                    *)
ItemsForm ==
  /\ item \in [Copies -> Items] /\ torn \subseteq Copies \cup {"list"}
  /\ field.kind = NoField => \A copy \in Copies : ~item[copy].held

CallsForm ==
  /\ work \in [Admins -> Calls]
  /\ \A a \in Admins : work[a].stage # "idle" => AskForm(field.kind, work[a])

DraftsForm ==
  /\ draft \in [Writers -> Drafts]
  /\ field.kind = NoField => \A w \in Writers : draft[w].stage = "idle"

CallsKnow ==
  \A a \in Admins : work[a].stage \in {"read", "checked"} /\ ~work[a].crossed =>
    /\ KnowsType(component, field, work[a])
    /\ work[a].stage = "checked" =>
         \A copy \in Copies \ torn : KnowsItem(field, work[a], item[copy])

(* A deletion that has asked the zones knows nothing else any more.        *)
KnowsZones(c) == c.op = "delete" /\ (~c.crossed => UsedByNoZone(c.id))

DeletionsKnow == \A a \in Admins : work[a].stage = "asked" => KnowsZones(work[a])

DraftsFit ==
  \A w \in Writers : draft[w].stage # "idle" /\ ~draft[w].crossed =>
    Fits(component, field, draft[w].item)

CopiesFit == \A copy \in Copies \ torn : Fits(component, field, item[copy])

UsesFit == "list" \notin torn => Resolved(component, field.kind, field.uses)

ComponentInv ==
  /\ ComponentsForm /\ FieldForm /\ ItemsForm /\ CallsForm /\ DraftsForm
  /\ CallsKnow /\ DeletionsKnow /\ DraftsFit /\ CopiesFit /\ UsesFit

-----------------------------------------------------------------------------
(* Items. *)

LEMMA ItemForm ==
  ASSUME NEW i
  PROVE  i \in Items <=>
           i = Nothing \/ \E t \in Tags : \E ks \in SUBSET SubKeys : i = Item(t, ks)
  <1>1. i \in {Item(t, ks) : t \in Tags, ks \in SUBSET SubKeys}
          <=> \E t \in Tags : \E ks \in SUBSET SubKeys : i = Item(t, ks)
    OBVIOUS
  <1> QED
    BY <1>1 DEF Items

LEMMA ItemFields ==
  ASSUME NEW i \in Items
  PROVE  /\ i.held \in BOOLEAN /\ i.keys \in SUBSET SubKeys
         /\ i.held => i.tag \in Tags
         /\ ~i.held => i = Nothing
         /\ i = [held |-> i.held, tag |-> i.tag, keys |-> i.keys]
  <1>1. CASE i = Nothing
    BY <1>1 DEF Nothing
  <1>2. CASE \E t \in Tags : \E ks \in SUBSET SubKeys : i = Item(t, ks)
    BY <1>2 DEF Item
  <1> QED
    BY <1>1, <1>2, ItemForm

LEMMA ItemRetagged ==
  ASSUME NEW i \in Items, i.held, NEW t \in Tags
  PROVE  /\ [i EXCEPT !.tag = t] \in Items
         /\ [i EXCEPT !.tag = t].held
         /\ [i EXCEPT !.tag = t].tag = t
         /\ [i EXCEPT !.tag = t].keys = i.keys
  <1>1. /\ i = [held |-> i.held, tag |-> i.tag, keys |-> i.keys]
        /\ i.held = TRUE /\ i.keys \in SUBSET SubKeys
    BY ItemFields
  <1>2. [i EXCEPT !.tag = t] = [held |-> i.held, tag |-> t, keys |-> i.keys]
    <2>1. PICK h, u, js : i = [held |-> h, tag |-> u, keys |-> js]
      BY <1>1, Zenon
    <2>2. [[held |-> h, tag |-> u, keys |-> js] EXCEPT !.tag = t] = [held |-> h, tag |-> t, keys |-> js]
      OBVIOUS
    <2>3. h = i.held /\ u = i.tag /\ js = i.keys
      BY <2>1
    <2> QED
      BY <2>1, <2>2, <2>3, Zenon
  <1>3. Item(t, i.keys) \in Items
    BY <1>1, ItemForm
  <1> QED
    BY <1>1, <1>2, <1>3 DEF Item

LEMMA ItemRekeyed ==
  ASSUME NEW i \in Items, i.held, NEW ks \in SUBSET SubKeys
  PROVE  /\ [i EXCEPT !.keys = ks] \in Items
         /\ [i EXCEPT !.keys = ks].held
         /\ [i EXCEPT !.keys = ks].tag = i.tag
         /\ [i EXCEPT !.keys = ks].keys = ks
  <1>1. /\ i = [held |-> i.held, tag |-> i.tag, keys |-> i.keys]
        /\ i.held = TRUE /\ i.tag \in Tags
    BY ItemFields
  <1>2. [i EXCEPT !.keys = ks] = [held |-> i.held, tag |-> i.tag, keys |-> ks]
    <2>1. PICK h, u, js : i = [held |-> h, tag |-> u, keys |-> js]
      BY <1>1, Zenon
    <2>2. [[held |-> h, tag |-> u, keys |-> js] EXCEPT !.keys = ks] = [held |-> h, tag |-> u, keys |-> ks]
      OBVIOUS
    <2>3. h = i.held /\ u = i.tag /\ js = i.keys
      BY <2>1
    <2> QED
      BY <2>1, <2>2, <2>3, Zenon
  <1>3. Item(i.tag, ks) \in Items
    BY <1>1, ItemForm
  <1> QED
    BY <1>1, <1>2, <1>3 DEF Item

(* An item that fits by some component is the component's that a call has  *)
(* read exactly when the call takes it for one.                            *)
LEMMA ItsOwn ==
  ASSUME NEW comp, NEW f, NEW i, NEW d \in Components, NEW e \in Components,
         UsesForm(f.kind, f.uses), comp[d].live, i.held,
         \A b, c \in Components :
           comp[b].live /\ comp[c].live /\ comp[b].name = comp[c].name => b = c,
         FitsBy(comp, f, i, e)
  PROVE  e = d <=> ItsItem(i, RefOf(comp, f, d), comp[d].name)
  BY DEF FitsBy, ItsItem, RefOf, UsesForm

-----------------------------------------------------------------------------
(* A write that everybody under way has been overtaken by. *)

Overtaken(c, d) ==
  d.stage # "idle" =>
    /\ d.stage = c.stage /\ d.crossed
    /\ d.op = c.op /\ d.id = c.id /\ d.key = c.key
    /\ d.to = c.to /\ d.uses = c.uses /\ d.force = c.force

Overtakes ==
  /\ work' \in [Admins -> Calls] /\ draft' \in [Writers -> Drafts]
  /\ \A a \in Admins : Overtaken(work[a], work'[a])
  /\ \A w \in Writers : draft'[w].stage # "idle" =>
       draft[w].stage # "idle" /\ draft'[w].crossed

LEMMA CallCrossed ==
  ASSUME NEW c \in Calls, NEW x \in BOOLEAN, x <=> c.stage # "idle",
         NEW d, d = [c EXCEPT !.crossed = x]
  PROVE  d \in Calls /\ Overtaken(c, d)
  BY DEF Calls, Overtaken

LEMMA DraftCrossed ==
  ASSUME NEW c \in Drafts, NEW x \in BOOLEAN, x <=> c.stage # "idle", NEW y \in BOOLEAN,
         NEW d, d = [c EXCEPT !.crossed = x, !.fresh = y] \/ d = [c EXCEPT !.crossed = x]
  PROVE  d \in Drafts /\ (d.stage # "idle" => c.stage # "idle" /\ d.crossed)
  BY DEF Drafts

LEMMA NoCallForm == NoCall \in Calls /\ NoCall.stage = "idle"
  BY DEF NoCall, Calls, Ops

LEMMA NoDraftForm == NoDraft \in Drafts /\ NoDraft.stage = "idle"
  <1>1. Nothing \in Items
    BY ItemForm
  <1> QED
    BY <1>1 DEF NoDraft, Drafts

LEMMA CommitOvertakes ==
  ASSUME NEW a \in Admins, work \in [Admins -> Calls], draft \in [Writers -> Drafts],
         Committed(a)
  PROVE  Overtakes
  <1>1. \A b \in Admins : /\ work[b] \in Calls /\ InFlight(b) \in BOOLEAN
                          /\ InFlight(b) <=> work[b].stage # "idle"
    BY DEF InFlight
  <1>2. /\ DOMAIN work' = Admins
        /\ \A b \in Admins : work'[b] = IF b = a THEN NoCall
                                        ELSE [work[b] EXCEPT !.crossed = InFlight(b)]
    BY DEF Committed
  <1>3. work' = [b \in Admins |-> work'[b]]
    BY DEF Committed
  <1> DEFINE x(b) == InFlight(b)
  <1>4. \A b \in Admins : x(b) \in BOOLEAN /\ (x(b) <=> work[b].stage # "idle")
    BY <1>1
  <1>5. \A b \in Admins : b # a => work'[b] = [work[b] EXCEPT !.crossed = x(b)]
    BY <1>2
  <1>6. work'[a] = NoCall
    BY <1>2
  <1> HIDE DEF x
  <1>7. \A b \in Admins : /\ work'[b] \in Calls
                          /\ Overtaken(work[b], work'[b])
    <2> TAKE b \in Admins
    <2>1. CASE b = a
      BY <2>1, <1>6, NoCallForm DEF Overtaken
    <2>2. CASE b # a
      <3>1. /\ work[b] \in Calls /\ x(b) \in BOOLEAN /\ (x(b) <=> work[b].stage # "idle")
            /\ work'[b] = [work[b] EXCEPT !.crossed = x(b)]
        BY <2>2, <1>1, <1>4, <1>5
      <3> QED
        BY <3>1, CallCrossed, Zenon
    <2> QED
      BY <2>1, <2>2
  <1>8. work' \in [Admins -> Calls]
    BY <1>3, <1>7
  <1> DEFINE y(w) == draft[w].stage # "idle"
             z(w) == draft[w].fresh /\ item'["working"] = item["working"]
  <1>9. /\ draft' = [w \in Writers |-> [draft[w] EXCEPT !.crossed = y(w), !.fresh = z(w)]]
        /\ \A w \in Writers : /\ y(w) \in BOOLEAN /\ z(w) \in BOOLEAN
                              /\ y(w) <=> draft[w].stage # "idle"
    BY DEF Committed
  <1> HIDE DEF y, z
  <1>10. \A w \in Writers : /\ draft'[w] \in Drafts
                            /\ draft'[w].stage # "idle" =>
                                 draft[w].stage # "idle" /\ draft'[w].crossed
    <2> TAKE w \in Writers
    <2>1. /\ draft[w] \in Drafts /\ y(w) \in BOOLEAN /\ (y(w) <=> draft[w].stage # "idle")
          /\ z(w) \in BOOLEAN
          /\ draft'[w] = [draft[w] EXCEPT !.crossed = y(w), !.fresh = z(w)]
      BY <1>9
    <2> QED
      BY <2>1, DraftCrossed, Zenon
  <1>11. draft' \in [Writers -> Drafts]
    BY <1>9, <1>10
  <1> QED
    BY <1>7, <1>8, <1>10, <1>11 DEF Overtakes

LEMMA CreateOvertakes ==
  ASSUME NEW c, NEW n, NEW fields,
         work \in [Admins -> Calls], draft \in [Writers -> Drafts],
         CreateComponent(c, n, fields)
  PROVE  Overtakes
  <1> DEFINE x(b) == InFlight(b)
             y(w) == draft[w].stage # "idle"
  <1>1. /\ work' = [b \in Admins |-> [work[b] EXCEPT !.crossed = x(b)]]
        /\ draft' = [w \in Writers |-> [draft[w] EXCEPT !.crossed = y(w)]]
    BY DEF CreateComponent
  <1>2. \A b \in Admins : x(b) \in BOOLEAN /\ (x(b) <=> work[b].stage # "idle")
    BY DEF InFlight
  <1>3. \A w \in Writers : y(w) \in BOOLEAN /\ (y(w) <=> draft[w].stage # "idle")
    OBVIOUS
  <1> HIDE DEF x, y
  <1>4. \A b \in Admins : /\ work'[b] \in Calls
                          /\ Overtaken(work[b], work'[b])
    <2> TAKE b \in Admins
    <2>1. /\ work[b] \in Calls /\ x(b) \in BOOLEAN /\ (x(b) <=> work[b].stage # "idle")
          /\ work'[b] = [work[b] EXCEPT !.crossed = x(b)]
      BY <1>1, <1>2
    <2> QED
      BY <2>1, CallCrossed, Zenon
  <1>5. \A w \in Writers : /\ draft'[w] \in Drafts
                           /\ draft'[w].stage # "idle" =>
                                draft[w].stage # "idle" /\ draft'[w].crossed
    <2> TAKE w \in Writers
    <2>1. /\ draft[w] \in Drafts /\ y(w) \in BOOLEAN /\ (y(w) <=> draft[w].stage # "idle")
          /\ draft'[w] = [draft[w] EXCEPT !.crossed = y(w)]
      BY <1>1, <1>3
    <2> QED
      BY <2>1, DraftCrossed, Zenon
  <1>6. work' \in [Admins -> Calls] /\ draft' \in [Writers -> Drafts]
    BY <1>1, <1>4, <1>5
  <1> QED
    BY <1>4, <1>5, <1>6 DEF Overtakes

(* What is left to show of a write: the shapes, and that items and lists   *)
(* still fit.                                                              *)
LEMMA WriteKeeps ==
  ASSUME ComponentInv, Overtakes,
         ComponentsForm', FieldForm', ItemsForm', CopiesFit', UsesFit',
         field.kind # NoField => field'.kind = field.kind
  PROVE  ComponentInv'
  <1>1. CallsForm'
    <2>1. \A a \in Admins : work'[a].stage # "idle" => AskForm(field'.kind, work'[a])
      <3> SUFFICES ASSUME NEW a \in Admins, work'[a].stage # "idle"
                   PROVE  AskForm(field'.kind, work'[a])
        OBVIOUS
      <3>1. AskForm(field.kind, work[a])
        BY DEF ComponentInv, CallsForm, Overtakes, Overtaken
      <3>2. /\ work'[a].op = work[a].op /\ work'[a].id = work[a].id
            /\ work'[a].key = work[a].key /\ work'[a].to = work[a].to
            /\ work'[a].uses = work[a].uses /\ work'[a].force = work[a].force
        BY DEF Overtakes, Overtaken
      <3>3. field.kind = "zone" => field'.kind = "zone"
        BY ComponentAssumption
      <3> QED
        BY <3>1, <3>2, <3>3 DEF AskForm
    <2> QED
      BY <2>1 DEF CallsForm, Overtakes
  <1>2. DraftsForm'
    BY DEF DraftsForm, ComponentInv, Overtakes
  <1>3. CallsKnow' /\ DraftsFit'
    BY DEF CallsKnow, DraftsFit, Overtakes, Overtaken
  <1>4. DeletionsKnow'
    BY DEF DeletionsKnow, KnowsZones, ComponentInv, Overtakes, Overtaken
  <1> QED
    BY <1>1, <1>2, <1>3, <1>4 DEF ComponentInv

-----------------------------------------------------------------------------
(* Writes to a component. *)

LEMMA RowSet ==
  ASSUME ComponentsForm, NEW d \in Components, NEW g \in SubFields,
         component' = [component EXCEPT ![d].fields = g]
  PROVE  /\ ComponentsForm'
         /\ \A e \in Components : /\ component'[e].live = component[e].live
                                  /\ component'[e].name = component[e].name
                                  /\ e # d => component'[e].fields = component[e].fields
         /\ component'[d].fields = g
  <1>1. \A e \in Components : component[e] \in ComponentRows
    BY DEF ComponentsForm
  <1>2. /\ component' = [e \in Components |-> component'[e]]
        /\ component'[d] = [component[d] EXCEPT !.fields = g]
        /\ \A e \in Components : e # d => component'[e] = component[e]
    BY DEF ComponentsForm
  <1>3. \A r \in ComponentRows : LET s == [r EXCEPT !.fields = g] IN
          s \in ComponentRows /\ s.live = r.live /\ s.name = r.name /\ s.fields = g
    BY DEF ComponentRows
  <1>4. \A e \in Components : /\ component'[e] \in ComponentRows
                              /\ component'[e].live = component[e].live
                              /\ component'[e].name = component[e].name
                              /\ e # d => component'[e].fields = component[e].fields
    BY <1>1, <1>2, <1>3
  <1>5. component' \in [Components -> ComponentRows]
    BY <1>2, <1>4
  <1>6. component'[d].fields = g
    BY <1>1, <1>2, <1>3
  <1> QED
    BY <1>4, <1>5, <1>6 DEF ComponentsForm

LEMMA OwnerOf ==
  ASSUME ComponentInv, NEW a \in Admins, work[a].stage = "checked", ~work[a].crossed,
         work[a].op \in OnComponent,
         NEW copy \in Copies, copy \notin torn, item[copy].held
  PROVE  \E e \in Components :
           /\ FitsBy(component, field, item[copy], e)
           /\ e = work[a].id <=> ItsItem(item[copy], work[a].ref, work[a].name)
  <1>1. /\ work[a].id \in Components
        /\ KnowsType(component, field, work[a])
    BY DEF ComponentInv, CallsForm, CallsKnow, AskForm
  <1>2. /\ component[work[a].id].live /\ component[work[a].id].name = work[a].name
        /\ work[a].ref = RefOf(component, field, work[a].id)
    BY <1>1 DEF KnowsType
  <1>3. PICK e \in Components : FitsBy(component, field, item[copy], e)
    BY DEF ComponentInv, CopiesFit, Fits
  <1>4. /\ UsesForm(field.kind, field.uses)
        /\ \A b, c \in Components :
             component[b].live /\ component[c].live /\ component[b].name = component[c].name
               => b = c
    BY DEF ComponentInv, FieldForm, ComponentsForm
  <1>5. e = work[a].id <=> ItsItem(item[copy], RefOf(component, field, work[a].id),
                                   component[work[a].id].name)
    BY <1>1, <1>2, <1>3, <1>4, ItsOwn
  <1> QED
    BY <1>2, <1>3, <1>5

(* A write that changes a component's sub-fields, and items accordingly.   *)
LEMMA FieldsRewritten ==
  ASSUME ComponentInv, NEW a \in Admins, work[a].stage = "checked",
         work[a].op \in OnComponent, NEW g \in SubFields,
         component' = [component EXCEPT ![work[a].id].fields = g],
         field' = field, Committed(a), Tear(a, Copies),
         item' \in [Copies -> Items],
         \A copy \in Copies : item'[copy].held = item[copy].held,
         ~work[a].crossed =>
           \A copy \in Copies \ torn : Fits(component', field, item'[copy])
  PROVE  ComponentInv'
  <1>1. Overtakes
    BY CommitOvertakes DEF ComponentInv, CallsForm, DraftsForm
  <1>2. work[a].id \in Components
    BY DEF ComponentInv, CallsForm, AskForm
  <1>3. /\ ComponentsForm'
        /\ \A e \in Components : /\ component'[e].live = component[e].live
                                 /\ component'[e].name = component[e].name
    BY <1>2, RowSet DEF ComponentInv
  <1>4. torn' = torn \cup (IF work[a].crossed THEN Copies ELSE {})
    BY DEF Tear
  <1>5. FieldForm' /\ ItemsForm'
    BY <1>4 DEF ComponentInv, FieldForm, ItemsForm
  <1>6. CopiesFit'
    BY <1>4 DEF CopiesFit
  <1>7. UsesFit'
    BY <1>3, <1>4 DEF ComponentInv, UsesFit, Resolved, NamedIn, Copies
  <1> QED
    BY <1>1, <1>3, <1>5, <1>6, <1>7, WriteKeeps

LEMMA SubFieldSet ==
  ASSUME ComponentInv, NEW a \in Admins, work[a].stage = "checked",
         work[a].op \in {"add_field", "update_field"},
         SetSubField(work[a].id, work[a].key, work[a].to),
         UNCHANGED <<field, item>>, Committed(a), Tear(a, Copies)
  PROVE  ComponentInv'
  <1> DEFINE c == work[a]
             g == [component[c.id].fields EXCEPT ![c.key] = c.to]
  <1>1. /\ c.op \in OnComponent /\ c.id \in Components /\ c.key \in SubKeys
        /\ c.to \in {"optional", "required"}
    BY DEF ComponentInv, CallsForm, AskForm, OnComponent
  <1>2. component[c.id] \in ComponentRows /\ component[c.id].fields \in SubFields
    BY <1>1 DEF ComponentInv, ComponentsForm, ComponentRows
  <1>3. g \in SubFields
    BY <1>1, <1>2 DEF SubFields
  <1>4. component' = [component EXCEPT ![c.id].fields = g]
    BY DEF SetSubField
  <1>5. ~c.crossed => \A copy \in Copies \ torn : Fits(component', field, item[copy])
    <2> SUFFICES ASSUME ~c.crossed, NEW copy \in Copies, copy \notin torn, item[copy].held
                 PROVE  \E e \in Components : FitsBy(component', field, item[copy], e)
      BY DEF Fits
    <2>1. PICK e \in Components :
            /\ FitsBy(component, field, item[copy], e)
            /\ e = c.id <=> ItsItem(item[copy], c.ref, c.name)
      BY <1>1, OwnerOf
    <2>2. e = c.id /\ c.to = "required" => c.key \in item[copy].keys
      BY <2>1 DEF ComponentInv, CallsKnow, KnowsItem
    <2>3. /\ component'[e].live = component[e].live /\ component'[e].name = component[e].name
          /\ e # c.id => component'[e].fields = component[e].fields
          /\ e = c.id => component'[e].fields = g
      BY <1>1, <1>3, <1>4, RowSet DEF ComponentInv
    <2>4. e = c.id => \A k \in SubKeys : g[k] = IF k = c.key THEN c.to
                                                ELSE component[e].fields[k]
      BY <1>1, <1>2 DEF SubFields
    <2> HIDE DEF c, g
    <2>5. FitsBy(component', field, item[copy], e)
      BY <1>1, <2>1, <2>2, <2>3, <2>4 DEF FitsBy
    <2> QED
      BY <2>5
  <1>6. item \in [Copies -> Items]
    BY DEF ComponentInv, ItemsForm
  <1> HIDE DEF g
  <1> QED
    BY <1>1, <1>3, <1>4, <1>5, <1>6, FieldsRewritten

(* The rewriting of the items that hold the key.                           *)
LEMMA ItemsRekeyed ==
  ASSUME item \in [Copies -> Items], NEW c, NEW ks \in SUBSET SubKeys,
         RewriteComponentItems(c, ks)
  PROVE  /\ item' \in [Copies -> Items]
         /\ \A copy \in Copies :
              /\ item'[copy].held = item[copy].held
              /\ item'[copy].tag = item[copy].tag
              /\ item'[copy].keys =
                   IF ItsItem(item[copy], c.ref, c.name) /\ c.key \in item[copy].keys
                   THEN (item[copy].keys \ {c.key}) \cup ks ELSE item[copy].keys
  <1> DEFINE its(copy) == ItsItem(item[copy], c.ref, c.name) /\ c.key \in item[copy].keys
             js(copy) == (item[copy].keys \ {c.key}) \cup ks
  <1>1. item' = [copy \in Copies |-> IF its(copy) THEN [item[copy] EXCEPT !.keys = js(copy)]
                                     ELSE item[copy]]
    BY DEF RewriteComponentItems
  <1>2. \A copy \in Copies : its(copy) => item[copy].held
    BY DEF ItsItem
  <1>3. \A copy \in Copies : js(copy) \in SUBSET SubKeys
    BY ItemFields
  <1> HIDE DEF its, js
  <1>4. \A copy \in Copies :
          /\ item'[copy] \in Items
          /\ item'[copy].held = item[copy].held
          /\ item'[copy].tag = item[copy].tag
          /\ item'[copy].keys = IF its(copy) THEN js(copy) ELSE item[copy].keys
    <2> TAKE copy \in Copies
    <2>1. CASE its(copy)
      <3>1. item[copy] \in Items /\ item[copy].held /\ js(copy) \in SUBSET SubKeys
        BY <1>2, <1>3, <2>1
      <3>2. item'[copy] = [item[copy] EXCEPT !.keys = js(copy)]
        BY <1>1, <2>1
      <3>3. /\ item'[copy] \in Items /\ item'[copy].held
            /\ item'[copy].tag = item[copy].tag
            /\ item'[copy].keys = js(copy)
        BY <3>1, <3>2, ItemRekeyed
      <3>4. item'[copy].held = TRUE /\ item[copy].held = TRUE
        BY <3>1, <3>3, ItemFields
      <3> QED
        BY <2>1, <3>3, <3>4
    <2>2. CASE ~its(copy)
      BY <1>1, <2>2
    <2> QED
      BY <2>1, <2>2
  <1>5. item' \in [Copies -> Items]
    BY <1>1, <1>4
  <1> QED
    BY <1>4, <1>5 DEF its, js

LEMMA SubFieldRenamed ==
  ASSUME ComponentInv, NEW a \in Admins, RenameComponentFieldRow(a),
         component[work[a].id].live,
         component[work[a].id].fields[work[a].key] # "none",
         component[work[a].id].fields[work[a].to] = "none"
  PROVE  ComponentInv'
  <1> DEFINE c == work[a]
             old == component[c.id].fields
             g == [old EXCEPT ![c.to] = old[c.key], ![c.key] = "none"]
  <1>1. /\ c.op \in OnComponent /\ c.id \in Components /\ c.key \in SubKeys
        /\ c.to \in SubKeys /\ c.stage = "checked"
    BY DEF RenameComponentFieldRow, Writing, ComponentInv, CallsForm, AskForm, OnComponent
  <1>2. component[c.id] \in ComponentRows /\ old \in SubFields
    BY <1>1 DEF ComponentInv, ComponentsForm, ComponentRows
  <1>3. g \in SubFields
    BY <1>1, <1>2 DEF SubFields
  <1>4. /\ component' = [component EXCEPT ![c.id].fields = g]
        /\ RewriteComponentItems(c, {c.to}) /\ field' = field
        /\ Committed(a) /\ Tear(a, Copies)
    BY <1>1, <1>2 DEF RenameComponentFieldRow, Live
  <1>5. item \in [Copies -> Items] /\ {c.to} \in SUBSET SubKeys
    BY <1>1 DEF ComponentInv, ItemsForm
  <1>6. /\ item' \in [Copies -> Items]
        /\ \A copy \in Copies :
             /\ item'[copy].held = item[copy].held
             /\ item'[copy].tag = item[copy].tag
             /\ item'[copy].keys =
                  IF ItsItem(item[copy], c.ref, c.name) /\ c.key \in item[copy].keys
                  THEN (item[copy].keys \ {c.key}) \cup {c.to} ELSE item[copy].keys
    BY <1>4, <1>5, ItemsRekeyed
  <1>7. ~c.crossed => \A copy \in Copies \ torn : Fits(component', field, item'[copy])
    <2> SUFFICES ASSUME ~c.crossed, NEW copy \in Copies, copy \notin torn, item'[copy].held
                 PROVE  \E e \in Components : FitsBy(component', field, item'[copy], e)
      BY DEF Fits
    <2>1. PICK e \in Components :
            /\ FitsBy(component, field, item[copy], e)
            /\ e = c.id <=> ItsItem(item[copy], c.ref, c.name)
      BY <1>1, <1>6, OwnerOf
    <2>2. /\ component'[e].live = component[e].live /\ component'[e].name = component[e].name
          /\ e # c.id => component'[e].fields = component[e].fields
          /\ e = c.id => component'[e].fields = g
      BY <1>1, <1>3, <1>4, RowSet DEF ComponentInv
    <2>3. /\ \A k \in SubKeys : g[k] = IF k = c.key THEN "none"
                                       ELSE IF k = c.to THEN old[c.key] ELSE old[k]
          /\ c.to # c.key /\ old[c.to] = "none" /\ old[c.key] # "none"
          /\ e = c.id => component[e].fields = old
      BY <1>1, <1>2 DEF SubFields
    <2>4. /\ item'[copy].tag = item[copy].tag
          /\ item'[copy].keys = IF e = c.id /\ c.key \in item[copy].keys
                  THEN (item[copy].keys \ {c.key}) \cup {c.to} ELSE item[copy].keys
      BY <1>6, <2>1
    <2> HIDE DEF c, g, old
    <2>5. FitsBy(component', field, item'[copy], e)
      <3>1. CASE e = c.id
        BY <1>1, <2>1, <2>2, <2>3, <2>4, <3>1 DEF FitsBy
      <3>2. CASE e # c.id
        BY <2>1, <2>2, <2>4, <3>2 DEF FitsBy
      <3> QED
        BY <3>1, <3>2
    <2> QED
      BY <2>5
  <1> HIDE DEF g
  <1> QED
    BY <1>1, <1>3, <1>4, <1>6, <1>7, FieldsRewritten

LEMMA SubFieldDeleted ==
  ASSUME ComponentInv, NEW a \in Admins, DeleteComponentFieldRow(a),
         component[work[a].id].live,
         component[work[a].id].fields[work[a].key] # "none"
  PROVE  ComponentInv'
  <1> DEFINE c == work[a]
             old == component[c.id].fields
             g == [old EXCEPT ![c.key] = "none"]
  <1>1. /\ c.op \in OnComponent /\ c.id \in Components /\ c.key \in SubKeys
        /\ c.stage = "checked"
    BY DEF DeleteComponentFieldRow, Writing, ComponentInv, CallsForm, AskForm, OnComponent
  <1>2. component[c.id] \in ComponentRows /\ old \in SubFields
    BY <1>1 DEF ComponentInv, ComponentsForm, ComponentRows
  <1>3. g \in SubFields
    BY <1>1, <1>2 DEF SubFields
  <1>4. /\ component' = [component EXCEPT ![c.id].fields = g]
        /\ RewriteComponentItems(c, {}) /\ field' = field
        /\ Committed(a) /\ Tear(a, Copies)
    BY <1>1, <1>2 DEF DeleteComponentFieldRow, SetSubField, Live
  <1>5. item \in [Copies -> Items] /\ {} \in SUBSET SubKeys
    BY DEF ComponentInv, ItemsForm
  <1>6. /\ item' \in [Copies -> Items]
        /\ \A copy \in Copies :
             /\ item'[copy].held = item[copy].held
             /\ item'[copy].tag = item[copy].tag
             /\ item'[copy].keys =
                  IF ItsItem(item[copy], c.ref, c.name) /\ c.key \in item[copy].keys
                  THEN (item[copy].keys \ {c.key}) \cup {} ELSE item[copy].keys
    BY <1>4, <1>5, ItemsRekeyed
  <1>7. ~c.crossed => \A copy \in Copies \ torn : Fits(component', field, item'[copy])
    <2> SUFFICES ASSUME ~c.crossed, NEW copy \in Copies, copy \notin torn, item'[copy].held
                 PROVE  \E e \in Components : FitsBy(component', field, item'[copy], e)
      BY DEF Fits
    <2>1. PICK e \in Components :
            /\ FitsBy(component, field, item[copy], e)
            /\ e = c.id <=> ItsItem(item[copy], c.ref, c.name)
      BY <1>1, <1>6, OwnerOf
    <2>2. /\ component'[e].live = component[e].live /\ component'[e].name = component[e].name
          /\ e # c.id => component'[e].fields = component[e].fields
          /\ e = c.id => component'[e].fields = g
      BY ZenonT(40), <1>1, <1>3, <1>4, RowSet DEF ComponentInv
    <2>3. /\ \A k \in SubKeys : g[k] = IF k = c.key THEN "none" ELSE old[k]
          /\ e = c.id => component[e].fields = old
      BY <1>1, <1>2 DEF SubFields
    <2>4. /\ item'[copy].tag = item[copy].tag
          /\ item'[copy].keys = IF e = c.id THEN item[copy].keys \ {c.key}
                                ELSE item[copy].keys
      BY <1>6, <2>1
    <2> HIDE DEF c, g, old
    <2>5. FitsBy(component', field, item'[copy], e)
      BY <1>1, <2>1, <2>2, <2>3, <2>4 DEF FitsBy
    <2> QED
      BY <2>5
  <1> HIDE DEF g
  <1> QED
    BY <1>1, <1>3, <1>4, <1>6, <1>7, FieldsRewritten

(* The row of a component that is given a new value.                       *)
LEMMA RowReplaced ==
  ASSUME ComponentsForm, NEW d \in Components, NEW r \in ComponentRows,
         component' = [component EXCEPT ![d] = r],
         r.live => /\ r.name \in Names
                   /\ \A e \in Components : e # d /\ component[e].live => component[e].name # r.name
  PROVE  /\ ComponentsForm'
         /\ component'[d] = r
         /\ \A e \in Components : e # d => component'[e] = component[e]
  <1>1. /\ component' \in [Components -> ComponentRows]
        /\ component'[d] = r
        /\ \A e \in Components : e # d => component'[e] = component[e]
    BY DEF ComponentsForm
  <1>2. \A c \in Components : component'[c].live => component'[c].name \in Names
    BY <1>1 DEF ComponentsForm
  <1>3. \A b, c \in Components :
          component'[b].live /\ component'[c].live /\ component'[b].name = component'[c].name
            => b = c
    BY <1>1 DEF ComponentsForm
  <1> QED
    BY <1>1, <1>2, <1>3 DEF ComponentsForm

LEMMA ComponentRenamed ==
  ASSUME ComponentInv, NEW a \in Admins, RenameComponentRow(a),
         component[work[a].id].live, NameFree(work[a].id, work[a].to)
  PROVE  ComponentInv'
  <1> DEFINE c == work[a]
             d == c.id
             r == [component[d] EXCEPT !.name = c.to]
             its(copy) == c.ref = "zone" /\ ItsItem(item[copy], c.ref, c.name)
             hit == field.kind = "zone" /\ c.name \in field.uses
  <1>1. /\ c.op = "rename" /\ c.op \in OnComponent /\ d \in Components /\ c.to \in Names
        /\ c.stage = "checked" /\ c \in Calls
    BY DEF RenameComponentRow, Writing, ComponentInv, CallsForm, AskForm, OnComponent
  <1>2. component[d] \in ComponentRows
    BY <1>1 DEF ComponentInv, ComponentsForm
  <1>3. /\ r \in ComponentRows /\ r.live = component[d].live /\ r.name = c.to
        /\ r.fields = component[d].fields
    BY <1>1, <1>2 DEF ComponentRows
  <1>4. /\ component' = [component EXCEPT ![d] = r]
        /\ item' = [copy \in Copies |-> IF its(copy) THEN [item[copy] EXCEPT !.tag = c.to]
                                        ELSE item[copy]]
        /\ field' = IF hit THEN Zone((field.uses \ {c.name}) \cup {c.to}) ELSE field
        /\ Committed(a) /\ Tear(a, Copies \cup {"list"})
    BY DEF RenameComponentRow, Live
  <1>5. \A e \in Components : e # d /\ component[e].live => component[e].name # c.to
    BY DEF NameFree, Named, Live
  <1>6. /\ ComponentsForm' /\ component'[d] = r
        /\ \A e \in Components : e # d => component'[e] = component[e]
    <2>1. r.live => /\ r.name \in Names
                    /\ \A e \in Components : e # d /\ component[e].live => component[e].name # r.name
      BY <1>1, <1>3, <1>5
    <2> HIDE DEF r, c
    <2> QED
      BY <1>1, <1>3, <1>4, <2>1, RowReplaced DEF ComponentInv
  <1>7. \A copy \in Copies :
          /\ item'[copy] \in Items
          /\ item'[copy].held = item[copy].held /\ item'[copy].keys = item[copy].keys
          /\ item'[copy].tag = IF its(copy) THEN c.to ELSE item[copy].tag
    <2> TAKE copy \in Copies
    <2>1. item[copy] \in Items /\ c.to \in Tags
      BY <1>1 DEF ComponentInv, ItemsForm, Tags
    <2>2. its(copy) => item[copy].held
      BY DEF ItsItem
    <2>3. item'[copy] = IF its(copy) THEN [item[copy] EXCEPT !.tag = c.to] ELSE item[copy]
      BY <1>4
    <2> HIDE DEF its, c
    <2>4. CASE its(copy)
      <3>1. /\ item'[copy] \in Items /\ item'[copy].held
            /\ item'[copy].tag = c.to /\ item'[copy].keys = item[copy].keys
        BY <2>1, <2>2, <2>3, <2>4, ItemRetagged
      <3>2. item'[copy].held = TRUE /\ item[copy].held = TRUE
        BY <2>1, <2>2, <2>4, <3>1, ItemFields
      <3> QED
        BY <2>4, <3>1, <3>2
    <2>5. CASE ~its(copy)
      BY <2>1, <2>3, <2>5
    <2> QED
      BY <2>4, <2>5
  <1>8. /\ item' \in [Copies -> Items]
        /\ torn' = torn \cup (IF c.crossed THEN Copies \cup {"list"} ELSE {})
    BY <1>4, <1>7 DEF Tear
  <1>9. /\ field'.kind = field.kind
        /\ field'.uses = IF hit THEN (field.uses \ {c.name}) \cup {c.to} ELSE field.uses
        /\ field' \in Fields
    BY <1>1, <1>4 DEF ComponentInv, FieldForm, Fields, Zone
  <1>10. FieldForm'
    BY <1>1, <1>9 DEF ComponentInv, FieldForm, UsesForm
  <1>11. ItemsForm'
    BY <1>7, <1>8, <1>9 DEF ComponentInv, ItemsForm
  <1>12. CASE c.crossed
    <2>1. CopiesFit' /\ UsesFit'
      BY <1>8, <1>12 DEF CopiesFit, UsesFit
    <2> QED
      BY <1>4, <1>6, <1>9, <1>10, <1>11, <2>1, CommitOvertakes, WriteKeeps
        DEF ComponentInv, CallsForm, DraftsForm
  <1>13. CASE ~c.crossed
    <2>1. /\ component[d].name = c.name /\ c.ref = RefOf(component, field, d)
          /\ torn' = torn /\ component[d].live
      BY <1>1, <1>8, <1>13 DEF ComponentInv, CallsKnow, KnowsType
    <2>2. /\ hit => c.ref = "zone"
          /\ c.ref = "zone" => hit
      BY <2>1 DEF RefOf
    <2>3. CopiesFit'
      <3> SUFFICES ASSUME NEW copy \in Copies, copy \notin torn, item'[copy].held
                   PROVE  \E e \in Components : FitsBy(component', field', item'[copy], e)
        BY <2>1 DEF CopiesFit, Fits
      <3>1. PICK e \in Components :
              /\ FitsBy(component, field, item[copy], e)
              /\ e = d <=> ItsItem(item[copy], c.ref, c.name)
        BY <1>1, <1>7, <1>13, OwnerOf
      <3>2. /\ component'[e].live = component[e].live
            /\ component'[e].fields = component[e].fields
            /\ component'[e].name = IF e = d THEN c.to ELSE component[e].name
        BY <1>3, <1>6
      <3>3. component[e].live /\ e # d => component[e].name # c.name
        BY <1>1, <2>1 DEF ComponentInv, ComponentsForm
      <3>4. /\ its(copy) <=> hit /\ e = d
            /\ item'[copy].keys = item[copy].keys
            /\ item'[copy].tag = IF its(copy) THEN c.to ELSE item[copy].tag
        BY <1>7, <2>2, <3>1
      <3> HIDE DEF c, d, r, its
      <3>5. FitsBy(component', field', item'[copy], e)
        <4>1. CASE hit
          BY <1>9, <2>1, <3>1, <3>2, <3>3, <3>4, <4>1 DEF FitsBy
        <4>2. CASE ~hit
          BY <1>9, <2>1, <3>1, <3>2, <3>3, <3>4, <4>2 DEF FitsBy
        <4> QED
          BY <4>1, <4>2
      <3> QED
        BY <3>5
    <2>4. UsesFit'
      <3> SUFFICES ASSUME "list" \notin torn
                   PROVE  Resolved(component', field'.kind, field'.uses)
        BY <2>1 DEF UsesFit
      <3>1. Resolved(component, field.kind, field.uses)
        BY DEF ComponentInv, UsesFit
      <3>2. \A e \in Components :
              /\ component'[e].live = component[e].live
              /\ component'[e].name = IF e = d THEN c.to ELSE component[e].name
        BY <1>3, <1>6
      <3>3. field.kind = "embed" => field.uses \subseteq Components
        BY DEF ComponentInv, FieldForm, UsesForm
      <3> HIDE DEF c, d, r, its
      <3>4. ASSUME field.kind = "zone", NEW n \in field'.uses
            PROVE  NamedIn(component', n)
        <4>1. CASE n = c.to /\ hit
          BY <1>1, <2>1, <3>2, <4>1 DEF NamedIn
        <4>2. CASE n \in field.uses /\ n # c.name
          <5>1. PICK e \in Components : component[e].live /\ component[e].name = n
            BY <3>1, <3>4, <4>2 DEF NamedIn, Resolved
          <5>2. component'[e].live /\ component'[e].name = n
            BY <2>1, <3>2, <4>2, <5>1
          <5> QED
            BY <5>2 DEF NamedIn
        <4> QED
          BY <1>9, <3>4, <4>1, <4>2
      <3>5. field.kind = "embed" => \A e \in field'.uses : component'[e].live
        BY <1>9, <3>1, <3>2, <3>3 DEF Resolved
      <3> QED
        BY <1>9, <3>4, <3>5 DEF Resolved
    <2> QED
      BY <1>4, <1>6, <1>9, <1>10, <1>11, <2>3, <2>4, CommitOvertakes, WriteKeeps
        DEF ComponentInv, CallsForm, DraftsForm
  <1> QED
    BY <1>12, <1>13

LEMMA ComponentDeleted ==
  ASSUME ComponentInv, NEW a \in Admins, work[a].stage = "asked",
         Referrer(work[a].id) # "embed",
         component' = [component EXCEPT ![work[a].id] = [Unused EXCEPT !.name = "gone"]],
         UNCHANGED <<field, item>>, Committed(a), Tear(a, Copies \cup {"list"})
  PROVE  ComponentInv'
  <1> DEFINE d == work[a].id
             r == [Unused EXCEPT !.name = "gone"]
  <1>1. /\ d \in Components
        /\ ~work[a].crossed => UsedByNoZone(d)
    BY DEF ComponentInv, CallsForm, AskForm, OnComponent, DeletionsKnow, KnowsZones
  <1>2. r \in ComponentRows /\ ~r.live
    BY DEF ComponentRows, Unused, SubFields
  <1>3. /\ component' = [component EXCEPT ![d] = r] /\ item' = item /\ field' = field
        /\ torn' = torn \cup (IF work[a].crossed THEN Copies \cup {"list"} ELSE {})
    BY DEF Tear
  <1>4. /\ ComponentsForm'
        /\ \A e \in Components : e # d => component'[e] = component[e]
    BY <1>1, <1>2, <1>3, RowReplaced DEF ComponentInv
  <1>5. /\ ~work[a].crossed /\ field.kind = "zone" => component[d].name \notin field.uses
        /\ field.kind = "embed" => d \notin field.uses /\ field.uses \subseteq Components
    BY <1>1 DEF UsedByNoZone, Referrer, ComponentInv, FieldForm, UsesForm
  <1> HIDE DEF d, r
  <1>6. CopiesFit'
    <2>1. CASE work[a].crossed
      BY <1>3, <2>1 DEF CopiesFit
    <2>2. CASE ~work[a].crossed
      <3>1. ASSUME NEW i, NEW e \in Components, FitsBy(component, field, i, e)
            PROVE  FitsBy(component', field, i, e)
        BY <1>4, <1>5, <2>2, <3>1 DEF FitsBy
      <3>2. torn' = torn
        BY <1>3, <2>2
      <3>3. ASSUME NEW i, Fits(component, field, i) PROVE Fits(component', field, i)
        BY <3>1, <3>3 DEF Fits
      <3> QED
        BY <1>3, <3>2, <3>3 DEF ComponentInv, CopiesFit
    <2> QED
      BY <2>1, <2>2
  <1>7. UsesFit'
    BY <1>3, <1>4, <1>5 DEF ComponentInv, UsesFit, Resolved, NamedIn
  <1>8. FieldForm' /\ ItemsForm'
    BY <1>3 DEF ComponentInv, FieldForm, ItemsForm
  <1> QED
    BY <1>3, <1>4, <1>6, <1>7, <1>8, CommitOvertakes, WriteKeeps
      DEF ComponentInv, CallsForm, DraftsForm

LEMMA FieldInserted ==
  ASSUME ComponentInv, NEW a \in Admins, InsertField(a), field.kind = NoField,
         work[a].to = "embed" => \A u \in work[a].uses : component[u].live
  PROVE  ComponentInv'
  <1> DEFINE c == work[a]
  <1>1. /\ c.op = "add" /\ c.to \in FieldKinds /\ UsesForm(c.to, c.uses)
        /\ c.stage = "checked" /\ c \in Calls
    BY DEF InsertField, Writing, ComponentInv, CallsForm, AskForm
  <1>2. /\ field' = [kind |-> c.to, uses |-> c.uses] /\ item' = item
        /\ component' = component /\ Committed(a) /\ Tear(a, {"list"})
    BY DEF InsertField, Live
  <1>3. field'.kind = c.to /\ field'.uses = c.uses /\ field'.kind # NoField
    BY <1>1, <1>2, ComponentAssumption DEF FieldKinds
  <1>4. FieldForm'
    <2>1. c.uses \in SUBSET (Names \cup Components)
      BY <1>1 DEF Calls
    <2> QED
      BY <1>1, <1>2, <1>3, <2>1 DEF FieldForm, Fields, FieldKinds
  <1>5. torn' = torn \cup (IF c.crossed THEN {"list"} ELSE {})
    BY <1>2 DEF Tear
  <1>6. ComponentsForm' /\ ItemsForm'
    BY <1>2, <1>3, <1>5 DEF ComponentInv, ComponentsForm, ItemsForm
  <1>7. CopiesFit'
    BY <1>2 DEF ComponentInv, ItemsForm, CopiesFit, Fits
  <1>8. UsesFit'
    BY <1>1, <1>2, <1>3, <1>5
      DEF UsesFit, ComponentInv, CallsKnow, KnowsType, Resolved, FieldKinds
  <1> QED
    BY <1>2, <1>4, <1>6, <1>7, <1>8, CommitOvertakes, WriteKeeps
      DEF ComponentInv, CallsForm, DraftsForm

LEMMA ZoneUpdated ==
  ASSUME ComponentInv, NEW a \in Admins, UpdateFieldDefinition(a)
  PROVE  ComponentInv'
  <1> DEFINE c == work[a]
  <1>1. /\ c.op = "update_zone" /\ field.kind = "zone" /\ c.uses \subseteq Names
        /\ c.stage = "checked"
    BY DEF UpdateFieldDefinition, Writing, ComponentInv, CallsForm, AskForm
  <1>2. /\ field' = Zone(c.uses) /\ item' = item
        /\ component' = component /\ Committed(a) /\ Tear(a, Copies \cup {"list"})
    BY DEF UpdateFieldDefinition
  <1>3. field'.kind = "zone" /\ field'.uses = c.uses
    BY <1>2 DEF Zone
  <1>4. FieldForm'
    BY <1>1, <1>2, <1>3 DEF FieldForm, Fields, Zone, UsesForm
  <1>5. torn' = torn \cup (IF c.crossed THEN Copies \cup {"list"} ELSE {})
    BY <1>2 DEF Tear
  <1>6. ComponentsForm' /\ ItemsForm'
    BY <1>1, <1>2, <1>3, <1>5 DEF ComponentInv, ComponentsForm, ItemsForm
  <1>7. CopiesFit'
    <2>1. CASE c.crossed
      BY <1>5, <2>1 DEF CopiesFit
    <2>2. CASE ~c.crossed
      <3> SUFFICES ASSUME NEW copy \in Copies, copy \notin torn, item[copy].held
                   PROVE  \E e \in Components : FitsBy(component, field', item[copy], e)
        BY <1>2, <1>5, <2>2 DEF CopiesFit, Fits
      <3>1. PICK e \in Components : FitsBy(component, field, item[copy], e)
        BY DEF ComponentInv, CopiesFit, Fits
      <3>2. ~(item[copy].tag \in field.uses /\ item[copy].tag \notin c.uses)
        BY <1>1, <2>2 DEF ComponentInv, CallsKnow, KnowsItem
      <3> QED
        BY <1>1, <1>3, <3>1, <3>2 DEF FitsBy
    <2> QED
      BY <2>1, <2>2
  <1>8. UsesFit'
    BY <1>1, <1>2, <1>3, <1>5 DEF UsesFit, ComponentInv, CallsKnow, KnowsType, Resolved
  <1> QED
    BY <1>1, <1>2, <1>3, <1>4, <1>6, <1>7, <1>8, CommitOvertakes, WriteKeeps
      DEF ComponentInv, CallsForm, DraftsForm

LEMMA ComponentCreated ==
  ASSUME ComponentInv, NEW c \in Components, NEW n \in Names, NEW fields \in Shapes,
         CreateComponent(c, n, fields)
  PROVE  ComponentInv'
  <1> DEFINE r == [live |-> TRUE, name |-> n, fields |-> fields]
  <1>1. /\ r \in ComponentRows
        /\ r.live /\ r.name \in Names
        /\ \A e \in Components : component[e].live => component[e].name # r.name
    BY ComponentAssumption DEF ComponentRows, SubFields, CreateComponent, There, Named, Live
  <1>2. /\ component' = [component EXCEPT ![c] = r] /\ ~component[c].live
        /\ field' = field /\ item' = item /\ torn' = torn
    <2>1. ~Unused.live
      BY DEF Unused
    <2> QED
      BY <2>1, Zenon DEF CreateComponent
  <1> HIDE DEF r
  <1>3. ComponentsForm' /\ \A e \in Components : e # c => component'[e] = component[e]
    BY <1>1, <1>2, RowReplaced DEF ComponentInv
  <1>4. CopiesFit'
    <2>1. ASSUME NEW i, NEW e \in Components, FitsBy(component, field, i, e)
          PROVE  FitsBy(component', field, i, e)
      BY <1>2, <1>3, <2>1 DEF FitsBy
    <2> QED
      BY <1>2, <2>1 DEF ComponentInv, CopiesFit, Fits
  <1>5. UsesFit'
    <2>1. field.kind = "embed" => field.uses \subseteq Components
      BY DEF ComponentInv, FieldForm, UsesForm
    <2> QED
      BY <1>2, <1>3, <2>1 DEF ComponentInv, UsesFit, Resolved, NamedIn
  <1>6. FieldForm' /\ ItemsForm'
    BY <1>2 DEF ComponentInv, FieldForm, ItemsForm
  <1> QED
    BY <1>2, <1>3, <1>4, <1>5, <1>6, CreateOvertakes, WriteKeeps
      DEF ComponentInv, CallsForm, DraftsForm

-----------------------------------------------------------------------------
(* What a call reads and asks. *)

LEMMA CallSet ==
  ASSUME ComponentInv, NEW a \in Admins, NEW d \in Calls,
         work' = [work EXCEPT ![a] = d],
         UNCHANGED <<component, field, item, draft, torn>>,
         d.stage # "idle" => AskForm(field.kind, d),
         d.stage \in {"read", "checked"} /\ ~d.crossed =>
           /\ KnowsType(component, field, d)
           /\ d.stage = "checked" =>
                \A copy \in Copies \ torn : KnowsItem(field, d, item[copy]),
         d.stage = "asked" => KnowsZones(d)
  PROVE  ComponentInv'
  <1>1. /\ work' \in [Admins -> Calls] /\ work'[a] = d
        /\ \A b \in Admins : b # a => work'[b] = work[b]
    BY DEF ComponentInv, CallsForm
  <1>2. CallsForm'
    BY <1>1 DEF ComponentInv, CallsForm
  <1>3. CallsKnow'
    BY <1>1 DEF ComponentInv, CallsKnow
  <1>4. ComponentsForm' /\ FieldForm' /\ ItemsForm' /\ DraftsForm'
    BY DEF ComponentInv, ComponentsForm, FieldForm, ItemsForm, DraftsForm
  <1>5. DraftsFit' /\ CopiesFit' /\ UsesFit'
    BY DEF ComponentInv, DraftsFit, CopiesFit, UsesFit
  <1>6. DeletionsKnow'
    BY <1>1 DEF ComponentInv, DeletionsKnow, KnowsZones, UsedByNoZone
  <1> QED
    BY <1>2, <1>3, <1>4, <1>5, <1>6 DEF ComponentInv

LEMMA CallRefused ==
  ASSUME ComponentInv, NEW a \in Admins, Refuse(a)
  PROVE  ComponentInv'
  <1>1. work' = [work EXCEPT ![a] = NoCall]
    BY DEF Refuse
  <1> QED
    BY <1>1, NoCallForm, CallSet DEF Refuse

(* A call about a component that is there.                                 *)
LEMMA ComponentLoaded ==
  ASSUME ComponentInv, NEW a \in Admins, NEW c \in Components, NEW d \in Calls,
         component[c].live,
         d.stage = "read", ~d.crossed, d.id = c, d.name = component[c].name,
         d.op \in OnComponent, AskForm(field.kind, d),
         d.op = "rename_field" => component[c].fields[d.to] = "none",
         work' = [work EXCEPT ![a] = d],
         UNCHANGED <<component, field, item, draft, torn>>
  PROVE  ComponentInv'
  <1>1. KnowsType(component, field, d)
    BY DEF KnowsType, OnComponent
  <1> QED
    BY <1>1, CallSet

LEMMA NoCallFields ==
  /\ NoCall \in Calls /\ ~NoCall.crossed /\ ~NoCall.force /\ NoCall.id = NoComponent
  BY DEF NoCall, Calls, Ops

AsksTheSame(d, call) ==
  /\ d.op = call.op /\ d.key = call.key /\ d.to = call.to /\ d.force = call.force

LEMMA LoadEffect ==
  ASSUME ComponentInv, NEW a \in Admins, NEW c \in Components, NEW call \in Calls,
         LoadComponent(a, c, call), ~call.crossed, call.op \in OnComponent,
         \A d \in Calls : AsksTheSame(d, call) /\ d.id = c => AskForm(field.kind, d),
         call.op = "rename_field" => component[c].fields[call.to] = "none"
  PROVE  ComponentInv'
  <1> DEFINE d == [[call EXCEPT !.id = c, !.name = component[c].name] EXCEPT !.stage = "read"]
  <1>1. /\ component[c].live /\ work' = [work EXCEPT ![a] = d]
        /\ UNCHANGED <<component, field, item, draft, torn>>
    BY DEF LoadComponent, Load, Live
  <1>2. component[c].name \in Names
    BY <1>1 DEF ComponentInv, ComponentsForm
  <1>3. d = [[call EXCEPT !.id = c, !.name = component[c].name] EXCEPT !.stage = "read"]
    OBVIOUS
  <1> HIDE DEF d
  <1>4. /\ d \in Calls
        /\ d.stage = "read" /\ d.id = c /\ d.name = component[c].name
        /\ d.op = call.op /\ d.key = call.key /\ d.to = call.to
        /\ d.force = call.force /\ d.crossed = call.crossed
    BY <1>2, <1>3 DEF Calls
  <1>5. AskForm(field.kind, d)
    BY <1>4 DEF AsksTheSame
  <1> QED
    BY <1>1, <1>4, <1>5, ComponentLoaded

LEMMA LoadsRenameComponent ==
  ASSUME ComponentInv, NEW a \in Admins, NEW c \in Components, NEW n \in Names,
         RenameComponent(a, c, n)
  PROVE  ComponentInv'
  <1> DEFINE call == [NoCall EXCEPT !.op = "rename", !.to = n]
  <1>1. /\ call \in Calls /\ ~call.crossed
        /\ call.op = "rename" /\ call.to = n /\ ~call.force
    BY NoCallFields DEF Calls, Ops
  <1>2. LoadComponent(a, c, call)
    BY DEF RenameComponent
  <1>3. call.op = "rename_field" => component[c].fields[call.to] = "none"
    BY <1>1 DEF RenameComponent
  <1> HIDE DEF call
  <1>4. call.op \in OnComponent
    BY <1>1 DEF OnComponent
  <1>5. \A d \in Calls : AsksTheSame(d, call) /\ d.id = c => AskForm(field.kind, d)
    BY <1>1 DEF AsksTheSame, AskForm, OnComponent
  <1> QED
    BY <1>1, <1>2, <1>3, <1>4, <1>5, LoadEffect

LEMMA LoadsDeleteComponent ==
  ASSUME ComponentInv, NEW a \in Admins, NEW c \in Components,
         DeleteComponent(a, c)
  PROVE  ComponentInv'
  <1> DEFINE call == [NoCall EXCEPT !.op = "delete"]
  <1>1. /\ call \in Calls /\ ~call.crossed
        /\ call.op = "delete" /\ ~call.force
    BY NoCallFields DEF Calls, Ops
  <1>2. LoadComponent(a, c, call)
    BY DEF DeleteComponent
  <1>3. call.op = "rename_field" => component[c].fields[call.to] = "none"
    BY <1>1 DEF DeleteComponent
  <1> HIDE DEF call
  <1>4. call.op \in OnComponent
    BY <1>1 DEF OnComponent
  <1>5. \A d \in Calls : AsksTheSame(d, call) /\ d.id = c => AskForm(field.kind, d)
    BY <1>1 DEF AsksTheSame, AskForm, OnComponent
  <1> QED
    BY <1>1, <1>2, <1>3, <1>4, <1>5, LoadEffect

LEMMA LoadsAddComponentField ==
  ASSUME ComponentInv, NEW a \in Admins, NEW c \in Components, NEW k \in SubKeys, NEW kind \in {"optional", "required"},
         AddComponentField(a, c, k, kind)
  PROVE  ComponentInv'
  <1> DEFINE call == [NoCall EXCEPT !.op = "add_field", !.key = k, !.to = kind]
  <1>1. /\ call \in Calls /\ ~call.crossed
        /\ call.op = "add_field" /\ call.key = k /\ call.to = kind /\ ~call.force
    BY ZenonT(40), NoCallFields DEF Calls, Ops
  <1>2. LoadComponent(a, c, call)
    BY DEF AddComponentField
  <1>3. call.op = "rename_field" => component[c].fields[call.to] = "none"
    BY <1>1 DEF AddComponentField
  <1> HIDE DEF call
  <1>4. call.op \in OnComponent
    BY <1>1 DEF OnComponent
  <1>5. \A d \in Calls : AsksTheSame(d, call) /\ d.id = c => AskForm(field.kind, d)
    BY <1>1 DEF AsksTheSame, AskForm, OnComponent
  <1> QED
    BY <1>1, <1>2, <1>3, <1>4, <1>5, LoadEffect

LEMMA LoadsUpdateComponentField ==
  ASSUME ComponentInv, NEW a \in Admins, NEW c \in Components, NEW k \in SubKeys, NEW kind \in {"optional", "required"},
         UpdateComponentField(a, c, k, kind)
  PROVE  ComponentInv'
  <1> DEFINE call == [NoCall EXCEPT !.op = "update_field", !.key = k, !.to = kind]
  <1>1. /\ call \in Calls /\ ~call.crossed
        /\ call.op = "update_field" /\ call.key = k /\ call.to = kind /\ ~call.force
    BY ZenonT(40), NoCallFields DEF Calls, Ops
  <1>2. LoadComponent(a, c, call)
    BY DEF UpdateComponentField
  <1>3. call.op = "rename_field" => component[c].fields[call.to] = "none"
    BY <1>1 DEF UpdateComponentField
  <1> HIDE DEF call
  <1>4. call.op \in OnComponent
    BY <1>1 DEF OnComponent
  <1>5. \A d \in Calls : AsksTheSame(d, call) /\ d.id = c => AskForm(field.kind, d)
    BY <1>1 DEF AsksTheSame, AskForm, OnComponent
  <1> QED
    BY <1>1, <1>2, <1>3, <1>4, <1>5, LoadEffect

LEMMA LoadsRenameComponentField ==
  ASSUME ComponentInv, NEW a \in Admins, NEW c \in Components, NEW k \in SubKeys, NEW to \in SubKeys,
         RenameComponentField(a, c, k, to)
  PROVE  ComponentInv'
  <1> DEFINE call == [NoCall EXCEPT !.op = "rename_field", !.key = k, !.to = to]
  <1>1. /\ call \in Calls /\ ~call.crossed
        /\ call.op = "rename_field" /\ call.key = k /\ call.to = to /\ ~call.force
    BY ZenonT(40), NoCallFields DEF Calls, Ops
  <1>2. LoadComponent(a, c, call)
    BY DEF RenameComponentField
  <1>3. call.op = "rename_field" => component[c].fields[call.to] = "none"
    BY <1>1 DEF RenameComponentField
  <1> HIDE DEF call
  <1>4. call.op \in OnComponent
    BY <1>1 DEF OnComponent
  <1>5. \A d \in Calls : AsksTheSame(d, call) /\ d.id = c => AskForm(field.kind, d)
    BY <1>1 DEF AsksTheSame, AskForm, OnComponent
  <1> QED
    BY <1>1, <1>2, <1>3, <1>4, <1>5, LoadEffect

LEMMA LoadsDeleteComponentField ==
  ASSUME ComponentInv, NEW a \in Admins, NEW c \in Components, NEW k \in SubKeys, NEW force \in BOOLEAN,
         DeleteComponentField(a, c, k, force)
  PROVE  ComponentInv'
  <1> DEFINE call == [NoCall EXCEPT !.op = "delete_field", !.key = k, !.force = force]
  <1>1. /\ call \in Calls /\ ~call.crossed
        /\ call.op = "delete_field" /\ call.key = k /\ call.force = force
    BY NoCallFields DEF Calls, Ops
  <1>2. LoadComponent(a, c, call)
    BY DEF DeleteComponentField
  <1>3. call.op = "rename_field" => component[c].fields[call.to] = "none"
    BY <1>1 DEF DeleteComponentField
  <1> HIDE DEF call
  <1>4. call.op \in OnComponent
    BY <1>1 DEF OnComponent
  <1>5. \A d \in Calls : AsksTheSame(d, call) /\ d.id = c => AskForm(field.kind, d)
    BY <1>1 DEF AsksTheSame, AskForm, OnComponent
  <1> QED
    BY <1>1, <1>2, <1>3, <1>4, <1>5, LoadEffect

LEMMA AddFieldLoads ==
  ASSUME ComponentInv, NEW a \in Admins, NEW kind \in FieldKinds,
         NEW uses \in SUBSET (Names \cup Components), UsesForm(kind, uses),
         NEW f, f.kind = kind, f.uses = uses, AddField(a, f)
  PROVE  ComponentInv'
  <1> DEFINE d == [[NoCall EXCEPT !.op = "add", !.to = kind, !.uses = uses]
                     EXCEPT !.stage = "read"]
  <1>1. /\ d \in Calls /\ d.stage = "read" /\ ~d.crossed /\ ~d.force
        /\ d.op = "add" /\ d.to = kind /\ d.uses = uses /\ d.id = NoComponent
    BY ZenonT(40), NoCallFields DEF Calls, Ops, FieldKinds
  <1>2. /\ work' = [work EXCEPT ![a] = d]
        /\ UNCHANGED <<component, field, item, draft, torn>>
    BY DEF AddField, Load
  <1>3. Resolved(component, kind, uses)
    BY DEF AddField, ResolveComponentRefs, Resolved, NamedIn, There, Named, Live
  <1> HIDE DEF d
  <1>4. AskForm(field.kind, d)
    BY <1>1, ComponentAssumption DEF AskForm, OnComponent
  <1>5. KnowsType(component, field, d)
    BY <1>1, <1>3 DEF KnowsType, OnComponent
  <1> QED
    BY <1>1, <1>2, <1>4, <1>5, CallSet

LEMMA UpdateZoneLoads ==
  ASSUME ComponentInv, NEW a \in Admins, NEW ns \in SUBSET Names, UpdateZone(a, ns)
  PROVE  ComponentInv'
  <1> DEFINE d == [[NoCall EXCEPT !.op = "update_zone", !.uses = ns] EXCEPT !.stage = "read"]
  <1>1. /\ d \in Calls /\ d.stage = "read" /\ ~d.crossed /\ ~d.force
        /\ d.op = "update_zone" /\ d.uses = ns /\ d.id = NoComponent
    BY NoCallFields DEF Calls, Ops
  <1>2. /\ work' = [work EXCEPT ![a] = d] /\ field.kind = "zone"
        /\ UNCHANGED <<component, field, item, draft, torn>>
    BY DEF UpdateZone, Load
  <1>3. Resolved(component, "zone", ns)
    BY DEF UpdateZone, ResolveComponentRefs, Resolved, NamedIn, There, Named, Live, Zone
  <1> HIDE DEF d
  <1>4. AskForm(field.kind, d)
    BY <1>1, <1>2, ComponentAssumption DEF AskForm, OnComponent
  <1>5. KnowsType(component, field, d)
    BY <1>1, <1>3 DEF KnowsType, OnComponent
  <1> QED
    BY <1>1, <1>2, <1>4, <1>5, CallSet

(* What the entries have answered is what the call now knows of them.      *)
LEMMA Asked ==
  ASSUME NEW c \in Calls, NEW ref \in {"none", "zone", "embed"}, ~Refuses(c, ref),
         item \in [Copies -> Items], NEW copy \in Copies,
         NEW d \in Calls, d.op = c.op, d.to = c.to, d.key = c.key, d.name = c.name,
         d.force = c.force, d.uses = c.uses, d.ref = ref
  PROVE  KnowsItem(field, d, item[copy])
  <1>1. CASE c.op \in {"add_field", "update_field"} /\ c.to = "required"
    BY <1>1 DEF Refuses, CountComponentEntries, ItemLacks, KnowsItem
  <1>2. CASE c.op = "delete_field" /\ ~c.force
    BY <1>2 DEF Refuses, CountComponentEntries, ItemLacks, KnowsItem
  <1>3. CASE c.op = "update_zone"
    BY <1>3 DEF Refuses, CountEntriesWithZoneComponent, KnowsItem
  <1> QED
    BY <1>1, <1>2, <1>3 DEF KnowsItem

LEMMA CheckKeeps ==
  ASSUME ComponentInv, NEW a \in Admins, Check(a)
  PROVE  ComponentInv'
  <1> DEFINE c == work[a]
             ref == IF c.id = NoComponent THEN "none" ELSE Referrer(c.id)
             d == [c EXCEPT !.stage = "checked", !.ref = ref]
  <1>1. CASE Refuses(c, ref)
    BY <1>1, CallRefused DEF Check
  <1>2. CASE ~Refuses(c, ref)
    <2>1. /\ c \in Calls /\ c.stage = "read" /\ AskForm(field.kind, c)
          /\ ref \in {"none", "zone", "embed"}
          /\ work \in [Admins -> Calls] /\ item \in [Copies -> Items]
      BY DEF Check, ComponentInv, CallsForm, ItemsForm, Referrer
    <2>2. /\ d \in Calls /\ d.stage = "checked" /\ d.ref = ref
          /\ d.op = c.op /\ d.id = c.id /\ d.name = c.name /\ d.key = c.key /\ d.to = c.to
          /\ d.uses = c.uses /\ d.force = c.force /\ d.crossed = c.crossed
      BY <2>1 DEF Calls
    <2>3. /\ work' = [work EXCEPT ![a] = d]
          /\ UNCHANGED <<component, field, item, draft, torn>>
      BY <1>2, <2>1 DEF Check
    <2>4. ref = IF c.op \in OnComponent THEN RefOf(component, field, c.id) ELSE "none"
      BY <2>1, ComponentAssumption DEF AskForm, Referrer, RefOf, Live, Calls
    <2>5. ~c.crossed => KnowsType(component, field, c)
      BY <2>1 DEF ComponentInv, CallsKnow
    <2> HIDE DEF c, ref, d
    <2>6. AskForm(field.kind, d)
      BY <2>1, <2>2 DEF AskForm
    <2>7. ~d.crossed => KnowsType(component, field, d)
      BY <2>2, <2>4, <2>5 DEF KnowsType
    <2>8. \A copy \in Copies : KnowsItem(field, d, item[copy])
      BY <1>2, <2>1, <2>2, Asked
    <2> QED
      BY <2>2, <2>3, <2>6, <2>7, <2>8, CallSet
  <1> QED
    BY <1>1, <1>2

LEMMA WriteStep ==
  ASSUME ComponentInv, NEW a \in Admins, Write(a)
  PROVE  ComponentInv'
  <1>1. ASSUME Refuse(a) PROVE ComponentInv'
    BY <1>1, CallRefused
  <1>2. CASE InsertComponentField(a)
    BY <1>1, <1>2, SubFieldSet DEF InsertComponentField, Writing
  <1>3. CASE UpdateComponentFieldDefinition(a)
    BY <1>1, <1>3, SubFieldSet DEF UpdateComponentFieldDefinition, Writing
  <1>4. CASE RenameComponentFieldRow(a)
    <2>1. \/ Refuse(a)
          \/ /\ component[work[a].id].live
             /\ component[work[a].id].fields[work[a].key] # "none"
             /\ component[work[a].id].fields[work[a].to] = "none"
      BY <1>4 DEF RenameComponentFieldRow, Live
    <2> QED
      BY <1>1, <1>4, <2>1, SubFieldRenamed
  <1>5. CASE DeleteComponentFieldRow(a)
    <2>1. \/ Refuse(a)
          \/ /\ component[work[a].id].live
             /\ component[work[a].id].fields[work[a].key] # "none"
      BY <1>5 DEF DeleteComponentFieldRow, Live
    <2> QED
      BY <1>1, <1>5, <2>1, SubFieldDeleted
  <1>6. CASE RenameComponentRow(a)
    <2>1. \/ Refuse(a)
          \/ component[work[a].id].live /\ NameFree(work[a].id, work[a].to)
      BY <1>6 DEF RenameComponentRow, Live
    <2> QED
      BY <1>1, <1>6, <2>1, ComponentRenamed
  <1>7. CASE AskZonesAgain(a)
    <2> DEFINE d == [work[a] EXCEPT !.stage = "asked", !.crossed = FALSE]
    <2>1. CASE Refuse(a)
      BY <1>1, <2>1
    <2>2. CASE ~Refuse(a)
      <3>1. /\ work[a].stage = "checked" /\ work[a].op = "delete" /\ UsedByNoZone(work[a].id)
            /\ work' = [work EXCEPT ![a] = d]
            /\ UNCHANGED <<component, field, item, draft, torn>>
        BY <1>7, <2>2 DEF AskZonesAgain, Writing
      <3>2. work[a] \in Calls /\ AskForm(field.kind, work[a])
        BY <3>1 DEF ComponentInv, CallsForm
      <3>3. /\ d \in Calls /\ d.stage = "asked" /\ d.op = work[a].op /\ d.id = work[a].id
            /\ d.to = work[a].to /\ d.key = work[a].key /\ d.uses = work[a].uses
            /\ d.force = work[a].force
        BY <3>2 DEF Calls
      <3> HIDE DEF d
      <3>4. AskForm(field.kind, d) /\ KnowsZones(d)
        BY <3>1, <3>2, <3>3 DEF AskForm, KnowsZones
      <3> QED
        BY <3>1, <3>3, <3>4, CallSet
    <2> QED
      BY <2>1, <2>2
  <1>10. CASE DeleteComponentRow(a)
    BY <1>1, <1>10, ComponentDeleted DEF DeleteComponentRow
  <1>8. CASE InsertField(a)
    <2>1. \/ Refuse(a)
          \/ /\ field.kind = NoField
             /\ work[a].to = "embed" => \A u \in work[a].uses : component[u].live
      BY <1>8 DEF InsertField, Live
    <2> QED
      BY <1>1, <1>8, <2>1, FieldInserted
  <1>9. CASE UpdateFieldDefinition(a)
    BY <1>9, ZoneUpdated
  <1> QED
    BY <1>2, <1>3, <1>4, <1>5, <1>6, <1>7, <1>8, <1>9, <1>10 DEF Write

LEMMA CallStep ==
  ASSUME ComponentInv, NEW a \in Admins, ComponentCall(a)
  PROVE  ComponentInv'
  <1>1. ASSUME NEW c \in Components, NEW n \in Names, RenameComponent(a, c, n)
        PROVE  ComponentInv'
    BY <1>1, LoadsRenameComponent
  <1>2. ASSUME NEW c \in Components, DeleteComponent(a, c) PROVE ComponentInv'
    BY <1>2, LoadsDeleteComponent
  <1>3. ASSUME NEW c \in Components, NEW k \in SubKeys, NEW kind \in {"optional", "required"},
               AddComponentField(a, c, k, kind) \/ UpdateComponentField(a, c, k, kind)
        PROVE  ComponentInv'
    BY <1>3, LoadsAddComponentField, LoadsUpdateComponentField
  <1>4. ASSUME NEW c \in Components, NEW k \in SubKeys, NEW to \in SubKeys,
               RenameComponentField(a, c, k, to)
        PROVE  ComponentInv'
    BY <1>4, LoadsRenameComponentField
  <1>5. ASSUME NEW c \in Components, NEW k \in SubKeys, NEW force \in BOOLEAN,
               DeleteComponentField(a, c, k, force)
        PROVE  ComponentInv'
    BY <1>5, LoadsDeleteComponentField
  <1>6. ASSUME NEW c \in Components, AddField(a, Embed(c)) PROVE ComponentInv'
    <2>1. /\ Embed(c).kind = "embed" /\ Embed(c).uses = {c}
          /\ {c} \in SUBSET (Names \cup Components) /\ UsesForm("embed", {c})
          /\ "embed" \in FieldKinds
      BY DEF Embed, UsesForm, FieldKinds
    <2> QED
      BY <1>6, <2>1, AddFieldLoads
  <1>7. ASSUME NEW ns \in SUBSET Names, AddField(a, Zone(ns)) PROVE ComponentInv'
    <2>1. /\ Zone(ns).kind = "zone" /\ Zone(ns).uses = ns
          /\ ns \in SUBSET (Names \cup Components) /\ UsesForm("zone", ns)
          /\ "zone" \in FieldKinds
      BY DEF Zone, UsesForm, FieldKinds
    <2> QED
      BY <1>7, <2>1, AddFieldLoads
  <1>8. ASSUME NEW ns \in SUBSET Names, UpdateZone(a, ns) PROVE ComponentInv'
    BY <1>8, UpdateZoneLoads
  <1>9. ASSUME Check(a) PROVE ComponentInv'
    BY <1>9, CheckKeeps
  <1>10. ASSUME Write(a) PROVE ComponentInv'
    BY <1>10, WriteStep
  <1> QED
    BY <1>1, <1>2, <1>3, <1>4, <1>5, <1>6, <1>7, <1>8, <1>9, <1>10 DEF ComponentCall

-----------------------------------------------------------------------------
(* Writers of the entry. *)

LEMMA ValidFits ==
  ASSUME NEW i, Valid(i)
  PROVE  Fits(component, field, i)
  BY DEF Valid, Fits, FitsBy, Live, KeysOf, Required

LEMMA FitsValid ==
  ASSUME NEW i \in Items, Fits(component, field, i)
  PROVE  Valid(i)
  <1>1. i.keys \subseteq SubKeys /\ i.held \in BOOLEAN
    BY ItemFields
  <1> QED
    BY <1>1 DEF Valid, Fits, FitsBy, Live, KeysOf, Required

LEMMA DraftSet ==
  ASSUME ComponentInv, NEW w \in Writers, NEW d \in Drafts, OnlyDraft(w, d),
         d.stage # "idle" => field.kind # NoField,
         d.stage # "idle" /\ ~d.crossed => Fits(component, field, d.item)
  PROVE  ComponentInv'
  <1>1. /\ draft' \in [Writers -> Drafts] /\ draft'[w] = d
        /\ \A v \in Writers : v # w => draft'[v] = draft[v]
        /\ UNCHANGED <<component, field, item, work, torn>>
    BY DEF ComponentInv, DraftsForm, OnlyDraft
  <1>2. DraftsForm'
    BY <1>1 DEF ComponentInv, DraftsForm
  <1>3. DraftsFit'
    BY <1>1 DEF ComponentInv, DraftsFit
  <1>4. ComponentsForm' /\ FieldForm' /\ ItemsForm' /\ CallsForm'
    BY <1>1 DEF ComponentInv, ComponentsForm, FieldForm, ItemsForm, CallsForm
  <1>5. CallsKnow' /\ DeletionsKnow' /\ CopiesFit' /\ UsesFit'
    BY <1>1 DEF ComponentInv, CallsKnow, DeletionsKnow, KnowsZones, UsedByNoZone, CopiesFit, UsesFit
  <1> QED
    BY <1>2, <1>3, <1>4, <1>5 DEF ComponentInv

LEMMA OutdateEffect ==
  ASSUME NEW w \in Writers, draft \in [Writers -> Drafts], Outdate(w)
  PROVE  /\ draft' \in [Writers -> Drafts]
         /\ \A v \in Writers : draft'[v].stage # "idle" =>
              /\ draft[v].stage # "idle" /\ draft'[v].item = draft[v].item
              /\ draft'[v].crossed = draft[v].crossed
  <1> DEFINE y(v) == draft[v].stage # "based"
  <1>1. /\ draft' = [v \in Writers |-> IF v = w THEN NoDraft
                                       ELSE [draft[v] EXCEPT !.fresh = y(v)]]
        /\ \A v \in Writers : y(v) \in BOOLEAN
    BY DEF Outdate
  <1> HIDE DEF y
  <1>2. \A v \in Writers :
          /\ draft'[v] \in Drafts
          /\ draft'[v].stage # "idle" =>
               /\ draft[v].stage # "idle" /\ draft'[v].item = draft[v].item
               /\ draft'[v].crossed = draft[v].crossed
    <2> TAKE v \in Writers
    <2>1. draft[v] \in Drafts /\ y(v) \in BOOLEAN
      BY <1>1
    <2>2. CASE v = w
      BY <1>1, <2>2, NoDraftForm
    <2>3. CASE v # w
      <3>1. draft'[v] = [draft[v] EXCEPT !.fresh = y(v)]
        BY <1>1, <2>3
      <3> QED
        BY <2>1, <3>1 DEF Drafts
    <2> QED
      BY <2>2, <2>3
  <1>3. draft' \in [Writers -> Drafts]
    BY <1>1, <1>2
  <1> QED
    BY <1>2, <1>3

(* A copy that is written while calls are under way is vouched for by      *)
(* nobody; one that is not leaves nothing for a call to have known.        *)
LEMMA CopyWritten ==
  ASSUME ComponentInv, NEW w \in Writers, Outdate(w),
         UNCHANGED <<component, field, work>>,
         item' \in [Copies -> Items], torn' \subseteq Copies \cup {"list"},
         "list" \in torn => "list" \in torn',
         field.kind = NoField => \A copy \in Copies : ~item'[copy].held,
         \A copy \in Copies : copy \notin torn' =>
           \/ copy \notin torn /\ item'[copy] = item[copy]
           \/ ~item'[copy].held
           \/ /\ \A a \in Admins : work[a].stage = "idle"
              /\ Fits(component, field, item'[copy])
  PROVE  ComponentInv'
  <1>1. /\ draft' \in [Writers -> Drafts]
        /\ \A v \in Writers : draft'[v].stage # "idle" =>
             /\ draft[v].stage # "idle" /\ draft'[v].item = draft[v].item
             /\ draft'[v].crossed = draft[v].crossed
    BY OutdateEffect DEF ComponentInv, DraftsForm
  <1>2. DraftsForm' /\ DraftsFit'
    BY <1>1 DEF ComponentInv, DraftsForm, DraftsFit
  <1>3. ComponentsForm' /\ FieldForm' /\ ItemsForm' /\ CallsForm'
    BY DEF ComponentInv, ComponentsForm, FieldForm, ItemsForm, CallsForm
  <1>4. CopiesFit'
    <2> SUFFICES ASSUME NEW copy \in Copies, copy \notin torn'
                 PROVE  Fits(component, field, item'[copy])
      BY DEF CopiesFit
    <2>1. copy \notin torn => Fits(component, field, item[copy])
      BY DEF ComponentInv, CopiesFit
    <2>2. ~item'[copy].held => Fits(component, field, item'[copy])
      BY DEF Fits
    <2> QED
      BY <2>1, <2>2
  <1>5. CallsKnow'
    <2> SUFFICES ASSUME NEW a \in Admins, work[a].stage \in {"read", "checked"}, ~work[a].crossed
                 PROVE  /\ KnowsType(component, field, work[a])
                        /\ work[a].stage = "checked" =>
                             \A copy \in Copies \ torn' : KnowsItem(field, work[a], item'[copy])
      BY DEF CallsKnow
    <2>1. /\ KnowsType(component, field, work[a])
          /\ work[a].stage = "checked" =>
               \A copy \in Copies \ torn : KnowsItem(field, work[a], item[copy])
      BY DEF ComponentInv, CallsKnow
    <2>2. ASSUME NEW copy \in Copies, ~item'[copy].held
          PROVE  KnowsItem(field, work[a], item'[copy])
      BY <2>2 DEF KnowsItem, ItsItem
    <2> QED
      BY <2>1, <2>2
  <1>6. UsesFit' /\ DeletionsKnow'
    BY DEF ComponentInv, UsesFit, DeletionsKnow, KnowsZones, UsedByNoZone
  <1> QED
    BY <1>2, <1>3, <1>4, <1>5, <1>6 DEF ComponentInv

LEMMA WriterKeeps ==
  ASSUME ComponentInv, NEW w \in Writers, WriterStep(w)
  PROVE  ComponentInv'
  <1> USE DEF InFlight
  <1>0. /\ draft[w] \in Drafts /\ draft[w].item \in Items
        /\ item \in [Copies -> Items] /\ torn \subseteq Copies \cup {"list"}
        /\ "working" \in Copies /\ "live" \in Copies /\ "list" \notin Copies
        /\ Nothing \in Items /\ ~Nothing.held
        /\ draft[w].stage # "idle" => field.kind # NoField
        /\ field.kind = NoField => \A copy \in Copies : ~item[copy].held
    BY ItemForm DEF ComponentInv, DraftsForm, ItemsForm, Drafts, Copies, Nothing
  <1>1. ASSUME NEW i \in Items, ReadType(w, i) PROVE ComponentInv'
    <2> DEFINE d == [NoDraft EXCEPT !.stage = "valid", !.item = i]
    <2>1. d \in Drafts /\ d.item = i /\ d.stage = "valid"
      BY NoDraftForm DEF Drafts
    <2>2. OnlyDraft(w, d) /\ field.kind # NoField /\ Valid(i)
      BY <1>1 DEF ReadType
    <2> HIDE DEF d
    <2> QED
      BY <2>1, <2>2, ValidFits, DraftSet
  <1>2. ASSUME ReadEntry(w) PROVE ComponentInv'
    <2> DEFINE d == [draft[w] EXCEPT !.stage = "based"]
    <2>1. /\ d \in Drafts /\ d.item = draft[w].item /\ d.stage = "based"
          /\ d.crossed = draft[w].crossed
      BY <1>0 DEF Drafts
    <2>2. OnlyDraft(w, d) /\ draft[w].stage = "valid"
      BY <1>2 DEF ReadEntry
    <2>3. ~draft[w].crossed => Fits(component, field, draft[w].item)
      BY <2>2 DEF ComponentInv, DraftsFit
    <2> HIDE DEF d
    <2> QED
      BY <1>0, <2>1, <2>2, <2>3, DraftSet
  <1>3. ASSUME WriteEntry(w) PROVE ComponentInv'
    <2>1. CASE ~draft[w].fresh
      <3>1. OnlyDraft(w, NoDraft)
        BY <1>3, <2>1 DEF WriteEntry
      <3> QED
        BY <3>1, NoDraftForm, DraftSet
    <2>2. CASE draft[w].fresh
      <3>1. /\ draft[w].stage = "based"
            /\ item' = [item EXCEPT !["working"] = draft[w].item]
            /\ torn' = IF draft[w].crossed \/ \E a \in Admins : work[a].stage # "idle"
                       THEN torn \cup {"working"} ELSE torn \ {"working"}
            /\ Outdate(w) /\ UNCHANGED <<component, field, work>>
        BY <1>3, <2>2 DEF WriteEntry
      <3>2. ~draft[w].crossed => Fits(component, field, draft[w].item)
        BY <3>1 DEF ComponentInv, DraftsFit
      <3>3. /\ item' \in [Copies -> Items] /\ item'["working"] = draft[w].item
            /\ \A copy \in Copies : copy # "working" => item'[copy] = item[copy]
        BY <1>0, <3>1
      <3>4. /\ torn' \subseteq Copies \cup {"list"}
            /\ "list" \in torn => "list" \in torn'
            /\ field.kind # NoField
            /\ \A copy \in Copies : copy # "working" /\ copy \notin torn' => copy \notin torn
        BY <1>0, <3>1
      <3>5. \A copy \in Copies : copy \notin torn' =>
              \/ copy \notin torn /\ item'[copy] = item[copy]
              \/ ~item'[copy].held
              \/ /\ \A a \in Admins : work[a].stage = "idle"
                 /\ Fits(component, field, item'[copy])
        <4> SUFFICES ASSUME NEW copy \in Copies, copy \notin torn', copy = "working"
                     PROVE  /\ \A a \in Admins : work[a].stage = "idle"
                            /\ Fits(component, field, item'[copy])
          BY <3>3, <3>4
        <4> QED
          BY <3>1, <3>2, <3>3
      <3> QED
        BY <3>1, <3>3, <3>4, <3>5, CopyWritten
    <2> QED
      BY <2>1, <2>2
  <1>4. ASSUME Publish(w) PROVE ComponentInv'
    <2>1. /\ item' = [item EXCEPT !["live"] = item["working"]]
          /\ torn' = IF "working" \in torn \/ \E a \in Admins : work[a].stage # "idle"
                     THEN torn \cup {"live"} ELSE torn \ {"live"}
          /\ Outdate(w) /\ UNCHANGED <<component, field, work>>
      BY <1>4 DEF Publish
    <2>2. "working" \notin torn => Fits(component, field, item["working"])
      BY <1>0 DEF ComponentInv, CopiesFit
    <2>3. /\ item' \in [Copies -> Items] /\ item'["live"] = item["working"]
          /\ \A copy \in Copies : copy # "live" => item'[copy] = item[copy]
      BY <1>0, <2>1
    <2>4. /\ torn' \subseteq Copies \cup {"list"}
          /\ "list" \in torn => "list" \in torn'
          /\ field.kind = NoField => \A copy \in Copies : ~item'[copy].held
          /\ \A copy \in Copies : copy # "live" /\ copy \notin torn' => copy \notin torn
      BY <1>0, <2>1, <2>3
    <2>5. \A copy \in Copies : copy \notin torn' =>
            \/ copy \notin torn /\ item'[copy] = item[copy]
            \/ ~item'[copy].held
            \/ /\ \A a \in Admins : work[a].stage = "idle"
               /\ Fits(component, field, item'[copy])
      <3> SUFFICES ASSUME NEW copy \in Copies, copy \notin torn', copy = "live"
                   PROVE  /\ \A a \in Admins : work[a].stage = "idle"
                          /\ Fits(component, field, item'[copy])
        BY <2>3, <2>4
      <3> QED
        BY <2>1, <2>2, <2>3
    <2> QED
      BY <2>1, <2>3, <2>4, <2>5, CopyWritten
  <1>5. ASSUME Unpublish(w) PROVE ComponentInv'
    <2>1. /\ item' = [item EXCEPT !["live"] = Nothing] /\ torn' = torn
          /\ Outdate(w) /\ UNCHANGED <<component, field, work>>
      BY <1>5 DEF Unpublish
    <2>2. /\ item' \in [Copies -> Items] /\ item'["live"] = Nothing
          /\ \A copy \in Copies : copy # "live" => item'[copy] = item[copy]
      BY <1>0, <2>1
    <2>3. field.kind = NoField => \A copy \in Copies : ~item'[copy].held
      BY <1>0, <2>2
    <2> QED
      BY <1>0, <2>1, <2>2, <2>3, CopyWritten
  <1> QED
    BY <1>1, <1>2, <1>3, <1>4, <1>5 DEF WriterStep

-----------------------------------------------------------------------------
LEMMA ComponentsStart == ComponentInit => ComponentInv
  <1> SUFFICES ASSUME ComponentInit PROVE ComponentInv
    OBVIOUS
  <1>1. ComponentsForm
    <2>1. Unused \in ComponentRows /\ ~Unused.live
      BY DEF Unused, ComponentRows, SubFields
    <2> QED
      BY <2>1 DEF ComponentInit, ComponentsForm
  <1>2. /\ field.kind = NoField /\ field.uses = {} /\ FieldForm
    BY ComponentAssumption DEF ComponentInit, FieldForm, Fields, UsesForm
  <1>3. /\ ItemsForm /\ \A copy \in Copies : ~item[copy].held
    <2>1. Nothing \in Items /\ ~Nothing.held
      BY ItemForm DEF Nothing
    <2> QED
      BY <2>1 DEF ComponentInit, ItemsForm
  <1>4. /\ CallsForm /\ \A a \in Admins : work[a].stage = "idle"
    BY NoCallForm DEF ComponentInit, CallsForm
  <1>5. /\ DraftsForm /\ \A w \in Writers : draft[w].stage = "idle"
    BY NoDraftForm DEF ComponentInit, DraftsForm
  <1>6. CopiesFit
    BY <1>3 DEF CopiesFit, Fits
  <1>7. UsesFit
    BY <1>2 DEF UsesFit, Resolved
  <1>8. CallsKnow /\ DeletionsKnow /\ DraftsFit
    BY <1>4, <1>5 DEF CallsKnow, DeletionsKnow, DraftsFit
  <1> QED
    BY <1>1, <1>2, <1>3, <1>4, <1>5, <1>6, <1>7, <1>8 DEF ComponentInv

LEMMA ComponentsStep ==
  ComponentInv /\ [ComponentNext]_componentVars => ComponentInv'
  <1> SUFFICES ASSUME ComponentInv, [ComponentNext]_componentVars PROVE ComponentInv'
    OBVIOUS
  <1>1. CASE Create
    BY <1>1, ComponentCreated DEF Create
  <1>2. ASSUME NEW a \in Admins, ComponentCall(a) PROVE ComponentInv'
    BY <1>2, CallStep
  <1>3. ASSUME NEW w \in Writers, WriterStep(w) PROVE ComponentInv'
    BY <1>3, WriterKeeps
  <1>4. CASE UNCHANGED componentVars
    <2>1. ComponentsForm' /\ FieldForm' /\ ItemsForm' /\ CallsForm' /\ DraftsForm'
      BY <1>4 DEF componentVars, ComponentInv, ComponentsForm, FieldForm, ItemsForm,
                  CallsForm, DraftsForm
    <2>2. CallsKnow' /\ DeletionsKnow' /\ DraftsFit' /\ CopiesFit' /\ UsesFit'
      BY <1>4 DEF componentVars, ComponentInv, CallsKnow, DeletionsKnow, KnowsZones,
                  UsedByNoZone, DraftsFit, CopiesFit, UsesFit
    <2> QED
      BY <2>1, <2>2 DEF ComponentInv
  <1> QED
    BY <1>1, <1>2, <1>3, <1>4 DEF ComponentNext

LEMMA ComponentsInvariant == ComponentSpec => []ComponentInv
  BY ComponentsStart, ComponentsStep, PTL DEF ComponentSpec

LEMMA OneOfAName ==
  ASSUME ComponentsForm, NEW n \in Names
  PROVE  Cardinality(Named(n)) <= 1
  <1>1. CASE Named(n) = {}
    BY <1>1, FS_EmptySet
  <1>2. CASE Named(n) # {}
    <2>1. PICK c \in Components : c \in Named(n)
      BY <1>2 DEF Named
    <2>2. Named(n) = {c}
      BY <2>1 DEF Named, Live, ComponentsForm
    <2> QED
      BY <2>2, FS_Singleton
  <1> QED
    BY <1>1, <1>2

(* Items fit the component they name, and zones name components that are   *)
(* there (component.go UpdateComponentField, RenameComponent,              *)
(* DeleteComponent), for any number of calls and writers.                  *)
THEOREM ComponentsAreSound == ComponentSpec => []ComponentsSound
  <1>1. ComponentInv => ComponentsSound
    <2> SUFFICES ASSUME ComponentInv PROVE ComponentsSound
      OBVIOUS
    <2>1. ComponentTypeOK
      <3>1. \A n \in Names : Cardinality(Named(n)) <= 1
        BY OneOfAName DEF ComponentInv
      <3>2. /\ component \in [Components -> [live : BOOLEAN, name : Names \cup {"", "gone"},
                                             fields : SubFields]]
            /\ field.kind \in FieldKinds \cup {NoField}
            /\ \A copy \in Copies : item[copy] \in Items
            /\ torn \subseteq Copies \cup {"list"}
        BY DEF ComponentInv, ComponentsForm, ComponentRows, FieldForm, Fields, FieldKinds, ItemsForm
      <3>3. \A a \in Admins : /\ work[a].op \in Ops
                               /\ work[a].stage \in {"idle", "read", "checked", "asked"}
        BY DEF ComponentInv, CallsForm, Calls
      <3>4. \A w \in Writers : draft[w].item \in Items
        BY DEF ComponentInv, DraftsForm, Drafts
      <3> QED
        BY <3>1, <3>2, <3>3, <3>4 DEF ComponentTypeOK
    <2>2. ItemsFit
      BY FitsValid DEF ComponentInv, ItemsForm, CopiesFit, ItemsFit
    <2>3. ZonesNameComponents
      <3>1. field.kind \in {"zone", "embed", NoField} /\ NoField \notin {"zone", "embed"}
        BY ComponentAssumption DEF ComponentInv, FieldForm, Fields
      <3> QED
        BY <3>1 DEF ComponentInv, UsesFit, Resolved, NamedIn, ZonesNameComponents,
                    There, Named, Live
    <2> QED
      BY <2>1, <2>2, <2>3 DEF ComponentsSound
  <1> QED
    BY <1>1, ComponentsInvariant, PTL

(* A key that is exchanged for one that is not there.                      *)
LEMMA Exchanged ==
  ASSUME NEW S, IsFiniteSet(S), NEW x \in S, NEW y, y \notin S
  PROVE  Cardinality((S \ {x}) \cup {y}) = Cardinality(S)
  <1>1. /\ IsFiniteSet(S \ {x}) /\ Cardinality(S \ {x}) = Cardinality(S) - 1
        /\ Cardinality(S) \in Nat
    BY FS_RemoveElement, FS_CardinalityType
  <1>2. y \notin S \ {x}
    OBVIOUS
  <1>3. Cardinality((S \ {x}) \cup {y}) = Cardinality(S \ {x}) + 1
    BY <1>1, <1>2, FS_AddElement
  <1> QED
    BY <1>1, <1>3

(* Of an untorn copy, a call that nobody overtook changes the keys only by *)
(* giving one another name.                                                *)
LEMMA KeysExchanged ==
  ASSUME ComponentInv, NEW a \in Admins, Write(a), ~work[a].crossed, ~work[a].force,
         NEW copy \in Copies, copy \notin torn
  PROVE  \/ item'[copy].keys = item[copy].keys
         \/ \E x \in item[copy].keys : \E y \in SubKeys \ item[copy].keys :
              item'[copy].keys = (item[copy].keys \ {x}) \cup {y}
  <1> DEFINE c == work[a]
  <1> SUFFICES ASSUME item' # item
               PROVE  \/ item'[copy].keys = item[copy].keys
                      \/ \E x \in item[copy].keys : \E y \in SubKeys \ item[copy].keys :
                           item'[copy].keys = (item[copy].keys \ {x}) \cup {y}
    OBVIOUS
  <1>1. /\ c.stage = "checked" /\ item \in [Copies -> Items] /\ c \in Calls
        /\ AskForm(field.kind, c) /\ KnowsType(component, field, c)
        /\ KnowsItem(field, c, item[copy])
    BY DEF Write, Writing, Refuse, AskZonesAgain, InsertComponentField, UpdateComponentFieldDefinition,
           RenameComponentFieldRow, DeleteComponentFieldRow, RenameComponentRow,
           DeleteComponentRow, InsertField, UpdateFieldDefinition, ComponentInv,
           ItemsForm, CallsForm, CallsKnow
  <1>2. CASE RenameComponentFieldRow(a)
    <2>1. /\ c.op = "rename_field" /\ c.to \in SubKeys /\ c.key \in SubKeys
          /\ c.op \in OnComponent /\ c.id \in Components
          /\ RewriteComponentItems(c, {c.to}) /\ component[c.id].fields[c.to] = "none"
      BY <1>1, <1>2 DEF RenameComponentFieldRow, Writing, Refuse, AskForm, OnComponent
    <2>2. item'[copy].keys = IF ItsItem(item[copy], c.ref, c.name) /\ c.key \in item[copy].keys
                             THEN (item[copy].keys \ {c.key}) \cup {c.to} ELSE item[copy].keys
      BY <1>1, <2>1, ItemsRekeyed
    <2>3. ItsItem(item[copy], c.ref, c.name) => c.to \notin item[copy].keys
      <3> SUFFICES ASSUME ItsItem(item[copy], c.ref, c.name) PROVE c.to \notin item[copy].keys
        OBVIOUS
      <3>1. item[copy].held
        BY DEF ItsItem
      <3>2. \E e \in Components :
              /\ FitsBy(component, field, item[copy], e)
              /\ e = c.id <=> ItsItem(item[copy], c.ref, c.name)
        BY <1>1, <2>1, <3>1, OwnerOf
      <3> QED
        BY <2>1, <3>2 DEF FitsBy
    <2> QED
      BY <2>1, <2>2, <2>3
  <1>3. CASE DeleteComponentFieldRow(a)
    <2>1. /\ c.op = "delete_field" /\ RewriteComponentItems(c, {})
      BY <1>3 DEF DeleteComponentFieldRow, Writing, Refuse
    <2>2. item'[copy].keys = IF ItsItem(item[copy], c.ref, c.name) /\ c.key \in item[copy].keys
                             THEN (item[copy].keys \ {c.key}) \cup {} ELSE item[copy].keys
      <3>1. {} \in SUBSET SubKeys
        OBVIOUS
      <3> HIDE DEF c
      <3> QED
        BY <1>1, <2>1, <3>1, ItemsRekeyed
    <2> QED
      BY <1>1, <2>1, <2>2 DEF KnowsItem
  <1>4. CASE RenameComponentRow(a)
    <2> DEFINE its == c.ref = "zone" /\ ItsItem(item[copy], c.ref, c.name)
    <2>1. /\ item'[copy] = IF its THEN [item[copy] EXCEPT !.tag = c.to] ELSE item[copy]
          /\ c.to \in Tags /\ its => item[copy].held
      BY <1>1, <1>4 DEF RenameComponentRow, Writing, Refuse, AskForm, Tags, ItsItem
    <2> HIDE DEF its, c
    <2>2. item[copy] \in Items
      BY <1>1
    <2> QED
      BY <2>1, <2>2, ItemRetagged
  <1> QED
    BY <1>2, <1>3, <1>4
      DEF Write, InsertComponentField, UpdateComponentFieldDefinition, Refuse,
          AskZonesAgain, DeleteComponentRow, InsertField, UpdateFieldDefinition

LEMMA CrossedAlone ==
  ASSUME NEW r \in Calls, NEW x
  PROVE  [r EXCEPT !.crossed = x].stage = r.stage
  <1>1. "stage" \in DOMAIN r
    BY DEF Calls
  <1> QED
    BY ONLY <1>1

(* Only its own write ends a call that has asked the entries.              *)
LEMMA EndedByItself ==
  ASSUME ComponentInv, NEW a \in Admins, work[a].stage \in {"checked", "asked"},
         work'[a].stage = "idle", ComponentNext
  PROVE  Write(a)
  <1>1. work \in [Admins -> Calls]
    BY DEF ComponentInv, CallsForm
  <1>2. CASE Create
    <2>1. PICK c \in Components, n \in Names, fields \in Shapes : CreateComponent(c, n, fields)
      BY <1>2 DEF Create
    <2>2. work'[a] = [work[a] EXCEPT !.crossed = InFlight(a)]
      BY <2>1 DEF CreateComponent
    <2>3. work[a] \in Calls
      BY <1>1
    <2>4. work'[a].stage = work[a].stage
      BY <2>2, <2>3, CrossedAlone, Zenon
    <2> QED
      BY <2>4
  <1>3. ASSUME NEW w \in Writers, WriterStep(w) PROVE FALSE
    <2>1. work' = work
      BY <1>3 DEF WriterStep, ReadType, ReadEntry, WriteEntry, Publish, Unpublish, OnlyDraft
    <2> QED
      BY <2>1
  <1>4. ASSUME NEW b \in Admins, NEW call, Load(b, call) PROVE FALSE
    <2>1. work[b].stage = "idle"
      BY <1>4, NoCallForm DEF Load
    <2>2. a # b
      BY <2>1
    <2>3. work'[a] = work[a]
      BY <1>1, <1>4, <2>2 DEF Load
    <2> QED
      BY <2>3
  <1>5. ASSUME NEW b \in Admins, Check(b) PROVE FALSE
    BY <1>1, <1>5 DEF Check, Refuse
  <1>6. ASSUME NEW b \in Admins, b # a, Refuse(b) PROVE FALSE
    BY <1>1, <1>6 DEF Refuse
  <1>7. ASSUME NEW b \in Admins, b # a, Committed(b) PROVE FALSE
    <2>1. work'[a] = [work[a] EXCEPT !.crossed = InFlight(a)]
      BY <1>7 DEF Committed
    <2>2. work[a] \in Calls
      BY <1>1
    <2>3. work'[a].stage = work[a].stage
      BY <2>1, <2>2, CrossedAlone, Zenon
    <2> QED
      BY <2>3
  <1>8. ASSUME NEW b \in Admins, b # a, Write(b) PROVE FALSE
    <2>1. Refuse(b) \/ Committed(b) \/ work'[a] = work[a]
      BY <1>1, <1>8 DEF Write, InsertComponentField, UpdateComponentFieldDefinition,
           RenameComponentFieldRow, DeleteComponentFieldRow, RenameComponentRow,
           AskZonesAgain, DeleteComponentRow, InsertField, UpdateFieldDefinition
    <2> QED
      BY <1>6, <1>7, <1>8, <2>1
  <1>9. ASSUME NEW b \in Admins, ComponentCall(b) PROVE Write(a)
    <2>1. \/ \E call : Load(b, call)
          \/ Check(b)
          \/ Write(b)
      BY <1>9 DEF ComponentCall, RenameComponent, DeleteComponent, AddComponentField,
           UpdateComponentField, RenameComponentField, DeleteComponentField, LoadComponent,
           AddField, UpdateZone
    <2> QED
      BY <1>4, <1>5, <1>8, <2>1
  <1> QED
    BY <1>2, <1>3, <1>9 DEF ComponentNext

(* No call takes a stored value away unless it is forced to or another     *)
(* overtook it (component.go DeleteComponentField).                        *)
THEOREM ValuesAreKept == ComponentSpec => NoValueLost
  <1>1. ASSUME ComponentInv, [ComponentNext]_componentVars,
               NEW a \in Admins, work[a].stage \in {"checked", "asked"},
               work'[a].stage = "idle", ~work[a].crossed, ~work[a].force, NEW copy \in Copies, copy \notin torn
        PROVE  Cardinality(item'[copy].keys) >= Cardinality(item[copy].keys)
    <2>1. ComponentNext
      BY <1>1 DEF componentVars
    <2>2. Write(a)
      BY <1>1, <2>1, EndedByItself
    <2>3. item[copy].keys \in SUBSET SubKeys
      BY <1>1, ItemFields DEF ComponentInv, ItemsForm
    <2>4. IsFiniteSet(item[copy].keys) /\ Cardinality(item[copy].keys) \in Nat
      BY <2>3, ComponentAssumption, FS_Subset, FS_CardinalityType
    <2>5. \/ item'[copy].keys = item[copy].keys
          \/ \E x \in item[copy].keys : \E y \in SubKeys \ item[copy].keys :
               item'[copy].keys = (item[copy].keys \ {x}) \cup {y}
      BY <1>1, <2>2, KeysExchanged
    <2>6. Cardinality(item'[copy].keys) = Cardinality(item[copy].keys)
      BY <2>4, <2>5, Exchanged
    <2> QED
      BY <2>4, <2>6
  <1>2. ComponentInv /\ [ComponentNext]_componentVars =>
          [\A a \in Admins :
             /\ work[a].stage \in {"checked", "asked"} /\ work'[a].stage = "idle"
             /\ ~work[a].crossed /\ ~work[a].force
             => \A copy \in Copies \ torn :
                  Cardinality(item'[copy].keys) >= Cardinality(item[copy].keys)]_componentVars
    BY <1>1
  <1> QED
    BY <1>2, ComponentsInvariant, PTL DEF ComponentSpec, NoValueLost

-----------------------------------------------------------------------------
(* EntryReads.                                                             *)

(* Places: what the sequence operators of the walk do.                     *)
RelationFields == {"author", "cover", "best"}

LEMMA PlaceBelow ==
  ASSUME NEW at \in Seq(RelationFields), NEW f \in RelationFields
  PROVE  /\ Append(at, f) \in Seq(RelationFields) /\ Append(at, f) # <<>>
         /\ Len(Append(at, f)) = Len(at) + 1 /\ Len(at) \in Nat
         /\ Front(Append(at, f)) = at /\ Last(Append(at, f)) = f
         /\ \A k \in 0 .. Len(at) : SubSeq(Append(at, f), 1, k) = SubSeq(at, 1, k)
         /\ SubSeq(at, 1, Len(at)) = at
<1>1. /\ Append(at, f) \in Seq(RelationFields) /\ Append(at, f) # <<>>
      /\ Len(Append(at, f)) = Len(at) + 1 /\ Len(at) \in Nat
      /\ \A i \in 1 .. Len(at) : Append(at, f)[i] = at[i]
      /\ Append(at, f)[Len(at) + 1] = f
  BY AppendProperties, LenProperties
<1>2. \A k \in 0 .. Len(at) : SubSeq(Append(at, f), 1, k) = SubSeq(at, 1, k)
  <2> SUFFICES ASSUME NEW k \in 0 .. Len(at) PROVE SubSeq(Append(at, f), 1, k) = SubSeq(at, 1, k)
    BY Zenon
  <2>1. SubSeq(Append(at, f), 1, k) = [i \in 1 .. k |-> Append(at, f)[i]]
    BY <1>1
  <2>2. SubSeq(at, 1, k) = [i \in 1 .. k |-> at[i]]
    BY <1>1
  <2> QED BY <1>1, <2>1, <2>2
<1>3. SubSeq(at, 1, Len(at)) = at
  BY <1>1
<1>4. Front(Append(at, f)) = at
  BY <1>1, <1>2, <1>3 DEF Front
<1>5. Last(Append(at, f)) = f
  BY <1>1 DEF Last
<1> QED BY <1>1, <1>2, <1>3, <1>4, <1>5

LEMMA PrefixIs ==
  ASSUME NEW a \in Seq(RelationFields), NEW b \in Seq(RelationFields), IsPrefix(a, b)
  PROVE  /\ Len(a) \in Nat /\ Len(b) \in Nat /\ Len(a) <= Len(b)
         /\ a = SubSeq(b, 1, Len(a))
         /\ a # b => Len(a) < Len(b)
<1>1. Len(a) \in Nat /\ Len(b) \in Nat /\ Len(a) <= Len(b)
  BY LenProperties DEF IsPrefix
<1>2. SubSeq(a, 1, Len(a)) = a /\ SubSeq(b, 1, Len(b)) = b
  BY <1>1
<1>3. a = SubSeq(b, 1, Len(a))
  BY <1>2 DEF IsPrefix
<1>4. Len(a) = Len(b) => a = b
  BY <1>2, <1>3
<1> QED BY <1>1, <1>3, <1>4

(* A step of a path below a place at which the path stands.                *)
LEMMA PathStep ==
  ASSUME NEW S, NEW p \in Seq(S), NEW at \in Seq(RelationFields), Len(p) > Len(at), IsPrefix(at, p)
  PROVE  Len(at) + 1 \in 1 .. Len(p) /\ SubSeq(p, 1, Len(at)) = at
<1>1. Len(p) \in Nat /\ Len(at) \in Nat
  BY LenProperties
<1>2. SubSeq(at, 1, Len(at)) = at
  BY <1>1
<1> QED BY <1>1, <1>2 DEF IsPrefix

(* SetToSeq lists a finite set once.                                       *)
LEMMA Listing ==
  ASSUME NEW S, IsFiniteSet(S)
  PROVE  /\ SetToSeq(S) \in Seq(S) /\ Len(SetToSeq(S)) \in Nat
         /\ \A x \in S : \E i \in 1 .. Len(SetToSeq(S)) : SetToSeq(S)[i] = x
         /\ \A i, j \in 1 .. Len(SetToSeq(S)) :
              SetToSeq(S)[i] = SetToSeq(S)[j] => i = j
<1> DEFINE n == Cardinality(S)
<1>1. n \in Nat
  BY FS_CardinalityType
<1>2. PICK g : g \in Bijection(1 .. n, S)
  BY FS_CardinalityType DEF ExistsBijection
<1>3. g \in [1 .. n -> S] /\ IsInjective(g)
  BY <1>2 DEF Bijection, Injection, IsInjective
<1> DEFINE s == SetToSeq(S)
<1>4. s \in [1 .. n -> S] /\ IsInjective(s)
  BY <1>3, Zenon DEF SetToSeq
<1>5. s \in Injection(1 .. n, S)
  BY <1>4 DEF Injection, IsInjective
<1>6. IsFiniteSet(1 .. n) /\ Cardinality(1 .. n) = n
  BY <1>1, FS_Interval
<1>7. s \in Surjection(1 .. n, S)
  BY <1>5, <1>6, FS_Injection
<1>8. \A x \in S : \E i \in 1 .. n : s[i] = x
  BY <1>7 DEF Surjection
<1>9. s \in Seq(S) /\ Len(s) = n
  <2> HIDE DEF s, n
  <2> QED BY <1>1, <1>4
<1>10. \A i, j \in 1 .. n : s[i] = s[j] => i = j
  BY <1>4 DEF IsInjective
<1> HIDE DEF s, n
<1> QED BY <1>1, <1>8, <1>9, <1>10 DEF s

-----------------------------------------------------------------------------
(* What a request knows.                                                   *)
DocForms == UNION {Docs(e) : e \in Stored}
RowForms == UNION {[D -> DocForms] : D \in SUBSET Stored}
LevelForms == [at : Seq(RelationFields), rows : RowForms, path : SUBSET Stored]
NodeForms == [at : Seq(RelationFields), parent : Stored, id : Stored, doc : DocForms]
ReadRequests ==
  [stage : {"rows", "group", "walk", "answered"}, who : Readers,
   road : {"get", "list", "translations"}, kind : {"article", "profile"}, id : Stored,
   paths : Populates, root : RowForms, todo : Seq(LevelForms), levels : SUBSET LevelForms,
   shown : SUBSET NodeForms, seen : SUBSET Stored, could : SUBSET (Stored \X DocForms),
   could_not : SUBSET Stored]

Entries(e) == [status : {"draft", "published", "gone"}, working : Docs(e),
               snapshot : Docs(e) \cup {NoSnapshot}, version : Nat]

(* A published entry has a snapshot, so that GET, which asks only for the  *)
(* status, shows one.                                                      *)
StoreInv ==
  /\ roleLists \in Lists
  /\ DOMAIN store = Stored
  /\ \A e \in Stored : /\ store[e] \in Entries(e)
                       /\ store[e].version \in 2 .. (edits + 2)
                       /\ store[e].status = "published" => store[e].snapshot # NoSnapshot
  /\ decided \in [Stored -> 0 .. (MaxEdits + 2)]
  /\ edits \in 0 .. MaxEdits

Stands(r, at) ==
  IF at = <<>> THEN {<<e, r.root[e]>> : e \in DOMAIN r.root}
  ELSE {<<n.id, n.doc>> : n \in {m \in r.shown : m.at = at}}

RowOk(r, e, d) == e \in Stored /\ d \in Docs(e) /\ <<e, d>> \in r.could

RootOk(r) == \A e \in DOMAIN r.root : KindOf(e) = r.kind /\ RowOk(r, e, r.root[e])

NodeOk(r, n) ==
  /\ n.at # <<>> /\ Last(n.at) \in RelationFields
  /\ KindOf(n.id) = TargetKind[Last(n.at)] /\ RowOk(r, n.id, n.doc)
  /\ \E p \in Stands(r, Front(n.at)) : p[1] = n.parent /\ n.id \in p[2][Last(n.at)]

(* A level stands at a place of the answer whose rows it holds; the levels  *)
(* above it have been expanded, and its path holds their rows.             *)
Hangs(r, l) ==
  /\ \A k \in 0 .. Len(l.at) - 1 : \E m \in r.levels : m.at = SubSeq(l.at, 1, k)
  /\ \A m \in r.levels : m.at # l.at /\ IsPrefix(m.at, l.at) => DOMAIN m.rows \subseteq l.path

LevelOk(r, l) ==
  /\ DOMAIN l.rows # {} /\ DOMAIN l.rows \cap l.path = {}
  /\ \A e \in DOMAIN l.rows :
        /\ e \in Stored /\ KindOf(e) = KindAt(r.kind, l.at)
        /\ l.rows[e] \in Docs(e) /\ <<e, l.rows[e]>> \in Stands(r, l.at)
  /\ Hangs(r, l)

Answered(r, l) ==
  \A f \in FieldsAt(r.paths, l.at) : \A e \in DOMAIN l.rows :
    \A x \in l.rows[e][f] \ r.could_not :
      KindOf(x) = TargetKind[f] =>
        \E n \in r.shown : n.at = Append(l.at, f) /\ n.parent = e /\ n.id = x

LevelsOk(r) ==
  /\ \A l \in r.levels : LevelOk(r, l) /\ Answered(r, l)
  /\ \A l, m \in r.levels : l.at = m.at => l = m

TodoOk(r) ==
  /\ \A i \in 1 .. Len(r.todo) : LevelOk(r, r.todo[i])
  /\ \A i \in 1 .. Len(r.todo) : \A l \in r.levels : r.todo[i].at # l.at
  /\ \A i, j \in 1 .. Len(r.todo) : r.todo[i].at = r.todo[j].at => i = j

AnswerOk(r) ==
  /\ RootOk(r) /\ (\A n \in r.shown : NodeOk(r, n)) /\ LevelsOk(r)
  /\ Cardinality(r.seen) <= MaxTargets

Under == {"rows", "group", "walk"}
Full == Under \cup {"answered"}

(* What was asked was admitted, and what is shown passed the lists.        *)
ListsAdmit ==
  /\ TypeOpen(reading.who, reading.kind)
  /\ \A p \in reading.paths : Expandable(reading.who, reading.kind, p)
  /\ \A n \in reading.shown : /\ TypeOpen(reading.who, KindOf(n.id))
                              /\ FieldOpen(reading.who, Last(n.at))

Watches == /\ Watch(reading.who).could \subseteq reading.could
           /\ Watch(reading.who).could_not \subseteq reading.could_not

ReadsInv ==
  /\ StoreInv
  /\ reading.stage \in Full \cup {"idle", "refused"}
  /\ reading.stage \in Full => reading \in ReadRequests /\ ListsAdmit
  /\ reading.stage \in Under => Watches
  /\ reading.stage \in {"rows", "group"} => /\ reading.levels = {} /\ reading.shown = {}
                                            /\ reading.seen = {}
  /\ reading.stage \in {"walk", "answered"} => AnswerOk(reading)
  /\ reading.stage = "walk" => TodoOk(reading)

-----------------------------------------------------------------------------
LEMMA Kinds ==
  /\ \A e \in Stored : /\ KindOf(e) \in {"article", "profile"}
                       /\ \A t \in {"article", "profile"} : KindOf(e) = t <=> e \in EntriesOf[t]
  /\ DOMAIN EntriesOf = {"article", "profile"}
  /\ \A t \in {"article", "profile"} : /\ RelationsOf[t] \subseteq RelationFields
                                       /\ EntriesOf[t] \subseteq Stored
  /\ DOMAIN TargetKind = RelationFields
  /\ \A f \in RelationFields : TargetKind[f] \in {"article", "profile"}
BY ReadsAssumption DEF Stored, KindOf, EntriesOf, RelationsOf, TargetKind, RelationFields

LEMMA DocForm ==
  ASSUME NEW e \in Stored, NEW d \in Docs(e)
  PROVE  /\ d \in DocForms /\ d # NoSnapshot
         /\ \A f \in RelationsOf[KindOf(e)] : d[f] \subseteq Stored
<1>1. d \in DocForms
  BY DEF DocForms
<1>2. \A f \in RelationsOf[KindOf(e)] : d[f] \subseteq Stored
  BY DEF Docs
<1>3. d # NoSnapshot
  <2>1. DOMAIN d = RelationsOf[KindOf(e)]
    BY DEF Docs
  <2>2. DOMAIN NoSnapshot = {"none"}
    BY DEF NoSnapshot
  <2>3. RelationsOf[KindOf(e)] # {"none"}
    BY Kinds DEF RelationFields, RelationsOf
  <2> QED BY <2>1, <2>2, <2>3
<1> QED BY <1>1, <1>2, <1>3

LEMMA RowForm ==
  ASSUME NEW D \in SUBSET Stored, NEW r, DOMAIN r = D, r = [e \in D |-> r[e]],
         \A e \in D : r[e] \in Docs(e)
  PROVE  r \in RowForms
<1>1. \A e \in D : r[e] \in DocForms
  BY DocForm
<1>2. r \in [D -> DocForms]
  BY <1>1
<1> QED BY <1>2, Zenon DEF RowForms

(* An entry that can be served has a copy to be served.                    *)
LEMMA Served ==
  ASSUME StoreInv, NEW s, NEW e \in Stored, CanBeServed(s, e)
  PROVE  CopyFor(s, e) \in Docs(e) /\ <<e, CopyFor(s, e)>> \in Watch(s).could
<1>1. store[e] \in Entries(e)
  BY DEF StoreInv
<1>2. CopyFor(s, e) \in Docs(e)
  BY <1>1 DEF CanBeServed, CopyFor, IsPublished, Entries
<1> QED BY <1>2 DEF Watch

LEMMA WatchForm ==
  ASSUME StoreInv, NEW s
  PROVE  Watch(s).could \subseteq Stored \X DocForms /\ Watch(s).could_not \subseteq Stored
<1>1. \A e \in Stored : CanBeServed(s, e) => CopyFor(s, e) \in DocForms
  BY Served, DocForm
<1> QED BY <1>1 DEF Watch

LEMMA WatchForms ==
  StoreInv => \A s : Watch(s).could \subseteq Stored \X DocForms /\ Watch(s).could_not \subseteq Stored
BY WatchForm

LEMMA WatchNext ==
  StoreInv' => \A s : Watch(s)'.could \subseteq Stored \X DocForms /\ Watch(s)'.could_not \subseteq Stored
<1>1. (StoreInv => \A s : Watch(s).could \subseteq Stored \X DocForms /\ Watch(s).could_not \subseteq Stored)'
  BY WatchForms, PTL
<1> QED BY <1>1

-----------------------------------------------------------------------------
(* The writers.                                                            *)
LEMMA EntryKept ==
  ASSUME StoreInv, NEW e \in Stored, NEW r \in Entries(e), Edit(e, r),
         r.version \in 2 .. (edits + 3),
         r.status = "published" => r.snapshot # NoSnapshot
  PROVE  StoreInv'
<1>1. edits' = edits + 1 /\ edits' \in 0 .. MaxEdits /\ edits \in Nat
  BY ReadsAssumption DEF StoreInv, Edit
<1>2. store' = [store EXCEPT ![e] = r] /\ UNCHANGED <<roleLists, decided>>
  BY DEF Edit
<1>3. \A x \in Stored : /\ store'[x] \in Entries(x)
                        /\ store'[x].version \in 2 .. (edits' + 2)
                        /\ store'[x].status = "published" => store'[x].snapshot # NoSnapshot
  <2> SUFFICES ASSUME NEW x \in Stored
      PROVE /\ store'[x] \in Entries(x)
            /\ store'[x].version \in 2 .. (edits' + 2)
            /\ store'[x].status = "published" => store'[x].snapshot # NoSnapshot
    BY Zenon
  <2>1. DOMAIN store = Stored
    BY DEF StoreInv
  <2>2. CASE x = e
    <3>1. store'[x] = r
      BY <1>2, <2>1, <2>2
    <3> QED BY <1>1, <2>2, <3>1
  <2>3. CASE x # e
    <3>1. store'[x] = store[x]
      BY <1>2, <2>1, <2>3
    <3>2. /\ store[x] \in Entries(x) /\ store[x].version \in 2 .. (edits + 2)
          /\ store[x].status = "published" => store[x].snapshot # NoSnapshot
      BY DEF StoreInv
    <3> QED BY <1>1, <3>1, <3>2
  <2> QED BY <2>2, <2>3
<1>4. DOMAIN store' = Stored
  BY <1>2 DEF StoreInv
<1> QED BY <1>1, <1>2, <1>3, <1>4 DEF StoreInv

LEMMA EntryParts ==
  ASSUME StoreInv, NEW e \in Stored
  PROVE  /\ store[e].status \in {"draft", "published", "gone"} /\ store[e].working \in Docs(e)
         /\ store[e].snapshot \in Docs(e) \cup {NoSnapshot}
         /\ store[e].version \in 2 .. (edits + 2) /\ store[e].version \in Nat
         /\ store[e] \in Entries(e) /\ edits \in Nat
BY DEF StoreInv, Entries

EntryRow(a, b, c, d) == [status |-> a, working |-> b, snapshot |-> c, version |-> d]

LEMMA RowWith ==
  \A r, a, b, c, d : r = EntryRow(a, b, c, d) =>
     /\ \A x : [r EXCEPT !.status = x] = EntryRow(x, b, c, d)
     /\ \A x : [r EXCEPT !.working = x] = EntryRow(a, x, c, d)
     /\ \A x : [r EXCEPT !.snapshot = x] = EntryRow(a, b, x, d)
     /\ \A x : [r EXCEPT !.version = x] = EntryRow(a, b, c, x)
     /\ r.status = a /\ r.working = b /\ r.snapshot = c /\ r.version = d
<1> SUFFICES ASSUME NEW r, NEW a, NEW b, NEW c, NEW d, r = EntryRow(a, b, c, d)
             PROVE  /\ \A x : [r EXCEPT !.status = x] = EntryRow(x, b, c, d)
                    /\ \A x : [r EXCEPT !.working = x] = EntryRow(a, x, c, d)
                    /\ \A x : [r EXCEPT !.snapshot = x] = EntryRow(a, b, x, d)
                    /\ \A x : [r EXCEPT !.version = x] = EntryRow(a, b, c, x)
                    /\ r.status = a /\ r.working = b /\ r.snapshot = c /\ r.version = d
  BY Zenon
<1>1. \A x : [r EXCEPT !.status = x] = EntryRow(x, b, c, d)
  BY DEF EntryRow
<1>2. \A x : [r EXCEPT !.working = x] = EntryRow(a, x, c, d)
  BY DEF EntryRow
<1>3. \A x : [r EXCEPT !.snapshot = x] = EntryRow(a, b, x, d)
  BY DEF EntryRow
<1>4. \A x : [r EXCEPT !.version = x] = EntryRow(a, b, c, x)
  BY DEF EntryRow
<1>5. r.status = a /\ r.working = b /\ r.snapshot = c /\ r.version = d
  BY DEF EntryRow
<1> QED BY <1>1, <1>2, <1>3, <1>4, <1>5, Zenon

LEMMA EntryIs ==
  ASSUME NEW e \in Stored, NEW r \in Entries(e)
  PROVE  /\ \A ids : [r EXCEPT !.working = ids, !.version = @ + 1] =
                       EntryRow(r.status, ids, r.snapshot, r.version + 1)
         /\ \A x, y : [r EXCEPT !.status = x, !.snapshot = y, !.version = @ + 1] =
                       EntryRow(x, r.working, y, r.version + 1)
         /\ \A x : [r EXCEPT !.status = x, !.version = @ + 1] =
                       EntryRow(x, r.working, r.snapshot, r.version + 1)
         /\ \A x : [r EXCEPT !.status = x] = EntryRow(x, r.working, r.snapshot, r.version)
<1>1. PICK a, b, c, d : r = EntryRow(a, b, c, d)
  BY DEF Entries, EntryRow
<1>2. r.status = a /\ r.working = b /\ r.snapshot = c /\ r.version = d
  BY <1>1, RowWith
<1>3. ASSUME NEW ids
      PROVE  [r EXCEPT !.working = ids, !.version = @ + 1] = EntryRow(a, ids, c, d + 1)
  <2> DEFINE m == [r EXCEPT !.working = ids]
  <2>1. m = EntryRow(a, ids, c, d)
    BY <1>1, RowWith
  <2>2. [r EXCEPT !.working = ids, !.version = @ + 1] = [m EXCEPT !.version = d + 1]
    BY <1>2
  <2> HIDE DEF m
  <2> QED BY <2>1, <2>2, RowWith
<1>4. ASSUME NEW x
      PROVE  [r EXCEPT !.status = x, !.version = @ + 1] = EntryRow(x, b, c, d + 1)
  <2> DEFINE m == [r EXCEPT !.status = x]
  <2>1. m = EntryRow(x, b, c, d)
    BY <1>1, RowWith
  <2>2. [r EXCEPT !.status = x, !.version = @ + 1] = [m EXCEPT !.version = d + 1]
    BY <1>2
  <2> HIDE DEF m
  <2> QED BY <2>1, <2>2, RowWith
<1>5. ASSUME NEW x, NEW y
      PROVE  [r EXCEPT !.status = x, !.snapshot = y, !.version = @ + 1] = EntryRow(x, b, y, d + 1)
  <2> DEFINE m == [r EXCEPT !.status = x]
             k == [m EXCEPT !.snapshot = y]
  <2>1. m = EntryRow(x, b, c, d)
    BY <1>1, RowWith
  <2>2. [r EXCEPT !.status = x, !.snapshot = y, !.version = @ + 1] = [k EXCEPT !.version = d + 1]
    BY <1>2
  <2> HIDE DEF m
  <2>3. k = EntryRow(x, b, y, d)
    BY <2>1, RowWith
  <2> HIDE DEF k
  <2> QED BY <2>2, <2>3, RowWith
<1>6. \A x : [r EXCEPT !.status = x] = EntryRow(x, b, c, d)
  BY <1>1, RowWith
<1> QED BY <1>2, <1>3, <1>4, <1>5, <1>6, Zenon

LEMMA RowIsEntry ==
  \A e \in Stored : \A a \in {"draft", "published", "gone"}, b \in Docs(e),
     c \in Docs(e) \cup {NoSnapshot}, d \in Nat :
       /\ EntryRow(a, b, c, d) \in Entries(e)
       /\ EntryRow(a, b, c, d).status = a /\ EntryRow(a, b, c, d).snapshot = c
       /\ EntryRow(a, b, c, d).version = d
BY DEF EntryRow, Entries

Writes(e) ==
  \/ \E f \in DOMAIN TargetKind : \E ids \in SUBSET EntriesOf[TargetKind[f]] : Retarget(e, f, ids)
  \/ PublishRead(e) \/ TakeDown(e) \/ Discard(e)

LEMMA WritesKeepStore ==
  ASSUME StoreInv, NEW e \in Stored, Writes(e)
  PROVE  StoreInv' /\ Watched /\ UNCHANGED roleLists
<1>0. /\ store[e].status \in {"draft", "published", "gone"} /\ store[e].working \in Docs(e)
      /\ store[e].snapshot \in Docs(e) \cup {NoSnapshot}
      /\ store[e].version \in 2 .. (edits + 2) /\ store[e].version \in Nat
      /\ store[e] \in Entries(e) /\ edits \in Nat
      /\ store[e].status = "published" => store[e].snapshot # NoSnapshot
  BY EntryParts DEF StoreInv
<1>1. ASSUME NEW f \in DOMAIN TargetKind, NEW ids \in SUBSET EntriesOf[TargetKind[f]], Retarget(e, f, ids)
      PROVE  StoreInv' /\ Watched /\ UNCHANGED roleLists
  <2> DEFINE r == [store[e] EXCEPT !.working[f] = ids, !.version = @ + 1]
  <2>1. Edit(e, r)
    BY <1>1 DEF Retarget
  <2>2. ids \in SUBSET Stored
    BY Kinds
  <2>3. [store[e].working EXCEPT ![f] = ids] \in Docs(e)
    BY <1>0, <2>2 DEF Docs
  <2> DEFINE ref == [store[e].working EXCEPT ![f] = ids]
             q == EntryRow(store[e].status, ref, store[e].snapshot, store[e].version + 1)
  <2>a. r = [store[e] EXCEPT !.working = ref, !.version = @ + 1]
    BY <1>0 DEF Entries
  <2>b. r = q
    BY <1>0, <2>a, EntryIs, Zenon
  <2>c. /\ q \in Entries(e) /\ q.version = store[e].version + 1 /\ q.status = store[e].status
        /\ q.snapshot = store[e].snapshot
    <3>1. PICK v, g : v = store[e].version + 1 /\ v \in Nat /\ g = ref /\ g \in Docs(e)
      BY <1>0, <2>3
    <3>2. PICK a, c : a = store[e].status /\ c = store[e].snapshot
      OBVIOUS
    <3>3. /\ EntryRow(a, g, c, v) \in Entries(e) /\ EntryRow(a, g, c, v).version = v
          /\ EntryRow(a, g, c, v).status = a /\ EntryRow(a, g, c, v).snapshot = c
      BY <1>0, <3>1, <3>2 DEF EntryRow, Entries
    <3> QED BY <3>1, <3>2, <3>3, Zenon
  <2> HIDE DEF r, q
  <2>4. /\ r \in Entries(e) /\ r.version = store[e].version + 1 /\ r.status = store[e].status
        /\ r.snapshot = store[e].snapshot
    BY <2>b, <2>c
  <2>5. r.version \in 2 .. (edits + 3)
    BY <1>0, <2>4
  <2> HIDE DEF r
  <2> QED BY <1>0, <2>1, <2>4, <2>5, EntryKept DEF Edit
<1>2. ASSUME PublishRead(e) PROVE StoreInv' /\ Watched /\ UNCHANGED roleLists
  <2> DEFINE r == [store[e] EXCEPT !.status = "published", !.snapshot = store[e].working,
                                   !.version = @ + 1]
  <2>1. Edit(e, r)
    BY <1>2 DEF PublishRead
  <2> DEFINE q == EntryRow("published", store[e].working, store[e].working, store[e].version + 1)
  <2>a. r = q
    BY <1>0, EntryIs, Zenon
  <2>b. /\ q \in Entries(e) /\ q.version = store[e].version + 1 /\ q.snapshot = store[e].working
    BY <1>0, RowIsEntry
  <2> HIDE DEF r, q
  <2>2. /\ r \in Entries(e) /\ r.version = store[e].version + 1 /\ r.snapshot = store[e].working
    BY <2>a, <2>b
  <2>3. r.version \in 2 .. (edits + 3)
    BY <1>0, <2>2
  <2>4. r.snapshot # NoSnapshot
    BY <1>0, <2>2, DocForm
  <2> HIDE DEF r
  <2> QED BY <2>1, <2>2, <2>3, <2>4, EntryKept DEF Edit
<1>3. ASSUME TakeDown(e) PROVE StoreInv' /\ Watched /\ UNCHANGED roleLists
  <2> DEFINE r == [store[e] EXCEPT !.status = "draft", !.version = @ + 1]
  <2>1. Edit(e, r)
    BY <1>3 DEF TakeDown
  <2> DEFINE q == EntryRow("draft", store[e].working, store[e].snapshot, store[e].version + 1)
  <2>a. r = q
    BY <1>0, EntryIs, Zenon
  <2>b. q \in Entries(e) /\ q.version = store[e].version + 1 /\ q.status = "draft"
    <3>0. store[e].version + 1 \in Nat
      BY <1>0
    <3>1. PICK v : v = store[e].version + 1 /\ v \in Nat
      BY <3>0, Zenon
    <3>2. PICK g, c : g = store[e].working /\ c = store[e].snapshot
      OBVIOUS
    <3>3. /\ EntryRow("draft", g, c, v) \in Entries(e) /\ EntryRow("draft", g, c, v).version = v
          /\ EntryRow("draft", g, c, v).status = "draft"
      BY <1>0, <3>1, <3>2 DEF EntryRow, Entries
    <3> QED BY <3>1, <3>2, <3>3, Zenon
  <2> HIDE DEF r, q
  <2>2. r \in Entries(e) /\ r.version = store[e].version + 1 /\ r.status = "draft"
    BY <2>a, <2>b
  <2>3. r.version \in 2 .. (edits + 3)
    BY <1>0, <2>2
  <2> HIDE DEF r
  <2> QED BY <2>1, <2>2, <2>3, EntryKept DEF Edit
<1>4. ASSUME Discard(e) PROVE StoreInv' /\ Watched /\ UNCHANGED roleLists
  <2> DEFINE r == [store[e] EXCEPT !.status = "gone"]
  <2>1. Edit(e, r)
    BY <1>4 DEF Discard
  <2> DEFINE q == EntryRow("gone", store[e].working, store[e].snapshot, store[e].version)
  <2>a. r = q
    BY <1>0, EntryIs, Zenon
  <2>b. q \in Entries(e) /\ q.version = store[e].version /\ q.status = "gone"
    BY <1>0, RowIsEntry
  <2> HIDE DEF r, q
  <2>2. r \in Entries(e) /\ r.version = store[e].version /\ r.status = "gone"
    BY <2>a, <2>b
  <2>3. r.version \in 2 .. (edits + 3)
    BY <1>0, <2>2
  <2> HIDE DEF r
  <2> QED BY <2>1, <2>2, <2>3, EntryKept DEF Edit
<1> QED BY <1>1, <1>2, <1>3, <1>4 DEF Writes

(* A request of which only the rest has changed.                           *)
SameAnswer(r, q) ==
  /\ q.who = r.who /\ q.kind = r.kind /\ q.paths = r.paths /\ q.root = r.root /\ q.todo = r.todo
  /\ q.levels = r.levels /\ q.shown = r.shown /\ q.seen = r.seen
  /\ r.could \subseteq q.could /\ r.could_not \subseteq q.could_not

LEMMA AnswerKept ==
  ASSUME NEW r, NEW q, SameAnswer(r, q), AnswerOk(r)
  PROVE  AnswerOk(q) /\ (TodoOk(r) => TodoOk(q))
<1>1. \A at : Stands(q, at) = Stands(r, at)
  BY DEF SameAnswer, Stands
<1>2. RootOk(q)
  BY DEF SameAnswer, AnswerOk, RootOk, RowOk
<1>3. \A n \in q.shown : NodeOk(q, n)
  <2>1. \A n \in r.shown : NodeOk(r, n) => NodeOk(q, n)
    BY <1>1 DEF NodeOk, SameAnswer, RowOk
  <2> QED BY <2>1 DEF SameAnswer, AnswerOk
<1>4. \A l : LevelOk(r, l) => LevelOk(q, l)
  BY <1>1 DEF LevelOk, Hangs, SameAnswer
<1>5. \A l : Answered(r, l) => Answered(q, l)
  BY DEF Answered, SameAnswer
<1>6. LevelsOk(q)
  BY <1>4, <1>5 DEF LevelsOk, SameAnswer, AnswerOk
<1>7. TodoOk(r) => TodoOk(q)
  BY <1>4 DEF TodoOk, SameAnswer
<1>8. Cardinality(q.seen) <= MaxTargets
  BY DEF SameAnswer, AnswerOk
<1> QED BY <1>2, <1>3, <1>6, <1>7, <1>8 DEF AnswerOk


-----------------------------------------------------------------------------
(* The request: what it keeps when the walk writes some of it.             *)
LEMMA RequestParts ==
  ASSUME NEW r \in ReadRequests
  PROVE  /\ r.who \in Readers /\ r.kind \in {"article", "profile"} /\ r.id \in Stored
         /\ r.paths \in Populates /\ r.root \in RowForms /\ r.todo \in Seq(LevelForms)
         /\ r.levels \in SUBSET LevelForms /\ r.shown \in SUBSET NodeForms
         /\ r.seen \in SUBSET Stored /\ r.could \in SUBSET (Stored \X DocForms)
         /\ r.could_not \in SUBSET Stored
BY DEF ReadRequests

LEMMA StageSet ==
  ASSUME NEW r \in ReadRequests, NEW x \in {"rows", "group", "walk", "answered"}
  PROVE  /\ [r EXCEPT !.stage = x] \in ReadRequests /\ [r EXCEPT !.stage = x].stage = x
         /\ SameAnswer([r EXCEPT !.stage = x], r) /\ SameAnswer(r, [r EXCEPT !.stage = x])
<1> DEFINE q == [r EXCEPT !.stage = x]
<1>1. q \in ReadRequests /\ q.stage = x
  BY DEF ReadRequests
<1>2. /\ q.who = r.who /\ q.kind = r.kind /\ q.paths = r.paths /\ q.root = r.root
      /\ q.todo = r.todo /\ q.levels = r.levels /\ q.shown = r.shown /\ q.seen = r.seen
      /\ q.could = r.could /\ q.could_not = r.could_not
  BY DEF ReadRequests
<1> HIDE DEF q
<1>3. SameAnswer(q, r) /\ SameAnswer(r, q)
  BY <1>2 DEF SameAnswer
<1> QED BY <1>1, <1>3 DEF q

LEMMA Widened ==
  ASSUME NEW r \in ReadRequests, NEW a \in SUBSET (Stored \X DocForms), NEW b \in SUBSET Stored
  PROVE  LET q == [r EXCEPT !.could = @ \cup a, !.could_not = @ \cup b]
         IN  /\ q \in ReadRequests /\ q.stage = r.stage /\ SameAnswer(r, q)
             /\ a \subseteq q.could /\ b \subseteq q.could_not
<1> DEFINE m == [r EXCEPT !.could = r.could \cup a]
           q == [m EXCEPT !.could_not = m.could_not \cup b]
<1>1. m \in ReadRequests /\ m.could = r.could \cup a
  BY DEF ReadRequests
<1>2. /\ m.stage = r.stage /\ m.who = r.who /\ m.kind = r.kind /\ m.paths = r.paths
      /\ m.root = r.root /\ m.todo = r.todo /\ m.levels = r.levels /\ m.shown = r.shown
      /\ m.seen = r.seen /\ m.could_not = r.could_not
  BY DEF ReadRequests
<1>3. [r EXCEPT !.could = @ \cup a, !.could_not = @ \cup b] = q
  BY DEF ReadRequests
<1> HIDE DEF m
<1>4. q \in ReadRequests /\ q.could_not = m.could_not \cup b
  BY <1>1 DEF ReadRequests
<1>5. /\ q.stage = m.stage /\ q.who = m.who /\ q.kind = m.kind /\ q.paths = m.paths
      /\ q.root = m.root /\ q.todo = m.todo /\ q.levels = m.levels /\ q.shown = m.shown
      /\ q.seen = m.seen /\ q.could = m.could
  BY <1>1 DEF ReadRequests
<1> HIDE DEF q
<1>6. SameAnswer(r, q)
  BY <1>1, <1>2, <1>4, <1>5 DEF SameAnswer
<1> QED BY <1>1, <1>2, <1>3, <1>4, <1>5, <1>6

RootedAs(r, x, copies, todo) == [r EXCEPT !.stage = x, !.root = copies, !.todo = todo]

LEMMA Rooted ==
  ASSUME NEW r \in ReadRequests, NEW x \in {"walk", "answered"}, NEW copies \in RowForms,
         NEW todo \in Seq(LevelForms),
         NEW q, q = RootedAs(r, x, copies, todo)
  PROVE  /\ q \in ReadRequests /\ q.stage = x /\ q.root = copies /\ q.todo = todo
         /\ q.who = r.who /\ q.kind = r.kind /\ q.paths = r.paths /\ q.levels = r.levels
         /\ q.shown = r.shown /\ q.seen = r.seen /\ q.could = r.could
         /\ q.could_not = r.could_not
<1>1. q \in ReadRequests
  BY DEF ReadRequests, RootedAs
<1>2. /\ q.stage = x /\ q.root = copies /\ q.todo = todo
      /\ q.who = r.who /\ q.kind = r.kind /\ q.paths = r.paths /\ q.levels = r.levels
      /\ q.shown = r.shown /\ q.seen = r.seen /\ q.could = r.could
      /\ q.could_not = r.could_not
  BY DEF ReadRequests, RootedAs
<1> QED BY <1>1, <1>2

WalkedAs(r, seen, shown, levels, todo) ==
  [r EXCEPT !.seen = seen, !.shown = shown, !.levels = levels, !.todo = todo]

LEMMA Walked ==
  ASSUME NEW r \in ReadRequests, NEW seen \in SUBSET Stored, NEW shown \in SUBSET NodeForms,
         NEW levels \in SUBSET LevelForms, NEW todo \in Seq(LevelForms),
         NEW q, q = WalkedAs(r, seen, shown, levels, todo)
  PROVE  /\ q \in ReadRequests /\ q.seen = seen /\ q.shown = shown /\ q.levels = levels
         /\ q.todo = todo /\ q.stage = r.stage /\ q.who = r.who /\ q.kind = r.kind
         /\ q.paths = r.paths /\ q.root = r.root /\ q.could = r.could
         /\ q.could_not = r.could_not
<1>1. q \in ReadRequests
  BY DEF ReadRequests, WalkedAs
<1>2. /\ q.seen = seen /\ q.shown = shown /\ q.levels = levels
      /\ q.todo = todo /\ q.stage = r.stage /\ q.who = r.who /\ q.kind = r.kind
      /\ q.paths = r.paths /\ q.root = r.root /\ q.could = r.could
      /\ q.could_not = r.could_not
  BY DEF ReadRequests, WalkedAs
<1> QED BY <1>1, <1>2


-----------------------------------------------------------------------------
(* What the writers leave of a request.                                    *)
LEMMA ListsKept ==
  ASSUME ListsAdmit, UNCHANGED <<roleLists, reading>>
  PROVE  ListsAdmit'
BY DEF ListsAdmit, TypeOpen, FieldOpen, Expandable

LEMMA ListsFollow ==
  ASSUME ListsAdmit, UNCHANGED roleLists, SameAnswer(reading, reading')
  PROVE  ListsAdmit'
BY DEF ListsAdmit, TypeOpen, FieldOpen, Expandable, SameAnswer

LEMMA WatchKept ==
  ASSUME Watches, UNCHANGED <<roleLists, store>>, reading'.who = reading.who,
         reading'.could = reading.could, reading'.could_not = reading.could_not
  PROVE  Watches'
BY DEF Watches, Watch, CanBeServed, CopyFor, Kept, Mine, OwnOnly, IsPublished

LEMMA RequestKept ==
  ASSUME ReadsInv, StoreInv', UNCHANGED <<roleLists, reading>>,
         reading.stage \in Under => UNCHANGED store
  PROVE  ReadsInv'
<1>1. reading.stage \in Full => (reading \in ReadRequests /\ ListsAdmit)'
  BY ListsKept DEF ReadsInv
<1>2. reading.stage \in Under => Watches'
  BY WatchKept DEF ReadsInv
<1> QED BY <1>1, <1>2 DEF ReadsInv

LEMMA WritesKeepReads ==
  ASSUME ReadsInv, NEW e \in Stored, Writes(e)
  PROVE  ReadsInv'
<1>1. StoreInv' /\ Watched /\ UNCHANGED roleLists
  BY WritesKeepStore DEF ReadsInv
<1>2. CASE reading.stage \notin Under
  BY <1>1, <1>2, RequestKept DEF Watched, Under
<1>3. CASE reading.stage \in Under
  <2> PICK s : s = reading.who
    OBVIOUS
  <2> DEFINE a == Watch(s)'.could
             b == Watch(s)'.could_not
             q == [reading EXCEPT !.could = @ \cup a, !.could_not = @ \cup b]
  <2>1. reading' = q
    BY <1>1, <1>3 DEF Watched, Under
  <2>2. a \in SUBSET (Stored \X DocForms) /\ b \in SUBSET Stored
    BY <1>1, WatchNext
  <2>3. reading \in ReadRequests /\ ListsAdmit
    BY <1>3 DEF ReadsInv, Full
  <2> HIDE DEF a, b
  <2>4. /\ q \in ReadRequests /\ q.stage = reading.stage /\ SameAnswer(reading, q)
        /\ a \subseteq q.could /\ b \subseteq q.could_not
    BY <2>2, <2>3, Widened
  <2> HIDE DEF q
  <2>5. ListsAdmit'
    BY <1>1, <2>1, <2>3, <2>4, ListsFollow
  <2>6. Watches'
    <3>1. reading'.who = s
      BY <2>1, <2>4 DEF SameAnswer
    <3> QED BY <2>1, <2>4, <3>1 DEF Watches, a, b
  <2>7. reading'.stage \in {"rows", "group"} =>
          reading'.levels = {} /\ reading'.shown = {} /\ reading'.seen = {}
    BY <2>1, <2>4 DEF SameAnswer, ReadsInv
  <2>8. reading'.stage = "walk" => AnswerOk(reading') /\ TodoOk(reading')
    BY <2>1, <2>4, AnswerKept DEF ReadsInv
  <2> QED BY <1>1, <1>3, <2>1, <2>4, <2>5, <2>6, <2>7, <2>8 DEF ReadsInv, Under, Full
<1> QED BY <1>2, <1>3

LEMMA SendBackKeepsReads ==
  ASSUME ReadsInv, NEW e \in Stored, SendBack(e)
  PROVE  ReadsInv'
<1>1. /\ edits' = edits + 1 /\ edits' \in 0 .. MaxEdits /\ edits \in Nat /\ MaxEdits \in Nat
      /\ decided' = [decided EXCEPT ![e] = store[e].version]
      /\ UNCHANGED <<roleLists, store, reading>>
  BY ReadsAssumption DEF SendBack, ReadsInv, StoreInv
<1>2. store[e].version \in 2 .. (edits + 2)
  BY DEF ReadsInv, StoreInv
<1>3. store[e].version \in 0 .. (MaxEdits + 2)
  BY <1>1, <1>2
<1>4. decided' \in [Stored -> 0 .. (MaxEdits + 2)]
  BY <1>1, <1>3 DEF ReadsInv, StoreInv
<1>5. \A x \in Stored : store[x].version \in 2 .. (edits' + 2)
  BY <1>1 DEF ReadsInv, StoreInv
<1>6. StoreInv'
  BY <1>1, <1>4, <1>5 DEF ReadsInv, StoreInv
<1> QED BY <1>1, <1>6, RequestKept


-----------------------------------------------------------------------------
(* The request begins, and its rows are read.                              *)
LEMMA ReadsStart == ReadsInit => ReadsInv
<1> SUFFICES ASSUME ReadsInit PROVE ReadsInv
  OBVIOUS
<1>1. PICK w \in Worlds, drafts \in SUBSET Stored :
        store = [e \in Stored |->
                   [status |-> IF e \in drafts THEN "draft" ELSE "published",
                    working |-> w[e],
                    snapshot |-> IF e \in drafts THEN NoSnapshot ELSE w[e], version |-> 2]]
  BY DEF ReadsInit
<1>2. ASSUME NEW e \in Stored
      PROVE  /\ store[e] \in Entries(e) /\ store[e].version = 2
             /\ store[e].status = "published" => store[e].snapshot # NoSnapshot
  <2>1. w[e] \in Docs(e) /\ w[e] # NoSnapshot
    BY ReadsAssumption, DocForm
  <2>2. CASE e \in drafts
    <3>1. store[e] = [status |-> "draft", working |-> w[e], snapshot |-> NoSnapshot, version |-> 2]
      BY <1>1, <2>2
    <3> QED BY <2>1, <3>1 DEF Entries
  <2>3. CASE e \notin drafts
    <3>1. store[e] = [status |-> "published", working |-> w[e], snapshot |-> w[e], version |-> 2]
      BY <1>1, <2>3
    <3> QED BY <2>1, <3>1 DEF Entries
  <2> QED BY <2>2, <2>3
<1>3. roleLists \in Lists /\ DOMAIN store = Stored /\ edits = 0
  BY <1>1 DEF ReadsInit
<1>4. decided \in [Stored -> 0 .. (MaxEdits + 2)] /\ edits \in 0 .. MaxEdits
  BY ReadsAssumption DEF ReadsInit
<1>5. StoreInv
  BY <1>2, <1>3, <1>4 DEF StoreInv
<1>6. reading.stage = "idle"
  BY DEF ReadsInit, Unasked
<1> QED BY <1>5, <1>6 DEF ReadsInv, Full, Under

LEMMA StoreStays ==
  ASSUME StoreInv, UNCHANGED <<roleLists, store, decided, edits>>
  PROVE  StoreInv'
BY DEF StoreInv

LEMMA RefusalKeepsReads ==
  ASSUME ReadsInv, UNCHANGED <<roleLists, store, decided, edits>>, reading' = [stage |-> "refused"]
  PROVE  ReadsInv'
BY StoreStays DEF ReadsInv, Full, Under

LEMMA AskKeepsReads ==
  ASSUME ReadsInv, NEW s \in Readers, NEW road \in {"get", "list", "translations"},
         NEW e \in Stored, NEW paths \in Populates, AskRead(s, road, KindOf(e), e, paths)
  PROVE  ReadsInv'
<1>1. UNCHANGED <<roleLists, store, decided, edits>>
  BY DEF AskRead
<1>2. CASE ~Admitted(s, road, KindOf(e), paths)
  BY <1>1, <1>2, RefusalKeepsReads DEF AskRead
<1>3. CASE Admitted(s, road, KindOf(e), paths)
  <2> DEFINE a == Watch(s).could
             b == Watch(s).could_not
             t == KindOf(e)
             q == [stage |-> "rows", who |-> s, road |-> road, kind |-> t, id |-> e,
                   paths |-> paths, root |-> <<>>, todo |-> <<>>, levels |-> {},
                   shown |-> {}, seen |-> {}, could |-> a, could_not |-> b]
  <2>1. reading' = q
    BY <1>3 DEF AskRead
  <2>2. a \in SUBSET (Stored \X DocForms) /\ b \in SUBSET Stored
    BY WatchForm DEF ReadsInv
  <2>3. t \in {"article", "profile"}
    BY Kinds
  <2>4. <<>> \in RowForms /\ <<>> \in Seq(LevelForms)
    <3>1. <<>> \in [{} -> DocForms]
      OBVIOUS
    <3>2. {} \in SUBSET Stored
      OBVIOUS
    <3>3. <<>> \in RowForms
      BY <3>1, <3>2, Zenon DEF RowForms
    <3> QED BY <3>3
  <2>5. TypeOpen(s, t) /\ \A p \in paths : Expandable(s, t, p)
    BY <1>3 DEF Admitted
  <2> HIDE DEF a, b, t
  <2>6. q \in ReadRequests
    BY <2>2, <2>3, <2>4 DEF ReadRequests
  <2>7. /\ q.stage = "rows" /\ q.who = s /\ q.kind = t /\ q.paths = paths /\ q.levels = {}
        /\ q.shown = {} /\ q.seen = {} /\ q.could = a /\ q.could_not = b
    OBVIOUS
  <2> HIDE DEF q
  <2>8. ListsAdmit'
    BY <1>1, <2>1, <2>5, <2>7 DEF ListsAdmit, TypeOpen, FieldOpen, Expandable
  <2>9. Watches'
    BY <1>1, <2>1, <2>7 DEF Watches, Watch, CanBeServed, CopyFor, Kept, Mine, OwnOnly, IsPublished, a, b
  <2> QED BY <1>1, <2>1, <2>6, <2>7, <2>8, <2>9, StoreStays DEF ReadsInv, Full, Under
<1> QED BY <1>2, <1>3

LEMMA WithRootKeepsReads ==
  ASSUME ReadsInv, reading.stage \in {"rows", "group"}, NEW ids \in SUBSET Stored,
         \A e \in ids : CanBeServed(reading.who, e) /\ KindOf(e) = reading.kind,
         UNCHANGED <<roleLists, store, decided, edits>>, reading' = WithRoot(ids)
  PROVE  ReadsInv'
<1> DEFINE copies == CopiesFor(reading.who, ids)
           x == IF ids = {} \/ reading.paths = {} THEN "answered" ELSE "walk"
           l == Level(<<>>, copies, {})
           q == [reading EXCEPT !.stage = x, !.root = copies, !.todo = <<l>>]
<1>0. reading \in ReadRequests /\ ListsAdmit /\ Watches /\ StoreInv
  BY DEF ReadsInv, Full, Under
<1>1. reading' = q
  BY DEF WithRoot
<1>2. DOMAIN copies = ids /\ \A e \in ids : copies[e] = CopyFor(reading.who, e)
  BY DEF CopiesFor
<1>3. \A e \in ids : /\ copies[e] \in Docs(e) /\ <<e, copies[e]>> \in reading.could
                     /\ KindOf(e) = reading.kind
  BY <1>0, <1>2, Served DEF Watches
<1>4. copies = [e \in ids |-> copies[e]]
  BY DEF CopiesFor
<1> HIDE DEF copies
<1>5. copies \in RowForms
  BY <1>2, <1>3, <1>4, RowForm
<1>6. l.at = <<>> /\ l.rows = copies /\ l.path = {}
  BY DEF Level
<1>7. l \in LevelForms
  <2>1. <<>> \in Seq(RelationFields)
    OBVIOUS
  <2> QED BY <1>5, <2>1 DEF Level, LevelForms
<1>8. x \in {"walk", "answered"} /\ (x = "walk" => ids # {})
  OBVIOUS
<1> HIDE DEF l, x
<1>9. <<l>> \in Seq(LevelForms) /\ Len(<<l>>) = 1 /\ <<l>>[1] = l
  BY <1>7
<1>a. q = RootedAs(reading, x, copies, <<l>>)
  BY DEF RootedAs
<1> HIDE DEF q
<1>10. /\ q \in ReadRequests /\ q.stage = x /\ q.root = copies /\ q.todo = <<l>>
       /\ q.who = reading.who /\ q.kind = reading.kind /\ q.paths = reading.paths
       /\ q.levels = reading.levels /\ q.shown = reading.shown /\ q.seen = reading.seen
       /\ q.could = reading.could /\ q.could_not = reading.could_not
  <2>1. PICK todo \in Seq(LevelForms) : todo = <<l>>
    BY <1>9
  <2>2. /\ reading \in ReadRequests /\ copies \in RowForms /\ x \in {"walk", "answered"}
        /\ q = RootedAs(reading, x, copies, todo)
    BY <1>0, <1>5, <1>8, <1>a, <2>1
  <2>3. /\ q \in ReadRequests /\ q.stage = x /\ q.root = copies /\ q.todo = todo
        /\ q.who = reading.who /\ q.kind = reading.kind /\ q.paths = reading.paths
        /\ q.levels = reading.levels /\ q.shown = reading.shown /\ q.seen = reading.seen
        /\ q.could = reading.could /\ q.could_not = reading.could_not
    BY <2>2, Rooted
  <2> QED BY <2>1, <2>3
<1>11. q.levels = {} /\ q.shown = {} /\ q.seen = {}
  BY <1>10 DEF ReadsInv
<1>12. ListsAdmit'
  BY <1>0, <1>1, <1>10, <1>11 DEF ListsAdmit, TypeOpen, FieldOpen, Expandable
<1>13. Watches'
  BY <1>0, <1>1, <1>10, WatchKept
<1>14. RootOk(q)
  BY <1>2, <1>3, <1>10 DEF RootOk, RowOk
<1>15. AnswerOk(q)
  <2>1. Cardinality(q.seen) <= MaxTargets
    BY <1>11, FS_EmptySet, ReadsAssumption
  <2> QED BY <1>11, <1>14, <2>1 DEF AnswerOk, LevelsOk
<1>16. x = "walk" => TodoOk(q)
  <2> SUFFICES ASSUME x = "walk" PROVE TodoOk(q)
    OBVIOUS
  <2>1. DOMAIN l.rows # {} /\ DOMAIN l.rows \cap l.path = {}
    BY <1>2, <1>6, <1>8
  <2>2. KindAt(q.kind, l.at) = reading.kind
    BY <1>6, <1>10 DEF KindAt
  <2>3. \A e \in DOMAIN l.rows : <<e, l.rows[e]>> \in Stands(q, l.at)
    BY <1>6, <1>10 DEF Stands
  <2>4. Hangs(q, l)
    <3>1. Len(l.at) = 0
      BY <1>6
    <3> QED BY <1>11, <3>1 DEF Hangs
  <2>5. LevelOk(q, l)
    BY <1>2, <1>3, <1>6, <2>1, <2>2, <2>3, <2>4 DEF LevelOk
  <2> QED BY <1>9, <1>10, <1>11, <2>5 DEF TodoOk
<1>17. StoreInv'
  BY <1>0, StoreStays
<1>18. /\ reading'.stage = x /\ reading' \in ReadRequests
       /\ AnswerOk(reading') /\ (x = "walk" => TodoOk(reading'))
  BY <1>1, <1>10, <1>15, <1>16
<1> QED BY <1>8, <1>12, <1>13, <1>17, <1>18 DEF ReadsInv, Full, Under


(* A row that GET or a page shows can be served: a published entry has its *)
(* snapshot.                                                               *)
LEMMA GetServes ==
  ASSUME StoreInv, NEW s, NEW t \in {"article", "profile"}, NEW e \in Stored
  PROVE  /\ Gets(s, t, e) => CanBeServed(s, e) /\ KindOf(e) = t
         /\ e \in Listed(s, t) => CanBeServed(s, e) /\ KindOf(e) = t
<1>1. store[e].status = "published" => store[e].snapshot # NoSnapshot
  BY DEF StoreInv
<1>2. Gets(s, t, e) => CanBeServed(s, e) /\ KindOf(e) = t
  BY <1>1 DEF Gets, CanBeServed, IsPublished
<1>3. e \in EntriesOf[t] => KindOf(e) = t
  BY Kinds
<1>4. e \in Listed(s, t) => CanBeServed(s, e) /\ KindOf(e) = t
  BY <1>3 DEF Listed, CanBeServed, Mine
<1> QED BY <1>2, <1>4

LEMMA FetchKeepsReads ==
  ASSUME ReadsInv, FetchEntry \/ FetchPage \/ FetchSource \/ FetchGroup
  PROVE  ReadsInv'
<1>1. /\ UNCHANGED <<roleLists, store, decided, edits>>
      /\ reading.stage \in {"rows", "group"}
  BY DEF FetchEntry, FetchPage, FetchSource, FetchGroup
<1>2. reading \in ReadRequests /\ StoreInv
  BY <1>1 DEF ReadsInv, Full, Under
<1>3. reading.kind \in {"article", "profile"} /\ reading.id \in Stored
  BY <1>2, RequestParts
<1>4. Listed(reading.who, reading.kind) \subseteq Stored
  BY <1>3, Kinds DEF Listed
<1>5. CASE FetchEntry
  <2>1. CASE ~Gets(reading.who, reading.kind, reading.id)
    BY <1>1, <1>5, <2>1, RefusalKeepsReads DEF FetchEntry
  <2>2. CASE Gets(reading.who, reading.kind, reading.id)
    <3>1. reading' = WithRoot({reading.id})
      BY <1>5, <2>2 DEF FetchEntry
    <3>2. CanBeServed(reading.who, reading.id) /\ KindOf(reading.id) = reading.kind
      BY <1>2, <1>3, <2>2, GetServes
    <3>3. /\ {reading.id} \in SUBSET Stored
          /\ \A e \in {reading.id} : CanBeServed(reading.who, e) /\ KindOf(e) = reading.kind
      BY <1>3, <3>2
    <3> QED BY <1>1, <3>1, <3>3, WithRootKeepsReads
  <2> QED BY <2>1, <2>2
<1>6. CASE FetchPage
  <2>1. \A e \in Listed(reading.who, reading.kind) :
          CanBeServed(reading.who, e) /\ KindOf(e) = reading.kind
    BY <1>2, <1>3, <1>4, GetServes
  <2>2. reading' = WithRoot(Listed(reading.who, reading.kind))
    BY <1>6 DEF FetchPage
  <2> QED BY <1>1, <1>4, <2>1, <2>2, WithRootKeepsReads
<1>7. CASE FetchSource
  <2>1. CASE ~Gets(reading.who, reading.kind, reading.id)
    BY <1>1, <1>7, <2>1, RefusalKeepsReads DEF FetchSource
  <2>2. CASE Gets(reading.who, reading.kind, reading.id)
    <3> DEFINE q == [reading EXCEPT !.stage = "group"]
    <3>1. reading' = q
      BY <1>7, <2>2 DEF FetchSource
    <3>2. q \in ReadRequests /\ q.stage = "group" /\ SameAnswer(q, reading) /\ SameAnswer(reading, q)
      BY <1>2, StageSet
    <3> HIDE DEF q
    <3>3. ListsAdmit /\ Watches /\ reading.levels = {} /\ reading.shown = {} /\ reading.seen = {}
      BY <1>1 DEF ReadsInv, Full, Under
    <3>4. ListsAdmit'
      BY <1>1, <3>1, <3>2, <3>3, ListsFollow
    <3>5. Watches'
      <4>1. /\ reading'.who = reading.who /\ reading'.could = reading.could
            /\ reading'.could_not = reading.could_not
        BY <3>1, <3>2 DEF SameAnswer
      <4> QED BY <1>1, <3>3, <4>1, WatchKept
    <3>6. reading'.levels = {} /\ reading'.shown = {} /\ reading'.seen = {}
      BY <3>1, <3>2, <3>3 DEF SameAnswer
    <3>7. StoreInv'
      BY <1>1, <1>2, StoreStays
    <3> QED BY <3>1, <3>2, <3>4, <3>5, <3>6, <3>7 DEF ReadsInv, Full, Under
  <2> QED BY <2>1, <2>2
<1>8. CASE FetchGroup
  <2> DEFINE ids == {e \in Listed(reading.who, reading.kind) : GroupOf[e] = GroupOf[reading.id]}
  <2>1. /\ ids \in SUBSET Stored
        /\ \A e \in ids : CanBeServed(reading.who, e) /\ KindOf(e) = reading.kind
    BY <1>2, <1>3, <1>4, GetServes
  <2>2. reading' = WithRoot(ids)
    BY <1>8 DEF FetchGroup
  <2> HIDE DEF ids
  <2> QED BY <1>1, <2>1, <2>2, WithRootKeepsReads
<1> QED BY <1>5, <1>6, <1>7, <1>8

LEMMA FinishKeepsReads ==
  ASSUME ReadsInv, FinishRead
  PROVE  ReadsInv'
<1> DEFINE q == [reading EXCEPT !.stage = "answered"]
<1>1. /\ reading.stage = "walk" /\ reading' = q /\ UNCHANGED <<roleLists, store, decided, edits>>
  BY DEF FinishRead
<1>2. reading \in ReadRequests /\ StoreInv /\ ListsAdmit /\ AnswerOk(reading)
  BY <1>1 DEF ReadsInv, Full, Under
<1>3. q \in ReadRequests /\ q.stage = "answered" /\ SameAnswer(reading, q)
  BY <1>2, StageSet
<1> HIDE DEF q
<1>4. ListsAdmit'
  BY <1>1, <1>2, <1>3, ListsFollow
<1>5. AnswerOk(q)
  BY <1>2, <1>3, AnswerKept
<1>6. StoreInv'
  BY <1>1, <1>2, StoreStays
<1> QED BY <1>1, <1>3, <1>4, <1>5, <1>6 DEF ReadsInv, Full, Under


-----------------------------------------------------------------------------
(* A level of the walk: its parts, named.                                  *)
RenderedOf(r, l, f, e) ==
  {x \in Fetched(r.who, NewIds(r, l)) \cap Refs(e, l.rows[e], f) : Rendered(r.who, f, x)}
NewNodes(r, l) == UNION {NodesOf(r, l, f) : f \in FieldsAt(r.paths, l.at)}

LEMMA NodesAre ==
  ASSUME NEW r, NEW l, NEW f, NEW n
  PROVE  n \in NodesOf(r, l, f) <=>
           \E e \in DOMAIN l.rows : \E x \in RenderedOf(r, l, f, e) : n = NodeAt(r, l, f, e, x)
BY DEF NodesOf, RenderedOf

(* A field below a place is one the path may name there.                   *)
LEMMA FieldBelow ==
  ASSUME NEW r \in ReadRequests, \A p \in r.paths : Expandable(r.who, r.kind, p),
         NEW at \in Seq(RelationFields), NEW f \in FieldsAt(r.paths, at)
  PROVE  /\ f \in RelationsOf[KindAt(r.kind, at)] /\ f \in RelationFields
         /\ FieldOpen(r.who, f) /\ TypeOpen(r.who, TargetKind[f])
<1>1. PICK p \in r.paths : Len(p) > Len(at) /\ IsPrefix(at, p) /\ f = p[Len(at) + 1]
  BY DEF FieldsAt
<1>2. p \in Seq(STRING)
  BY RequestParts, ReadsAssumption
<1>3. Len(at) + 1 \in 1 .. Len(p) /\ SubSeq(p, 1, Len(at)) = at
  BY <1>1, <1>2, PathStep
<1>4. Len(at) \in Nat /\ (Len(at) + 1) - 1 = Len(at)
  BY LenProperties
<1>5. /\ p[Len(at) + 1] \in RelationsOf[KindAt(r.kind, SubSeq(p, 1, (Len(at) + 1) - 1))]
      /\ FieldOpen(r.who, p[Len(at) + 1]) /\ TypeOpen(r.who, TargetKind[p[Len(at) + 1]])
  BY <1>1, <1>3 DEF Expandable
<1>6. KindAt(r.kind, at) \in {"article", "profile"}
  <2>1. CASE at = <<>>
    BY <2>1, RequestParts DEF KindAt
  <2>2. CASE at # <<>>
    <3>1. Len(at) \in 1 .. Len(at)
      BY <2>2, LenProperties, EmptySeq
    <3>2. Last(at) \in RelationFields
      BY <3>1 DEF Last
    <3> QED BY <2>2, <3>2, Kinds DEF KindAt
  <2> QED BY <2>1, <2>2
<1> QED BY <1>1, <1>3, <1>4, <1>5, <1>6, Kinds

(* The nodes of a level: each is named by its parent and could be served.  *)
LEMMA NodeFound ==
  ASSUME StoreInv, NEW r \in ReadRequests, Watch(r.who).could \subseteq r.could,
         NEW l \in LevelForms, LevelOk(r, l), NEW f \in RelationFields,
         f \in RelationsOf[KindAt(r.kind, l.at)], NEW n \in NodesOf(r, l, f)
  PROVE  /\ n.at = Append(l.at, f) /\ n.parent \in DOMAIN l.rows
         /\ n.id \in l.rows[n.parent][f] /\ KindOf(n.id) = TargetKind[f]
         /\ n.doc = CopyFor(r.who, n.id) /\ RowOk(r, n.id, n.doc) /\ n \in NodeForms
<1>0. PICK e \in DOMAIN l.rows : \E x \in RenderedOf(r, l, f, e) : n = NodeAt(r, l, f, e, x)
  BY NodesAre
<1>1. PICK x \in RenderedOf(r, l, f, e) : n = NodeAt(r, l, f, e, x)
  BY <1>0
<1>a. /\ x \in Fetched(r.who, NewIds(r, l)) /\ x \in Refs(e, l.rows[e], f)
      /\ Rendered(r.who, f, x)
  BY DEF RenderedOf
<1>2. n.at = Append(l.at, f) /\ n.parent = e /\ n.id = x /\ n.doc = CopyFor(r.who, x)
  BY <1>1 DEF NodeAt
<1>3. e \in Stored /\ KindOf(e) = KindAt(r.kind, l.at) /\ l.rows[e] \in Docs(e)
  BY <1>1 DEF LevelOk
<1>4. x \in l.rows[e][f]
  BY <1>a DEF Refs
<1>5. x \in Stored
  BY <1>3, <1>4, DocForm
<1>6. CanBeServed(r.who, x) /\ KindOf(x) = TargetKind[f]
  BY <1>a DEF Fetched, Rendered, CanBeServed
<1>7. CopyFor(r.who, x) \in Docs(x) /\ <<x, CopyFor(r.who, x)>> \in r.could
  BY <1>5, <1>6, Served
<1>8. n \in NodeForms
  <2>1. Append(l.at, f) \in Seq(RelationFields)
    BY PlaceBelow DEF LevelForms
  <2>2. CopyFor(r.who, x) \in DocForms
    BY <1>5, <1>7, DocForm
  <2> QED BY <1>1, <1>3, <1>5, <2>1, <2>2 DEF NodeForms, NodeAt
<1> QED BY <1>1, <1>2, <1>4, <1>5, <1>6, <1>7, <1>8 DEF RowOk

(* A target that stood all along has its node.                             *)
LEMMA NodeThere ==
  ASSUME NEW r, Watch(r.who).could_not \subseteq r.could_not, NEW l, NEW f \in FieldsAt(r.paths, l.at),
         NEW e \in DOMAIN l.rows, NEW x \in l.rows[e][f], x \in Stored, x \notin r.could_not,
         KindOf(x) = TargetKind[f]
  PROVE  \E n \in NodesOf(r, l, f) : n.at = Append(l.at, f) /\ n.parent = e /\ n.id = x
<1>1. CanBeServed(r.who, x)
  BY DEF Watch
<1>2. x \in Fetched(r.who, NewIds(r, l)) /\ Rendered(r.who, f, x)
  BY <1>1 DEF NewIds, Refs, Fetched, Rendered, CanBeServed
<1>3. x \in RenderedOf(r, l, f, e)
  BY <1>2 DEF Refs, RenderedOf
<1>4. NodeAt(r, l, f, e, x) \in NodesOf(r, l, f)
  BY <1>3, NodesAre, Zenon
<1>5. /\ NodeAt(r, l, f, e, x).at = Append(l.at, f) /\ NodeAt(r, l, f, e, x).parent = e
      /\ NodeAt(r, l, f, e, x).id = x
  BY DEF NodeAt
<1> QED BY <1>4, <1>5


-----------------------------------------------------------------------------
(* What a step of the walk leaves of the levels that hung.                 *)
LEMMA PrefixBelow ==
  ASSUME NEW a \in Seq(RelationFields), NEW b \in Seq(RelationFields), NEW f \in RelationFields,
         IsPrefix(a, Append(b, f)), a # Append(b, f)
  PROVE  IsPrefix(a, b)
<1>1. PICK c \in Seq(RelationFields) : c = Append(b, f)
  BY PlaceBelow
<1>2. /\ Len(c) = Len(b) + 1 /\ Len(b) \in Nat
      /\ \A k \in 0 .. Len(b) : SubSeq(c, 1, k) = SubSeq(b, 1, k)
  BY <1>1, PlaceBelow
<1>3. Len(a) \in Nat /\ a = SubSeq(c, 1, Len(a)) /\ Len(a) < Len(c)
  BY <1>1, PrefixIs
<1>4. SubSeq(a, 1, Len(a)) = a
  OBVIOUS
<1>5. Len(a) \in 0 .. Len(b) /\ Len(a) <= Len(b)
  <2>1. PICK i, j, k : i = Len(a) /\ j = Len(b) /\ k = Len(c)
    OBVIOUS
  <2>2. i \in Nat /\ j \in Nat /\ i < k /\ k = j + 1
    BY <1>2, <1>3, <2>1, Zenon
  <2>3. i \in 0 .. j /\ i <= j
    BY <2>2
  <2> QED BY <2>1, <2>3, Zenon
<1>6. SubSeq(c, 1, Len(a)) = SubSeq(b, 1, Len(a))
  BY <1>2, <1>5, Zenon
<1>7. SubSeq(a, 1, Len(a)) = SubSeq(b, 1, Len(a))
  BY <1>3, <1>4, <1>6, Zenon
<1> QED BY <1>5, <1>7, Zenon DEF IsPrefix

Grown(r, l, q) ==
  /\ q.who = r.who /\ q.kind = r.kind /\ q.paths = r.paths /\ q.root = r.root
  /\ q.could = r.could /\ q.could_not = r.could_not
  /\ q.shown = r.shown \cup NewNodes(r, l) /\ q.levels = r.levels \cup {l}

Fresh(r, l) == \A m \in r.levels : m.at # l.at

LEMMA StandsGrow ==
  ASSUME NEW r, NEW l, NEW q, Grown(r, l, q), NEW at
  PROVE  Stands(r, at) \subseteq Stands(q, at)
BY DEF Grown, Stands

LEMMA NotAbove ==
  ASSUME NEW r, NEW l \in LevelForms, Fresh(r, l), NEW m \in LevelForms, Hangs(r, m),
         IsPrefix(l.at, m.at)
  PROVE  l.at = m.at
<1> SUFFICES ASSUME l.at # m.at PROVE FALSE
  OBVIOUS
<1>1. /\ l.at \in Seq(RelationFields) /\ m.at \in Seq(RelationFields)
  BY DEF LevelForms
<1>2. Len(l.at) \in Nat /\ Len(m.at) \in Nat /\ Len(l.at) < Len(m.at) /\ l.at = SubSeq(m.at, 1, Len(l.at))
  BY <1>1, PrefixIs
<1>3. Len(l.at) \in 0 .. Len(m.at) - 1
  BY <1>2
<1>4. PICK x \in r.levels : x.at = SubSeq(m.at, 1, Len(l.at))
  BY <1>3 DEF Hangs
<1> QED BY <1>2, <1>4 DEF Fresh

LEMMA LevelStays ==
  ASSUME NEW r, NEW l \in LevelForms, Fresh(r, l), NEW q, Grown(r, l, q),
         NEW m \in LevelForms, LevelOk(r, m)
  PROVE  LevelOk(q, m)
<1>1. Hangs(r, m)
  BY DEF LevelOk
<1>2. \A k \in 0 .. Len(m.at) - 1 : \E x \in q.levels : x.at = SubSeq(m.at, 1, k)
  BY <1>1 DEF Hangs, Grown
<1>3. IsPrefix(l.at, m.at) => l.at = m.at
  BY <1>1, NotAbove
<1>4. \A x \in q.levels : x.at # m.at /\ IsPrefix(x.at, m.at) => DOMAIN x.rows \subseteq m.path
  BY <1>1, <1>3 DEF Hangs, Grown
<1>5. Hangs(q, m)
  BY <1>2, <1>4 DEF Hangs
<1>6. \A e \in DOMAIN m.rows : <<e, m.rows[e]>> \in Stands(q, m.at)
  BY StandsGrow DEF LevelOk
<1>7. q.kind = r.kind
  BY DEF Grown
<1> QED BY <1>5, <1>6, <1>7 DEF LevelOk

(* The level below a field hangs from the one just expanded.               *)
LEMMA Lower ==
  ASSUME StoreInv, NEW r \in ReadRequests, Watch(r.who).could \subseteq r.could,
         NEW l \in LevelForms, LevelOk(r, l), Fresh(r, l), r.levels \subseteq LevelForms,
         NEW q, Grown(r, l, q), NEW f \in FieldsAt(r.paths, l.at), f \in RelationFields,
         f \in RelationsOf[KindAt(r.kind, l.at)], DOMAIN LevelBelow(r, l, f).rows # {}
  PROVE  /\ LevelBelow(r, l, f) \in LevelForms /\ LevelBelow(r, l, f).at = Append(l.at, f)
         /\ LevelOk(q, LevelBelow(r, l, f))
<1> DEFINE ids == {x \in {n.id : n \in NodesOf(r, l, f)} : ExpandedNext(x, Walk(l))}
           copies == CopiesFor(r.who, ids)
           d == LevelBelow(r, l, f)
<1>1. d.at = Append(l.at, f) /\ d.rows = copies /\ d.path = l.path \cup DOMAIN l.rows
  BY DEF LevelBelow, Level, Walk
<1>a. d = Level(Append(l.at, f), copies, d.path)
  BY <1>1 DEF LevelBelow, Level
<1>2. /\ DOMAIN copies = ids /\ copies = [e \in ids |-> copies[e]]
      /\ \A e \in ids : copies[e] = CopyFor(r.who, e)
  BY DEF CopiesFor
<1>3. \A e \in ids : /\ e \notin d.path
                     /\ \E n \in NodesOf(r, l, f) : n.id = e
  BY <1>1 DEF ExpandedNext, Walk
<1> HIDE DEF ids, copies, d
<1>4. ASSUME NEW e \in ids
      PROVE  /\ e \in Stored /\ KindOf(e) = TargetKind[f] /\ copies[e] \in Docs(e)
             /\ <<e, copies[e]>> \in Stands(q, d.at)
  <2>1. PICK n \in NodesOf(r, l, f) : n.id = e
    BY <1>3
  <2>2. /\ n.at = Append(l.at, f) /\ KindOf(n.id) = TargetKind[f]
        /\ n.doc = CopyFor(r.who, n.id) /\ RowOk(r, n.id, n.doc)
    BY NodeFound
  <2>3. n \in q.shown
    BY DEF Grown, NewNodes
  <2>4. Append(l.at, f) # <<>>
    BY PlaceBelow DEF LevelForms
  <2>5. <<n.id, n.doc>> \in Stands(q, d.at)
    BY <1>1, <2>2, <2>3, <2>4 DEF Stands
  <2> QED BY <1>2, <2>1, <2>2, <2>5 DEF RowOk
<1>5. copies \in RowForms
  BY <1>2, <1>4, RowForm
<1>6. l.at \in Seq(RelationFields) /\ l.path \subseteq Stored /\ DOMAIN l.rows \subseteq Stored
  BY DEF LevelForms, LevelOk
<1>7. d \in LevelForms
  <2>1. d.at \in Seq(RelationFields) /\ d.path \in SUBSET Stored
    BY <1>1, <1>6, PlaceBelow
  <2>2. d = Level(d.at, copies, d.path)
    BY <1>1, <1>a
  <2> QED BY <1>5, <2>1, <2>2 DEF Level, LevelForms
<1>8. KindAt(q.kind, d.at) = TargetKind[f]
  BY <1>1, <1>6, PlaceBelow DEF KindAt
<1>9. \A k \in 0 .. Len(d.at) - 1 : \E m \in q.levels : m.at = SubSeq(d.at, 1, k)
  <2> SUFFICES ASSUME NEW k \in 0 .. Len(d.at) - 1
               PROVE  \E m \in q.levels : m.at = SubSeq(d.at, 1, k)
    OBVIOUS
  <2>1. /\ Len(d.at) = Len(l.at) + 1 /\ Len(l.at) \in Nat /\ SubSeq(l.at, 1, Len(l.at)) = l.at
        /\ \A j \in 0 .. Len(l.at) : SubSeq(d.at, 1, j) = SubSeq(l.at, 1, j)
    BY <1>1, <1>6, PlaceBelow
  <2>2. k \in 0 .. Len(l.at) /\ SubSeq(d.at, 1, k) = SubSeq(l.at, 1, k)
    BY <2>1
  <2>3. CASE k = Len(l.at)
    BY <2>1, <2>2, <2>3 DEF Grown
  <2>4. CASE k # Len(l.at)
    <3>1. k \in 0 .. Len(l.at) - 1
      BY <2>1, <2>2, <2>4
    <3> QED BY <2>2, <3>1 DEF Grown, LevelOk, Hangs
  <2> QED BY <2>3, <2>4
<1>10. \A m \in q.levels : m.at # d.at /\ IsPrefix(m.at, d.at) => DOMAIN m.rows \subseteq d.path
  <2> SUFFICES ASSUME NEW m \in q.levels, m.at # d.at, IsPrefix(m.at, d.at)
               PROVE  DOMAIN m.rows \subseteq d.path
    OBVIOUS
  <2>1. CASE m = l
    BY <1>1, <2>1
  <2>2. CASE m \in r.levels
    <3>1. m.at \in Seq(RelationFields)
      BY <2>2 DEF LevelForms
    <3>2. IsPrefix(m.at, l.at)
      BY <1>1, <1>6, <3>1, PrefixBelow
    <3>3. m.at # l.at
      BY <2>2 DEF Fresh
    <3> QED BY <1>1, <2>2, <3>2, <3>3 DEF LevelOk, Hangs
  <2> QED BY <2>1, <2>2 DEF Grown
<1>11. Hangs(q, d)
  BY <1>9, <1>10 DEF Hangs
<1>12. DOMAIN d.rows # {} /\ DOMAIN d.rows \cap d.path = {}
  BY <1>1, <1>2, <1>3 DEF d
<1>13. \A e \in DOMAIN d.rows :
         /\ e \in Stored /\ KindOf(e) = KindAt(q.kind, d.at)
         /\ d.rows[e] \in Docs(e) /\ <<e, d.rows[e]>> \in Stands(q, d.at)
  BY <1>1, <1>2, <1>4, <1>8
<1>14. LevelOk(q, d)
  BY <1>11, <1>12, <1>13 DEF LevelOk
<1> QED BY <1>1, <1>7, <1>14 DEF d


-----------------------------------------------------------------------------
(* The queue of the walk: what a step puts before what waits.              *)
QueueShape(S, s, t) ==
  \E n \in Nat :
    /\ \A i \in 1 .. Len(t) : i <= n => t[i] \in S
    /\ \A i, j \in 1 .. Len(t) : i <= n /\ j <= n /\ t[i] = t[j] => i = j
    /\ \A i \in 1 .. Len(t) : i > n => (i - n) + 1 \in 2 .. Len(s) /\ t[i] = s[(i - n) + 1]

LEMMA QueueIs ==
  ASSUME NEW T, NEW S \in SUBSET T, IsFiniteSet(S), NEW s \in Seq(T), s # <<>>,
         NEW t, t = SetToSeq(S) \o Tail(s)
  PROVE  t \in Seq(T) /\ QueueShape(S, s, t)
<1>1. PICK u : u = SetToSeq(S)
  OBVIOUS
<1>2. /\ u \in Seq(S) /\ Len(u) \in Nat
      /\ \A i, j \in 1 .. Len(u) : u[i] = u[j] => i = j
  BY <1>1, Listing
<1>3. u \in Seq(T) /\ \A i \in 1 .. Len(u) : u[i] \in S
  BY <1>2
<1>4. PICK v \in Seq(T) : v = Tail(s)
  BY HeadTailProperties
<1>5. Len(s) \in Nat /\ Len(s) >= 1 /\ Len(v) = Len(s) - 1 /\ \A i \in 1 .. Len(v) : v[i] = s[i + 1]
  BY <1>4, HeadTailProperties
<1>6. PICK m, k : m = Len(u) /\ k = Len(s)
  OBVIOUS
<1>7. m \in Nat /\ k \in Nat /\ k >= 1 /\ Len(v) = k - 1
  BY <1>2, <1>5, <1>6
<1>8. /\ t \in Seq(T) /\ Len(t) = m + (k - 1)
      /\ \A i \in 1 .. Len(t) : t[i] = IF i <= m THEN u[i] ELSE v[i - m]
  BY <1>1, <1>3, <1>4, <1>6, <1>7
<1>9. \A i \in 1 .. Len(t) : i <= m => i \in 1 .. m /\ t[i] = u[i]
  BY <1>7, <1>8
<1>10. \A i \in 1 .. Len(t) : i > m => (i - m) + 1 \in 2 .. k /\ t[i] = s[(i - m) + 1]
  BY <1>5, <1>7, <1>8
<1>11. \A i \in 1 .. Len(t) : i <= m => t[i] \in S
  BY <1>3, <1>6, <1>9
<1>12. \A i, j \in 1 .. Len(t) : i <= m /\ j <= m /\ t[i] = t[j] => i = j
  BY <1>2, <1>6, <1>9
<1> QED BY <1>6, <1>7, <1>8, <1>10, <1>11, <1>12 DEF QueueShape

LEMMA HeadHangs ==
  ASSUME NEW r \in ReadRequests, TodoOk(r), r.todo # <<>>
  PROVE  /\ Head(r.todo) = r.todo[1] /\ 1 \in 1 .. Len(r.todo) /\ Len(r.todo) \in Nat
         /\ Head(r.todo) \in LevelForms /\ LevelOk(r, Head(r.todo)) /\ Fresh(r, Head(r.todo))
         /\ \A i \in 2 .. Len(r.todo) : /\ i \in 1 .. Len(r.todo) /\ r.todo[i] \in LevelForms
                                        /\ r.todo[i].at # Head(r.todo).at
<1>1. r.todo \in Seq(LevelForms)
  BY RequestParts
<1>2. /\ Len(r.todo) \in Nat /\ 1 \in 1 .. Len(r.todo) /\ Head(r.todo) = r.todo[1]
      /\ \A i \in 1 .. Len(r.todo) : r.todo[i] \in LevelForms
  BY <1>1
<1>3. LevelOk(r, r.todo[1]) /\ \A l \in r.levels : r.todo[1].at # l.at
  BY <1>2 DEF TodoOk
<1>4. \A i \in 2 .. Len(r.todo) : i \in 1 .. Len(r.todo) /\ i # 1
  BY <1>2
<1>5. \A i \in 2 .. Len(r.todo) : r.todo[i].at # r.todo[1].at
  BY <1>2, <1>4 DEF TodoOk
<1> QED BY <1>2, <1>3, <1>4, <1>5 DEF Fresh


-----------------------------------------------------------------------------
(* A step of the walk.                                                     *)
PathsOpen(r) == \A p \in r.paths : Expandable(r.who, r.kind, p)
Watching(r) == /\ Watch(r.who).could \subseteq r.could
               /\ Watch(r.who).could_not \subseteq r.could_not

LEMMA NewForms ==
  ASSUME StoreInv, NEW r \in ReadRequests, PathsOpen(r), Watching(r), NEW l \in LevelForms, LevelOk(r, l)
  PROVE  /\ \A f \in FieldsAt(r.paths, l.at) :
              /\ f \in RelationFields /\ f \in RelationsOf[KindAt(r.kind, l.at)]
              /\ FieldOpen(r.who, f) /\ TypeOpen(r.who, TargetKind[f])
         /\ NewIds(r, l) \subseteq Stored /\ NewNodes(r, l) \subseteq NodeForms
         /\ IsFiniteSet(NewLevels(r, l))
<1>1. \A f \in FieldsAt(r.paths, l.at) :
         /\ f \in RelationFields /\ f \in RelationsOf[KindAt(r.kind, l.at)]
         /\ FieldOpen(r.who, f) /\ TypeOpen(r.who, TargetKind[f])
  BY FieldBelow DEF LevelForms, PathsOpen
<1>2. ASSUME NEW e \in DOMAIN l.rows, NEW f \in FieldsAt(r.paths, l.at)
      PROVE  Refs(e, l.rows[e], f) \subseteq Stored
  <2>1. /\ e \in Stored /\ l.rows[e] \in Docs(e) /\ f \in RelationsOf[KindOf(e)]
    BY <1>1 DEF LevelOk
  <2> QED BY <2>1, DocForm DEF Refs
<1>3. NewIds(r, l) \subseteq Stored
  BY <1>2 DEF NewIds
<1>4. NewNodes(r, l) \subseteq NodeForms
  BY <1>1, NodeFound DEF NewNodes, Watching
<1>5. IsFiniteSet(FieldsAt(r.paths, l.at))
  <2>1. IsFiniteSet({"author"}) /\ IsFiniteSet({"cover"}) /\ IsFiniteSet({"best"})
    BY FS_Singleton
  <2>2. IsFiniteSet({"author"} \cup {"cover"})
    BY <2>1, FS_Union
  <2>3. IsFiniteSet(({"author"} \cup {"cover"}) \cup {"best"})
    BY <2>1, <2>2, FS_Union
  <2>4. RelationFields = ({"author"} \cup {"cover"}) \cup {"best"}
    BY DEF RelationFields
  <2>5. IsFiniteSet(RelationFields)
    BY <2>3, <2>4
  <2> QED BY <1>1, <2>5, FS_Subset
<1>6. IsFiniteSet({LevelBelow(r, l, f) : f \in FieldsAt(r.paths, l.at)})
  <2> DEFINE F == FieldsAt(r.paths, l.at)
             T == {LevelBelow(r, l, f) : f \in F}
             g == [f \in F |-> LevelBelow(r, l, f)]
  <2>1. g \in Surjection(F, T)
    BY DEF Surjection
  <2> QED BY <1>5, <2>1, FS_Surjection
<1>7. IsFiniteSet(NewLevels(r, l))
  BY <1>6, FS_Subset, Zenon DEF NewLevels
<1> QED BY <1>1, <1>3, <1>4, <1>7

LEMMA NewLevelsHang ==
  ASSUME StoreInv, NEW r \in ReadRequests, PathsOpen(r), Watching(r), NEW l \in LevelForms,
         LevelOk(r, l), Fresh(r, l), NEW q, Grown(r, l, q), NEW d \in NewLevels(r, l)
  PROVE  /\ d \in LevelForms /\ LevelOk(q, d)
         /\ \E f \in RelationFields : d.at = Append(l.at, f) /\ d = LevelBelow(r, l, f)
<1>1. PICK f \in FieldsAt(r.paths, l.at) : d = LevelBelow(r, l, f) /\ DOMAIN d.rows # {}
  BY DEF NewLevels
<1>2. f \in RelationFields /\ f \in RelationsOf[KindAt(r.kind, l.at)]
  BY NewForms
<1>3. r.levels \subseteq LevelForms
  BY RequestParts
<1>4. d \in LevelForms /\ d.at = Append(l.at, f) /\ LevelOk(q, d)
  BY <1>1, <1>2, <1>3, Lower DEF Watching
<1> QED BY <1>1, <1>2, <1>4

LEMMA GrownAnswer ==
  ASSUME StoreInv, NEW r \in ReadRequests, PathsOpen(r), Watching(r), AnswerOk(r),
         NEW l \in LevelForms, LevelOk(r, l), Fresh(r, l), NEW q, Grown(r, l, q),
         Cardinality(q.seen) <= MaxTargets
  PROVE  AnswerOk(q)
<1>1. RootOk(q)
  BY DEF AnswerOk, RootOk, RowOk, Grown
<1>2. ASSUME NEW n \in r.shown PROVE NodeOk(q, n)
  <2>1. NodeOk(r, n)
    BY DEF AnswerOk
  <2>2. Stands(r, Front(n.at)) \subseteq Stands(q, Front(n.at))
    BY StandsGrow
  <2> QED BY <2>1, <2>2 DEF NodeOk, RowOk, Grown
<1>3. ASSUME NEW n \in NewNodes(r, l) PROVE NodeOk(q, n)
  <2>1. PICK f \in FieldsAt(r.paths, l.at) : n \in NodesOf(r, l, f)
    BY DEF NewNodes
  <2>2. f \in RelationFields /\ f \in RelationsOf[KindAt(r.kind, l.at)]
    BY NewForms
  <2>3. /\ n.at = Append(l.at, f) /\ n.parent \in DOMAIN l.rows
        /\ n.id \in l.rows[n.parent][f] /\ KindOf(n.id) = TargetKind[f] /\ RowOk(r, n.id, n.doc)
    BY <2>1, <2>2, NodeFound DEF Watching
  <2>4. n.at # <<>> /\ Last(n.at) = f /\ Front(n.at) = l.at
    BY <2>2, <2>3, PlaceBelow DEF LevelForms
  <2>5. <<n.parent, l.rows[n.parent]>> \in Stands(q, l.at)
    BY <2>3, StandsGrow DEF LevelOk
  <2>6. \E p \in Stands(q, Front(n.at)) : p[1] = n.parent /\ n.id \in p[2][Last(n.at)]
    BY <2>3, <2>4, <2>5
  <2>7. RowOk(q, n.id, n.doc)
    BY <2>3 DEF RowOk, Grown
  <2> QED BY <2>2, <2>3, <2>4, <2>6, <2>7 DEF NodeOk
<1>4. \A n \in q.shown : NodeOk(q, n)
  BY <1>2, <1>3 DEF Grown
<1>5. LevelOk(q, l)
  BY LevelStays
<1>6. \A m \in r.levels : LevelOk(q, m)
  BY LevelStays, RequestParts DEF AnswerOk, LevelsOk
<1>7. \A m \in r.levels : Answered(q, m)
  BY DEF AnswerOk, LevelsOk, Answered, Grown
<1>8. Answered(q, l)
  <2> SUFFICES ASSUME NEW f \in FieldsAt(q.paths, l.at), NEW e \in DOMAIN l.rows,
                      NEW x \in l.rows[e][f] \ q.could_not, KindOf(x) = TargetKind[f]
               PROVE  \E n \in q.shown : n.at = Append(l.at, f) /\ n.parent = e /\ n.id = x
    BY DEF Answered
  <2>1. f \in FieldsAt(r.paths, l.at) /\ x \in l.rows[e][f] /\ x \notin r.could_not
    BY DEF Grown
  <2>2. e \in Stored /\ l.rows[e] \in Docs(e) /\ f \in RelationsOf[KindOf(e)]
    BY <2>1, NewForms DEF LevelOk
  <2>3. x \in Stored
    BY <2>1, <2>2, DocForm
  <2>4. \E n \in NodesOf(r, l, f) : n.at = Append(l.at, f) /\ n.parent = e /\ n.id = x
    BY <2>1, <2>3, NodeThere DEF Watching
  <2> QED BY <2>1, <2>4 DEF Grown, NewNodes
<1>9. LevelsOk(q)
  BY <1>5, <1>6, <1>7, <1>8 DEF LevelsOk, Grown, AnswerOk, Fresh
<1> QED BY <1>1, <1>4, <1>9 DEF AnswerOk

LEMMA GrownTodo ==
  ASSUME StoreInv, NEW r \in ReadRequests, PathsOpen(r), Watching(r), LevelsOk(r), TodoOk(r), r.todo # <<>>,
         NEW l, l = Head(r.todo), NEW q, Grown(r, l, q),
         q.todo = SetToSeq(NewLevels(r, l)) \o Tail(r.todo)
  PROVE  q.todo \in Seq(LevelForms) /\ TodoOk(q)
<1>1. /\ l \in LevelForms /\ LevelOk(r, l) /\ Fresh(r, l) /\ Len(r.todo) \in Nat
      /\ \A i \in 2 .. Len(r.todo) : /\ i \in 1 .. Len(r.todo) /\ r.todo[i] \in LevelForms
                                     /\ r.todo[i].at # l.at
  BY HeadHangs
<1>2. \A d \in NewLevels(r, l) :
         /\ d \in LevelForms /\ LevelOk(q, d)
         /\ \E f \in RelationFields : d.at = Append(l.at, f) /\ d = LevelBelow(r, l, f)
  BY <1>1, NewLevelsHang
<1>3. \A f, g \in RelationFields : Append(l.at, f) = Append(l.at, g) => f = g
  <2> SUFFICES ASSUME NEW f \in RelationFields, NEW g \in RelationFields, Append(l.at, f) = Append(l.at, g)
               PROVE  f = g
    OBVIOUS
  <2>1. Last(Append(l.at, f)) = f /\ Last(Append(l.at, g)) = g
    BY <1>1, PlaceBelow DEF LevelForms
  <2> QED BY <2>1, Zenon
<1>4. \A d, c \in NewLevels(r, l) : d.at = c.at => d = c
  BY <1>2, <1>3
<1>5. ASSUME NEW m \in LevelForms, LevelOk(r, m), NEW d \in NewLevels(r, l)
      PROVE  m.at # d.at
  <2> SUFFICES ASSUME m.at = d.at PROVE FALSE
    OBVIOUS
  <2>1. PICK f \in RelationFields : d.at = Append(l.at, f)
    BY <1>2
  <2>2. l.at \in Seq(RelationFields)
    BY <1>1 DEF LevelForms
  <2>3. PICK k, j : k = Len(l.at) /\ j = Len(m.at)
    OBVIOUS
  <2>4. /\ j = k + 1 /\ k \in Nat /\ SubSeq(m.at, 1, k) = SubSeq(l.at, 1, k) /\ SubSeq(l.at, 1, k) = l.at
    <3>1. /\ Len(Append(l.at, f)) = Len(l.at) + 1 /\ Len(l.at) \in Nat
          /\ \A i \in 0 .. Len(l.at) : SubSeq(Append(l.at, f), 1, i) = SubSeq(l.at, 1, i)
          /\ SubSeq(l.at, 1, Len(l.at)) = l.at
      BY <2>2, PlaceBelow
    <3>2. k \in 0 .. k
      BY <2>3, <3>1
    <3>3. /\ j = k + 1 /\ k \in Nat /\ SubSeq(l.at, 1, k) = l.at
      BY <2>1, <2>3, <3>1, Zenon
    <3>4. SubSeq(m.at, 1, k) = SubSeq(l.at, 1, k)
      BY <2>1, <2>3, <3>1, <3>2, Zenon
    <3> QED BY <3>3, <3>4
  <2>5. k \in 0 .. j - 1
    BY <2>4
  <2>6. \E x \in r.levels : x.at = SubSeq(m.at, 1, k)
    BY <1>5, <2>3, <2>5, Zenon DEF LevelOk, Hangs
  <2> QED BY <1>1, <2>4, <2>6, Zenon DEF Fresh
<1>a. PICK S \in SUBSET LevelForms : S = NewLevels(r, l)
  BY <1>2
<1>b. IsFiniteSet(S)
  BY <1>1, <1>a, NewForms
<1>c. PICK s \in Seq(LevelForms) : s = r.todo /\ s # <<>>
  BY RequestParts
<1>d. PICK t : t = q.todo /\ t = SetToSeq(S) \o Tail(s)
  BY <1>a, <1>c
<1>e. t \in Seq(LevelForms) /\ QueueShape(S, s, t)
  BY <1>b, <1>c, <1>d, QueueIs
<1>6. PICK n \in Nat :
        /\ \A i \in 1 .. Len(t) : i <= n => t[i] \in S
        /\ \A i, j \in 1 .. Len(t) : i <= n /\ j <= n /\ t[i] = t[j] => i = j
        /\ \A i \in 1 .. Len(t) : i > n => (i - n) + 1 \in 2 .. Len(s) /\ t[i] = s[(i - n) + 1]
  BY <1>e, Zenon DEF QueueShape
<1>7. \A i, j \in 2 .. Len(s) : s[i].at = s[j].at => i = j
  BY <1>1, <1>c DEF TodoOk
<1>8. \A i \in 2 .. Len(s) : /\ s[i] \in LevelForms /\ LevelOk(r, s[i]) /\ LevelOk(q, s[i])
                             /\ \A m \in q.levels : s[i].at # m.at
  BY <1>1, <1>c, LevelStays DEF TodoOk, Grown
<1>9. \A d \in S : \A m \in q.levels : d.at # m.at
  <2>1. \A m \in r.levels : m \in LevelForms /\ LevelOk(r, m)
    BY RequestParts DEF LevelsOk
  <2>2. \A d \in S : d.at # l.at
    BY <1>1, <1>5, <1>a
  <2> QED BY <1>5, <1>a, <2>1, <2>2 DEF Grown
<1>10. ASSUME NEW i \in 1 .. Len(t)
       PROVE  /\ i \in Nat
              /\ \/ i <= n /\ t[i] \in S
                 \/ \E k \in 2 .. Len(s) : i > n /\ k = (i - n) + 1 /\ t[i] = s[k]
  <2>1. Len(t) \in Nat
    BY <1>e
  <2>2. i \in Nat
    BY <2>1
  <2>3. CASE i <= n
    BY <1>6, <2>2, <2>3
  <2>4. CASE i > n
    BY <1>6, <2>2, <2>4
  <2> QED BY <2>2, <2>3, <2>4
<1>11. \A i \in 1 .. Len(t) : LevelOk(q, t[i]) /\ \A m \in q.levels : t[i].at # m.at
  BY <1>2, <1>8, <1>9, <1>10, <1>a
<1>12. ASSUME NEW i \in 1 .. Len(t), NEW j \in 1 .. Len(t), t[i].at = t[j].at
       PROVE  i = j
  <2>1. CASE t[i] \in S /\ t[j] \in S /\ i <= n /\ j <= n
    BY <1>4, <1>6, <1>12, <1>a, <2>1
  <2>2. CASE t[i] \in S /\ \E k \in 2 .. Len(s) : t[j] = s[k]
    BY <1>5, <1>8, <1>12, <1>a, <2>2
  <2>3. CASE t[j] \in S /\ \E k \in 2 .. Len(s) : t[i] = s[k]
    BY <1>5, <1>8, <1>12, <1>a, <2>3
  <2>4. CASE /\ \E k \in 2 .. Len(s) : i > n /\ k = (i - n) + 1 /\ t[i] = s[k]
             /\ \E k \in 2 .. Len(s) : j > n /\ k = (j - n) + 1 /\ t[j] = s[k]
    <3>1. (i - n) + 1 = (j - n) + 1
      BY <1>7, <1>12, <2>4
    <3>2. i \in Nat /\ j \in Nat
      BY <1>10
    <3> QED BY <3>1, <3>2
  <2> QED BY <1>10, <2>1, <2>2, <2>3, <2>4, Zenon
<1>13. q.todo = t
  BY <1>d
<1> QED BY <1>e, <1>11, <1>12, <1>13 DEF TodoOk


LEMMA ExpandKeepsReads ==
  ASSUME ReadsInv, ExpandLevel
  PROVE  ReadsInv'
<1> PICK r, l : r = reading /\ l = Head(r.todo)
  OBVIOUS
<1> DEFINE seen == r.seen \cup NewIds(r, l)
           shown == r.shown \cup NewNodes(r, l)
           levels == r.levels \cup {l}
           todo == SetToSeq(NewLevels(r, l)) \o Tail(r.todo)
           q == WalkedAs(r, seen, shown, levels, todo)
<1>1. /\ r.stage = "walk" /\ r.todo # <<>> /\ UNCHANGED <<roleLists, store, decided, edits>>
  BY DEF ExpandLevel
<1>2. CASE ~WithinBudget(r.seen, NewIds(r, l))
  BY <1>1, <1>2, RefusalKeepsReads DEF ExpandLevel
<1>3. CASE WithinBudget(r.seen, NewIds(r, l))
  <2>1. reading' = q
    BY <1>3 DEF ExpandLevel, Expanded, WalkedAs, NewNodes
  <2>2. Cardinality(seen) <= MaxTargets
    BY <1>3 DEF WithinBudget
  <2>3. /\ StoreInv /\ r \in ReadRequests /\ ListsAdmit /\ AnswerOk(r) /\ TodoOk(r) /\ Watches
    BY <1>1 DEF ReadsInv, Full, Under
  <2>4. PathsOpen(r) /\ Watching(r) /\ LevelsOk(r)
    BY <2>3 DEF PathsOpen, Watching, ListsAdmit, Watches, AnswerOk
  <2>5. l \in LevelForms /\ LevelOk(r, l) /\ Fresh(r, l)
    BY <1>1, <2>3, HeadHangs
  <2>6. NewIds(r, l) \subseteq Stored /\ NewNodes(r, l) \subseteq NodeForms
    BY <2>3, <2>4, <2>5, NewForms
  <2> HIDE DEF q, seen, shown, levels, todo
  <2>7. seen \in SUBSET Stored /\ shown \in SUBSET NodeForms /\ levels \in SUBSET LevelForms
    BY <2>3, <2>5, <2>6, RequestParts DEF seen, shown, levels
  <2>8. PICK b : /\ b.who = r.who /\ b.kind = r.kind /\ b.paths = r.paths /\ b.root = r.root
                 /\ b.could = r.could /\ b.could_not = r.could_not
                 /\ b.shown = shown /\ b.levels = levels /\ b.seen = seen /\ b.todo = todo
    <3> DEFINE b == [who |-> r.who, kind |-> r.kind, paths |-> r.paths, root |-> r.root,
                     could |-> r.could, could_not |-> r.could_not, shown |-> shown,
                     levels |-> levels, seen |-> seen, todo |-> todo]
    <3>1. /\ b.who = r.who /\ b.kind = r.kind /\ b.paths = r.paths /\ b.root = r.root
          /\ b.could = r.could /\ b.could_not = r.could_not
          /\ b.shown = shown /\ b.levels = levels /\ b.seen = seen /\ b.todo = todo
      OBVIOUS
    <3> QED BY <3>1
  <2>9. Grown(r, l, b)
    BY <2>8 DEF Grown, shown, levels
  <2>10. todo \in Seq(LevelForms)
    <3>1. b.todo = SetToSeq(NewLevels(r, l)) \o Tail(r.todo)
      BY <2>8 DEF todo
    <3>2. b.todo \in Seq(LevelForms)
      BY <1>1, <2>3, <2>4, <2>9, <3>1, GrownTodo
    <3> QED BY <2>8, <3>2
  <2>11. /\ q \in ReadRequests /\ q.seen = seen /\ q.shown = shown /\ q.levels = levels
         /\ q.todo = todo /\ q.stage = r.stage /\ q.who = r.who /\ q.kind = r.kind
         /\ q.paths = r.paths /\ q.root = r.root /\ q.could = r.could
         /\ q.could_not = r.could_not
    BY <2>3, <2>7, <2>10, Walked DEF q
  <2>12. Grown(r, l, q)
    BY <2>11 DEF Grown, shown, levels
  <2>13. AnswerOk(q)
    BY <2>2, <2>3, <2>4, <2>5, <2>11, <2>12, GrownAnswer
  <2>14. TodoOk(q)
    <3>1. q.todo = SetToSeq(NewLevels(r, l)) \o Tail(r.todo)
      BY <2>11 DEF todo
    <3> QED BY <1>1, <2>3, <2>4, <2>12, <3>1, GrownTodo
  <2>15. ASSUME NEW n \in NewNodes(r, l)
         PROVE  TypeOpen(r.who, KindOf(n.id)) /\ FieldOpen(r.who, Last(n.at))
    <3>1. PICK f \in FieldsAt(r.paths, l.at) : n \in NodesOf(r, l, f)
      BY DEF NewNodes
    <3>2. /\ f \in RelationFields /\ f \in RelationsOf[KindAt(r.kind, l.at)]
          /\ FieldOpen(r.who, f) /\ TypeOpen(r.who, TargetKind[f])
      BY <2>3, <2>4, <2>5, NewForms
    <3>3. n.at = Append(l.at, f) /\ KindOf(n.id) = TargetKind[f]
      BY <2>3, <2>4, <2>5, <3>1, <3>2, NodeFound DEF Watching
    <3>4. Last(n.at) = f
      BY <2>5, <3>2, <3>3, PlaceBelow DEF LevelForms
    <3> QED BY <3>2, <3>3, <3>4
  <2>16. \A n \in q.shown : TypeOpen(r.who, KindOf(n.id)) /\ FieldOpen(r.who, Last(n.at))
    BY <2>3, <2>11, <2>15 DEF shown, ListsAdmit
  <2>17. ListsAdmit'
    BY <1>1, <2>1, <2>3, <2>11, <2>16 DEF ListsAdmit, TypeOpen, FieldOpen, Expandable
  <2>18. Watches'
    BY <1>1, <2>1, <2>3, <2>11, WatchKept
  <2>19. StoreInv'
    BY <1>1, <2>3, StoreStays
  <2> QED BY <1>1, <2>1, <2>11, <2>13, <2>14, <2>17, <2>18, <2>19 DEF ReadsInv, Full, Under
<1> QED BY <1>2, <1>3

-----------------------------------------------------------------------------
(* Every road agrees with GET.                                             *)
LEMMA RoadsMeet ==
  ASSUME StoreInv
  PROVE  RoadsAgree
<1> SUFFICES ASSUME NEW s \in {r \in Readers : r.kind = "user"} PROVE
       /\ \A t \in DOMAIN EntriesOf : TypeOpen(s, t) =>
             Listed(s, t) = {e \in EntriesOf[t] : Gets(s, t, e)}
       /\ \A e \in Stored :
             VisibleRow(s, e) <=> TypeOpen(s, KindOf(e)) /\ Gets(s, KindOf(e), e)
       /\ \A l \in {LocaleOf[e] : e \in Stored} :
             CountIn(s, l) = Cardinality({e \in Stored : LocaleOf[e] = l
                                /\ TypeOpen(s, KindOf(e)) /\ Gets(s, KindOf(e), e)})
       /\ \A e \in Stored : VisibleRow(s, e) /\ AwaitsReview(e) =>
             (e \in Queue(s) <=> ~ShowsDecision(e))
       /\ \A x \in Stored : \A l \in Referrers(s, x) : TypeOpen(s, KindOf(l.from))
  BY DEF RoadsAgree
<1>0. s.kind = "user" /\ ~Public(s)
  BY DEF Public
<1>1. ASSUME NEW t \in DOMAIN EntriesOf
      PROVE  Listed(s, t) = {e \in EntriesOf[t] : Gets(s, t, e)}
  <2>1. \A e \in EntriesOf[t] : KindOf(e) = t
    BY Kinds
  <2>2. \A e \in EntriesOf[t] : e \in Listed(s, t) <=> Gets(s, t, e)
    BY <1>0, <2>1 DEF Listed, Gets, Mine
  <2>3. Listed(s, t) \subseteq EntriesOf[t]
    BY DEF Listed
  <2> QED BY <2>2, <2>3
<1>2. ASSUME NEW e \in Stored
      PROVE  VisibleRow(s, e) <=> TypeOpen(s, KindOf(e)) /\ Gets(s, KindOf(e), e)
  BY <1>0 DEF VisibleRow, TypeOpen, ListAdmits, Gets, Mine, OwnOnly
<1>3. ASSUME NEW l
      PROVE  CountIn(s, l) = Cardinality({e \in Stored : LocaleOf[e] = l
                                /\ TypeOpen(s, KindOf(e)) /\ Gets(s, KindOf(e), e)})
  <2>1. {e \in Stored : VisibleRow(s, e) /\ LocaleOf[e] = l} =
          {e \in Stored : LocaleOf[e] = l /\ TypeOpen(s, KindOf(e)) /\ Gets(s, KindOf(e), e)}
    BY <1>2
  <2> QED BY <2>1 DEF CountIn
<1>4. ASSUME NEW e \in Stored, VisibleRow(s, e), AwaitsReview(e)
      PROVE  e \in Queue(s) <=> ~ShowsDecision(e)
  BY <1>4 DEF Queue, NotSentBack, ShowsDecision
<1>5. ASSUME NEW x \in Stored, NEW l \in Referrers(s, x) PROVE TypeOpen(s, KindOf(l.from))
  BY DEF Referrers
<1> QED BY <1>1, <1>2, <1>3, <1>4, <1>5

LEMMA ReadsInvSound == ReadsInv => ReadsSound
<1> SUFFICES ASSUME ReadsInv PROVE ReadsSound
  OBVIOUS
<1>1. ReadsTypeOK
  <2>1. \A e \in Stored : /\ store[e].status \in {"draft", "published", "gone"}
                          /\ store[e].working \in Docs(e)
                          /\ store[e].snapshot \in Docs(e) \cup {NoSnapshot}
                          /\ store[e].version \in 2 .. (MaxEdits + 2)
    <3> SUFFICES ASSUME NEW e \in Stored
                 PROVE  /\ store[e].status \in {"draft", "published", "gone"}
                        /\ store[e].working \in Docs(e)
                        /\ store[e].snapshot \in Docs(e) \cup {NoSnapshot}
                        /\ store[e].version \in 2 .. (MaxEdits + 2)
      OBVIOUS
    <3>1. store[e] \in Entries(e) /\ store[e].version \in 2 .. (edits + 2) /\ edits \in 0 .. MaxEdits
      BY DEF ReadsInv, StoreInv
    <3>2. MaxEdits \in Nat
      BY ReadsAssumption
    <3> QED BY <3>1, <3>2 DEF Entries
  <2> QED BY <2>1 DEF ReadsTypeOK, ReadsInv, StoreInv, Full, Under
<1>2. InHand => AnswerOk(reading) /\ reading \in ReadRequests /\ ListsAdmit
  BY DEF InHand, ReadsInv, Full, Under
<1>3. \A at : NodesAt(at) = Stands(reading, at)
  BY DEF NodesAt, Stands
<1>4. ShownWasServed
  <2> SUFFICES ASSUME InHand, NEW at, NEW p \in Stands(reading, at) PROVE p \in reading.could
    BY <1>3 DEF ShownWasServed
  <2>1. CASE at = <<>>
    BY <1>2, <2>1 DEF Stands, AnswerOk, RootOk, RowOk
  <2>2. CASE at # <<>>
    BY <1>2, <2>2 DEF Stands, AnswerOk, NodeOk, RowOk
  <2> QED BY <2>1, <2>2
<1>5. ShownIsNamed
  BY <1>2, <1>3 DEF ShownIsNamed, AnswerOk, NodeOk
<1>6. ShownIsReadable
  BY <1>2 DEF ShownIsReadable, ListsAdmit
<1>7. WalkIsWhole
  <2> SUFFICES ASSUME InHand
               PROVE  /\ Cardinality(reading.seen) <= MaxTargets
                      /\ \A l, m \in reading.levels :
                           l.at # m.at /\ IsPrefix(l.at, m.at) => DOMAIN l.rows \cap DOMAIN m.rows = {}
                      /\ \A l \in reading.levels : Answered(reading, l)
    BY Zenon DEF WalkIsWhole, Answered
  <2>1. \A m \in reading.levels : LevelOk(reading, m) /\ Answered(reading, m)
    BY <1>2 DEF AnswerOk, LevelsOk
  <2>2. \A l, m \in reading.levels :
          l.at # m.at /\ IsPrefix(l.at, m.at) => DOMAIN l.rows \cap DOMAIN m.rows = {}
    BY <2>1 DEF LevelOk, Hangs
  <2> QED BY <1>2, <2>1, <2>2 DEF AnswerOk
<1>8. RoadsAgree
  BY RoadsMeet DEF ReadsInv
<1> QED BY <1>1, <1>4, <1>5, <1>6, <1>7, <1>8 DEF ReadsSound

LEMMA ReadsStep == ReadsInv /\ [ReadsNext]_readVars => ReadsInv'
<1> SUFFICES ASSUME ReadsInv, [ReadsNext]_readVars PROVE ReadsInv'
  OBVIOUS
<1>1. ASSUME NEW e \in Stored, NEW f \in DOMAIN TargetKind, NEW ids \in SUBSET EntriesOf[TargetKind[f]],
             Retarget(e, f, ids)
      PROVE  ReadsInv'
  <2>1. Writes(e)
    BY <1>1 DEF Writes
  <2> QED BY <2>1, WritesKeepReads
<1>2. ASSUME NEW e \in Stored, PublishRead(e) \/ TakeDown(e) \/ Discard(e)
      PROVE  ReadsInv'
  <2>1. Writes(e)
    BY <1>2 DEF Writes
  <2> QED BY <2>1, WritesKeepReads
<1>3. ASSUME NEW e \in Stored, SendBack(e) PROVE ReadsInv'
  BY <1>3, SendBackKeepsReads
<1>4. ASSUME NEW s \in Readers, NEW road \in {"get", "list", "translations"}, NEW e \in Stored,
             NEW paths \in Populates, AskRead(s, road, KindOf(e), e, paths)
      PROVE  ReadsInv'
  BY <1>4, AskKeepsReads
<1>5. CASE FetchEntry \/ FetchPage \/ FetchSource \/ FetchGroup
  BY <1>5, FetchKeepsReads
<1>6. CASE ExpandLevel
  BY <1>6, ExpandKeepsReads
<1>7. CASE FinishRead
  BY <1>7, FinishKeepsReads
<1>8. CASE UNCHANGED readVars
  BY <1>8, RequestKept, StoreStays DEF readVars, ReadsInv
<1> QED BY <1>1, <1>2, <1>3, <1>4, <1>5, <1>6, <1>7, <1>8, Zenon DEF ReadsNext

(* A read shows what its caller could be served, from the copy that named  *)
(* it, whole or not at all, whatever is written beside it, and every road  *)
(* to an entry agrees with GET (populate.go populateLevel, parsePopulate,  *)
(* content_service.go, postgres_repository.go).                            *)
THEOREM ReadsAreSound == ReadsSpec => []ReadsSound
<1>1. ReadsInit => ReadsInv
  BY ReadsStart
<1>2. ReadsInv /\ [ReadsNext]_readVars => ReadsInv'
  BY ReadsStep
<1>3. ReadsInv => ReadsSound
  BY ReadsInvSound
<1> QED BY <1>1, <1>2, <1>3, PTL DEF ReadsSpec

=============================================================================
