---------------------------- MODULE OutboxProofs ----------------------------
(***************************************************************************)
(* Proofs about Outbox for every number of events, workers, endpoints,     *)
(* retries and faults.                                                     *)
(***************************************************************************)
EXTENDS Outbox, FiniteSetTheorems, TLAPS

(* What the proofs use of the numbering of rows and destinations. *)
LEMMA Numbering ==
  /\ Hooks \subseteq Dests /\ MCP \in Dests
  /\ \A n \in 1 .. NHooks + 1 : n <= NHooks => n \in Hooks /\ n + 1 \in 1 .. NHooks + 1
BY OutboxAssumption DEF Hooks, Dests, MCP

(* Every step keeps the variables in their types, and a worker busy with a *)
(* row holds it: the two are inductive together only. *)
LEMMA TypeStep == TypeOK /\ HandInv /\ [Next]_vars => TypeOK'
<1> SUFFICES ASSUME TypeOK, HandInv, [Next]_vars PROVE TypeOK'
    OBVIOUS
<1> USE Numbering, OutboxAssumption DEF TypeOK
<1>0. CASE UNCHANGED vars
      BY <1>0 DEF vars, table, loop, record
<1>1. ASSUME NEW r \in Rows, EnqueueTx(r) PROVE TypeOK'
  <2>1. Audience(r, hooks) \in SUBSET Dests
        BY DEF Audience
  <2>2. QED BY <1>1, <2>1 DEF EnqueueTx, Statuses, loop
<1>2. ASSUME NEW r \in Rows, Age(r) PROVE TypeOK'
      BY <1>2 DEF Age, loop, record
<1>3. CASE CreateWebhook
      BY <1>3 DEF CreateWebhook, table, loop, record
<1>4. ASSUME NEW e \in Hooks, DeleteWebhook(e) PROVE TypeOK'
      BY <1>4 DEF DeleteWebhook, table, loop
<1>5. ASSUME NEW w \in Workers, ReclaimStale(w) PROVE TypeOK'
      BY <1>5 DEF ReclaimStale, StaleRows, Statuses, Phases
<1>6. ASSUME NEW w \in Workers, ClaimPending(w) PROVE TypeOK'
  <2>1. Claimable \in SUBSET Rows
        BY DEF Claimable
  <2>2. QED BY <1>6, <2>1 DEF ClaimPending, Statuses, Phases, record
<1>7. ASSUME NEW w \in Workers, ClaimCancelled(w) PROVE TypeOK'
      BY <1>7 DEF ClaimCancelled, Phases, table, record
<1>8. ASSUME NEW w \in Workers, NEW r \in Rows, Deliver(w, r) PROVE TypeOK'
  <2>1. Audience(r, hooks) \in SUBSET Dests
        BY DEF Audience
  <2>2. QED BY <1>8, <2>1 DEF Deliver, Phases, table, record
<1>9. ASSUME NEW w \in Workers, NEW r \in Rows,
             DeliverUnrouted(w, r) \/ DeliverCancelled(w, r) \/ DirectoryError(w, r)
      PROVE  TypeOK'
      BY <1>9 DEF DeliverUnrouted, DeliverCancelled, DirectoryError, Fault, Phases,
                  table, record
<1>10. ASSUME NEW w \in Workers, NEW d \in Dests, SendOk(w, d) PROVE TypeOK'
      BY <1>10 DEF SendOk, table
<1>11. ASSUME NEW w \in Workers, NEW d \in Dests, NEW p \in BOOLEAN, SendFail(w, d, p)
       PROVE  TypeOK'
  <2>1. cur[w] \in Rows
        BY <1>11 DEF SendFail, HandInv, Delivering
  <2>2. QED BY <1>11, <2>1 DEF SendFail, Phases, table
<1>12. ASSUME NEW w \in Workers, MarkDone(w) PROVE TypeOK'
      BY <1>12 DEF MarkDone, Settle, Statuses, Phases, record
<1>13. ASSUME NEW w \in Workers, MarkFailedWithRetry(w) PROVE TypeOK'
  <2>1. cur[w] \in Rows
        BY <1>13 DEF MarkFailedWithRetry, HandInv, Delivering
  <2>2. retry' \in [Rows -> Nat] /\ status' \in [Rows -> Statuses] /\ old' = old
        BY <1>13, <2>1 DEF MarkFailedWithRetry, FailRow, Statuses
  <2>3. QED BY <1>13, <2>2 DEF MarkFailedWithRetry, Settle, Phases, record
<1>14. ASSUME NEW w \in Workers, NotifyDeadLetter(w) PROVE TypeOK'
  <2>1. cur[w] \in Rows
        BY <1>14 DEF NotifyDeadLetter, HandInv, Delivering
  <2>2. notices' \in [Rows -> Nat]
        BY <1>14, <2>1 DEF NotifyDeadLetter
  <2>3. QED BY <1>14, <2>2 DEF NotifyDeadLetter, Settle, Phases, table
<1>15. ASSUME NEW w \in Workers, NEW a \in BOOLEAN, MarkError(w, a) PROVE TypeOK'
      BY <1>15 DEF MarkError, Fault, FailRow, Settle, Statuses, Phases, table, record
<1>16. ASSUME NEW w \in Workers, Restart(w) \/ Shutdown(w) PROVE TypeOK'
      BY <1>16 DEF Restart, Shutdown, Fault, table, record
<1>17. ASSUME NEW w \in Workers, ReclaimError(w) \/ ClaimError(w) PROVE TypeOK'
      BY <1>17 DEF ReclaimError, ClaimError, Fault, Phases, table, record
<1>18. ASSUME NEW w \in Workers, Crash(w) PROVE TypeOK'
      BY <1>18 DEF Crash, Fault, Phases, table, record
<1> QED BY <1>0, <1>1, <1>2, <1>3, <1>4, <1>5, <1>6, <1>7, <1>8, <1>9, <1>10, <1>11,
           <1>12, <1>13, <1>14, <1>15, <1>16, <1>17, <1>18 DEF Next, WorkerStep, FaultStep

(* A worker busy with a row holds it, and what it holds was committed. *)
LEMMA HandStep == TypeOK /\ HandInv /\ [Next]_vars => HandInv'
<1> SUFFICES ASSUME TypeOK, HandInv, [Next]_vars, NEW u \in Workers
             PROVE  /\ phase'[u] \in Delivering => cur'[u] \in hand'[u]
                    /\ phase'[u] \in {"poll", "claim"} => hand'[u] = {}
                    /\ \A r \in hand'[u] : status'[r] # "none"
    BY DEF HandInv
<1> DEFINE Goal == /\ phase'[u] \in Delivering => cur'[u] \in hand'[u]
                   /\ phase'[u] \in {"poll", "claim"} => hand'[u] = {}
                   /\ \A r \in hand'[u] : status'[r] # "none"
<1> USE DEF TypeOK, HandInv, Delivering
<1>0. CASE UNCHANGED vars
      BY <1>0 DEF vars, table, loop
<1>1. ASSUME NEW r \in Rows, EnqueueTx(r) \/ Age(r) PROVE Goal
      BY <1>1 DEF EnqueueTx, Age, loop
<1>2. CASE CreateWebhook \/ \E e \in Hooks : DeleteWebhook(e)
      BY <1>2 DEF CreateWebhook, DeleteWebhook, table, loop
<1>3. ASSUME NEW w \in Workers, ReclaimStale(w) PROVE Goal
      BY <1>3 DEF ReclaimStale, StaleRows
<1>4. ASSUME NEW w \in Workers, ClaimPending(w) PROVE Goal
  <2>1. Claimable \subseteq Rows /\ \A r \in Claimable : status[r] = "pending"
        BY DEF Claimable
  <2>2. QED BY <1>4, <2>1 DEF ClaimPending
<1>5. ASSUME NEW w \in Workers,
             ClaimCancelled(w) \/ ReclaimError(w) \/ ClaimError(w)
      PROVE  Goal
      BY <1>5 DEF ClaimCancelled, ReclaimError, ClaimError, table
<1>6. ASSUME NEW w \in Workers, NEW r \in Rows,
             \/ Deliver(w, r) \/ DeliverUnrouted(w, r)
             \/ DeliverCancelled(w, r) \/ DirectoryError(w, r)
      PROVE  Goal
      BY <1>6 DEF Deliver, DeliverUnrouted, DeliverCancelled, DirectoryError, table
<1>7. ASSUME NEW w \in Workers, NEW d \in Dests,
             SendOk(w, d) \/ \E p \in BOOLEAN : SendFail(w, d, p)
      PROVE  Goal
      BY <1>7 DEF SendOk, SendFail, table
<1>8. ASSUME NEW w \in Workers, MarkDone(w) PROVE Goal
      BY <1>8 DEF MarkDone, Settle
<1>9. ASSUME NEW w \in Workers, MarkFailedWithRetry(w) PROVE Goal
      BY <1>9 DEF MarkFailedWithRetry, FailRow, Settle
<1>10. ASSUME NEW w \in Workers, NotifyDeadLetter(w) PROVE Goal
      BY <1>10 DEF NotifyDeadLetter, Settle, table
<1>11. ASSUME NEW w \in Workers, NEW a \in BOOLEAN, MarkError(w, a) PROVE Goal
      BY <1>11 DEF MarkError, FailRow, Settle, table
<1>12. ASSUME NEW w \in Workers, Restart(w) \/ Shutdown(w) \/ Crash(w) PROVE Goal
      BY <1>12 DEF Restart, Shutdown, Crash, table
<1> QED BY <1>0, <1>1, <1>2, <1>3, <1>4, <1>5, <1>6, <1>7, <1>8, <1>9, <1>10, <1>11,
           <1>12 DEF Next, WorkerStep, FaultStep

(* The fan-out invariant: what a worker has not yet to do, is heard. *)
LEMMA FanoutStep == TypeOK /\ HandInv /\ FanoutInv /\ [Next]_vars => FanoutInv'
<1> SUFFICES ASSUME TypeOK, HandInv, FanoutInv, [Next]_vars PROVE FanoutInv'
    OBVIOUS
<1> USE DEF TypeOK, HandInv, FanoutInv, Delivering
<1>0. CASE UNCHANGED vars
      BY <1>0 DEF vars, table, loop, record, Audience
<1>1. ASSUME NEW r \in Rows, EnqueueTx(r) PROVE FanoutInv'
  <2>1. \A w \in Workers : phase[w] = "send" => cur[w] # r
        BY <1>1 DEF EnqueueTx
  <2>2. QED BY <1>1, <2>1 DEF EnqueueTx, loop, Audience
<1>2. ASSUME NEW r \in Rows, Age(r) PROVE FanoutInv'
      BY <1>2 DEF Age, loop, record, Audience
<1>3. CASE CreateWebhook
      BY <1>3 DEF CreateWebhook, loop, record, Audience
<1>4. ASSUME NEW e \in Hooks, DeleteWebhook(e) PROVE FanoutInv'
  <2>1. MCP \notin Hooks
        BY OutboxAssumption DEF MCP, Hooks
  <2>2. QED BY <1>4, <2>1 DEF DeleteWebhook, loop, Audience
<1>5. ASSUME NEW w \in Workers,
             \/ ReclaimStale(w) \/ ClaimPending(w) \/ ClaimCancelled(w)
             \/ ReclaimError(w) \/ ClaimError(w)
      PROVE  FanoutInv'
      BY <1>5 DEF ReclaimStale, ClaimPending, ClaimCancelled, ReclaimError, ClaimError,
                  record, Audience
<1>6. ASSUME NEW w \in Workers, NEW r \in Rows, Deliver(w, r) PROVE FanoutInv'
      BY <1>6 DEF Deliver, record, Audience
<1>7. ASSUME NEW w \in Workers, NEW r \in Rows,
             DeliverUnrouted(w, r) \/ DeliverCancelled(w, r) \/ DirectoryError(w, r)
      PROVE  FanoutInv'
      BY <1>7 DEF DeliverUnrouted, DeliverCancelled, DirectoryError, record, Audience
<1>8. ASSUME NEW w \in Workers, NEW d \in Dests, SendOk(w, d) PROVE FanoutInv'
      BY <1>8 DEF SendOk, Audience
<1>9. ASSUME NEW w \in Workers, NEW d \in Dests, NEW p \in BOOLEAN, SendFail(w, d, p)
      PROVE  FanoutInv'
      BY <1>9 DEF SendFail, Audience
<1>10. ASSUME NEW w \in Workers, MarkDone(w) \/ NotifyDeadLetter(w) PROVE FanoutInv'
      BY <1>10 DEF MarkDone, NotifyDeadLetter, Settle, record, Audience
<1>11. ASSUME NEW w \in Workers, MarkFailedWithRetry(w) PROVE FanoutInv'
      BY <1>11 DEF MarkFailedWithRetry, Settle, record, Audience
<1>12. ASSUME NEW w \in Workers, NEW a \in BOOLEAN, MarkError(w, a) PROVE FanoutInv'
      BY <1>12 DEF MarkError, Settle, record, Audience
<1>13. ASSUME NEW w \in Workers, Restart(w) \/ Shutdown(w) \/ Crash(w)
       PROVE  FanoutInv'
      BY <1>13 DEF Restart, Shutdown, Crash, record, Audience
<1> HIDE DEF TypeOK, HandInv, FanoutInv, Delivering
<1> QED BY <1>0, <1>1, <1>2, <1>3, <1>4, <1>5, <1>6, <1>7, <1>8, <1>9, <1>10, <1>11,
           <1>12, <1>13 DEF Next, WorkerStep, FaultStep

(* A row becomes done at the end of a fan-out and nowhere else. *)
LEMMA DoneStep ==
  TypeOK /\ HandInv /\ FanoutInv /\ DoneMeansHeard /\ [Next]_vars => DoneMeansHeard'
<1> SUFFICES ASSUME TypeOK, HandInv, FanoutInv, DoneMeansHeard, [Next]_vars
             PROVE  DoneMeansHeard'
    OBVIOUS
<1> USE DEF TypeOK, HandInv, FanoutInv, DoneMeansHeard, Delivering
<1>0. CASE UNCHANGED vars
      BY <1>0 DEF vars, table, record
<1>1. ASSUME NEW r \in Rows, EnqueueTx(r) \/ Age(r) PROVE DoneMeansHeard'
      BY <1>1 DEF EnqueueTx, Age, record
<1>2. CASE CreateWebhook \/ \E e \in Hooks : DeleteWebhook(e)
      BY <1>2 DEF CreateWebhook, DeleteWebhook, table, record
<1>3. ASSUME NEW w \in Workers,
             ReclaimStale(w) \/ ClaimPending(w) \/ ClaimCancelled(w)
      PROVE  DoneMeansHeard'
      BY <1>3 DEF ReclaimStale, ClaimPending, ClaimCancelled, table, record
<1>4. ASSUME NEW w \in Workers, NEW r \in Rows,
             \/ Deliver(w, r) \/ DeliverUnrouted(w, r)
             \/ DeliverCancelled(w, r) \/ DirectoryError(w, r)
      PROVE  DoneMeansHeard'
      BY <1>4 DEF Deliver, DeliverUnrouted, DeliverCancelled, DirectoryError, table, record
<1>5. ASSUME NEW w \in Workers, NEW d \in Dests,
             SendOk(w, d) \/ \E p \in BOOLEAN : SendFail(w, d, p)
      PROVE  DoneMeansHeard'
      BY <1>5 DEF SendOk, SendFail, table
<1>6. ASSUME NEW w \in Workers, MarkDone(w) PROVE DoneMeansHeard'
      BY <1>6 DEF MarkDone, record
<1>7. ASSUME NEW w \in Workers, MarkFailedWithRetry(w) \/ NotifyDeadLetter(w)
      PROVE  DoneMeansHeard'
      BY <1>7 DEF MarkFailedWithRetry, NotifyDeadLetter, FailRow, table, record
<1>8. ASSUME NEW w \in Workers, NEW a \in BOOLEAN, MarkError(w, a)
      PROVE  DoneMeansHeard'
      BY <1>8 DEF MarkError, FailRow, table, record
<1>9. ASSUME NEW w \in Workers,
             \/ Restart(w) \/ ReclaimError(w) \/ ClaimError(w)
             \/ Shutdown(w) \/ Crash(w)
      PROVE  DoneMeansHeard'
      BY <1>9 DEF Restart, ReclaimError, ClaimError, Shutdown, Crash, table, record
<1> HIDE DEF TypeOK, HandInv, FanoutInv, DoneMeansHeard, Delivering
<1> QED BY <1>0, <1>1, <1>2, <1>3, <1>4, <1>5, <1>6, <1>7, <1>8, <1>9
        DEF Next, WorkerStep, FaultStep

(* A claim that was never reclaimed stays exclusive, and its row stays in  *)
(* processing until the holder settles it. *)
LEMMA ClaimStep == TypeOK /\ HandInv /\ ClaimInv /\ [Next]_vars => ClaimInv'
<1> SUFFICES ASSUME TypeOK, HandInv, ClaimInv, [Next]_vars PROVE ClaimInv'
    OBVIOUS
<1> USE DEF TypeOK, HandInv, ClaimInv, Delivering
<1>0. CASE UNCHANGED vars
      BY <1>0 DEF vars, table, loop, record
<1>1. ASSUME NEW r \in Rows, EnqueueTx(r) \/ Age(r) PROVE ClaimInv'
      BY <1>1 DEF EnqueueTx, Age, loop, record
<1>2. CASE CreateWebhook \/ \E e \in Hooks : DeleteWebhook(e)
      BY <1>2 DEF CreateWebhook, DeleteWebhook, table, loop, record
<1>3. ASSUME NEW w \in Workers, ReclaimStale(w) PROVE ClaimInv'
      BY <1>3 DEF ReclaimStale
<1>4. ASSUME NEW w \in Workers, ClaimPending(w) PROVE ClaimInv'
  <2>1. Claimable \subseteq Rows /\ \A r \in Claimable : status[r] = "pending"
        BY DEF Claimable
  <2>2. \A r \in Claimable \ reclaimed : \A v \in Workers : r \notin hand[v]
        BY <2>1
  <2>3. QED BY <1>4, <2>1, <2>2 DEF ClaimPending, record
<1>5. ASSUME NEW w \in Workers,
             ClaimCancelled(w) \/ ReclaimError(w) \/ ClaimError(w)
      PROVE  ClaimInv'
      BY <1>5 DEF ClaimCancelled, ReclaimError, ClaimError, table, record
<1>6. ASSUME NEW w \in Workers, NEW r \in Rows,
             \/ Deliver(w, r) \/ DeliverUnrouted(w, r)
             \/ DeliverCancelled(w, r) \/ DirectoryError(w, r)
      PROVE  ClaimInv'
      BY <1>6 DEF Deliver, DeliverUnrouted, DeliverCancelled, DirectoryError, table, record
<1>7. ASSUME NEW w \in Workers, NEW d \in Dests,
             SendOk(w, d) \/ \E p \in BOOLEAN : SendFail(w, d, p)
      PROVE  ClaimInv'
      BY <1>7 DEF SendOk, SendFail, table
<1>8. ASSUME NEW w \in Workers, MarkDone(w) PROVE ClaimInv'
      BY <1>8 DEF MarkDone, Settle, record
<1>9. ASSUME NEW w \in Workers, MarkFailedWithRetry(w) PROVE ClaimInv'
      BY <1>9 DEF MarkFailedWithRetry, FailRow, Settle, record
<1>10. ASSUME NEW w \in Workers, NotifyDeadLetter(w) PROVE ClaimInv'
      BY <1>10 DEF NotifyDeadLetter, Settle, table
<1>11. ASSUME NEW w \in Workers, NEW a \in BOOLEAN, MarkError(w, a) PROVE ClaimInv'
  <2>1. cur[w] \in hand[w] /\ phase[w] # "notify"
        BY <1>11 DEF MarkError
  <2>2. \A r \in Rows : r # cur[w] => status'[r] = status[r]
        BY <1>11 DEF MarkError, FailRow, table
  <2>3. QED BY <1>11, <2>1, <2>2 DEF MarkError, Settle, record
<1>12. ASSUME NEW w \in Workers, Restart(w) \/ Shutdown(w) \/ Crash(w) PROVE ClaimInv'
      BY <1>12 DEF Restart, Shutdown, Crash, table, record
<1> HIDE DEF TypeOK, HandInv, ClaimInv, Delivering
<1> QED BY <1>0, <1>1, <1>2, <1>3, <1>4, <1>5, <1>6, <1>7, <1>8, <1>9, <1>10, <1>11,
           <1>12 DEF Next, WorkerStep, FaultStep

(* A notice is only ever about a row whose budget is spent. *)
LEMMA NoticeStep == TypeOK /\ HandInv /\ NoticeInv /\ [Next]_vars => NoticeInv'
<1> SUFFICES ASSUME TypeOK, HandInv, NoticeInv, [Next]_vars PROVE NoticeInv'
    OBVIOUS
<1> USE OutboxAssumption DEF TypeOK, HandInv, NoticeInv, Delivering
<1>0. CASE UNCHANGED vars
      BY <1>0 DEF vars, table, loop, record
<1>1. ASSUME NEW r \in Rows, EnqueueTx(r) \/ Age(r) PROVE NoticeInv'
      BY <1>1 DEF EnqueueTx, Age, loop, record
<1>2. CASE CreateWebhook \/ \E e \in Hooks : DeleteWebhook(e)
      BY <1>2 DEF CreateWebhook, DeleteWebhook, table, loop, record
<1>3. ASSUME NEW w \in Workers,
             \/ ReclaimStale(w) \/ ClaimPending(w) \/ ClaimCancelled(w)
             \/ ReclaimError(w) \/ ClaimError(w)
      PROVE  NoticeInv'
      BY <1>3 DEF ReclaimStale, ClaimPending, ClaimCancelled, ReclaimError, ClaimError,
                  table, record
<1>4. ASSUME NEW w \in Workers, NEW r \in Rows,
             \/ Deliver(w, r) \/ DeliverUnrouted(w, r)
             \/ DeliverCancelled(w, r) \/ DirectoryError(w, r)
      PROVE  NoticeInv'
      BY <1>4 DEF Deliver, DeliverUnrouted, DeliverCancelled, DirectoryError, table, record
<1>5. ASSUME NEW w \in Workers, NEW d \in Dests,
             SendOk(w, d) \/ \E p \in BOOLEAN : SendFail(w, d, p)
      PROVE  NoticeInv'
      BY <1>5 DEF SendOk, SendFail, table
<1>6. ASSUME NEW w \in Workers, MarkDone(w) PROVE NoticeInv'
      BY <1>6 DEF MarkDone, Settle, record
<1>7. ASSUME NEW w \in Workers, MarkFailedWithRetry(w) PROVE NoticeInv'
  <2>1. cur[w] \in Rows /\ retry'[cur[w]] = retry[cur[w]] + 1
        BY <1>7 DEF MarkFailedWithRetry, FailRow
  <2>2. \A r \in Rows : retry'[r] >= retry[r]
        BY <1>7, <2>1 DEF MarkFailedWithRetry, FailRow
  <2>3. \A r \in Rows : notices'[r] > 0 => r \in ContentRows /\ retry'[r] >= MaxRetries
    <3>1. retry' \in [Rows -> Nat] /\ notices' = notices
          BY <1>7, <2>1 DEF MarkFailedWithRetry, FailRow, record
    <3>2. QED BY <2>2, <3>1
  <2>4. ASSUME NEW v \in Workers, phase'[v] = "notify"
        PROVE  cur'[v] \in ContentRows /\ retry'[cur'[v]] >= MaxRetries
    <3>1. CASE v = w
          BY <1>7, <2>1, <2>4, <3>1 DEF MarkFailedWithRetry, Dead, Settle
    <3>2. CASE v # w
      <4>1. phase[v] = "notify" /\ cur'[v] = cur[v]
            BY <1>7, <2>4, <3>2 DEF MarkFailedWithRetry, Settle
      <4>2. cur[v] \in Rows /\ retry'[cur[v]] \in Nat
            BY <1>7, <2>1, <4>1 DEF MarkFailedWithRetry, FailRow
      <4>3. QED BY <4>1, <4>2, <2>2
    <3>3. QED BY <3>1, <3>2
  <2>5. QED BY <2>3, <2>4
<1>8. ASSUME NEW w \in Workers, NotifyDeadLetter(w) PROVE NoticeInv'
      BY <1>8 DEF NotifyDeadLetter, Settle, table
<1>9. ASSUME NEW w \in Workers, NEW a \in BOOLEAN, MarkError(w, a) PROVE NoticeInv'
  <2>1. \A r \in Rows : retry'[r] \in Nat /\ retry'[r] >= retry[r]
        BY <1>9 DEF MarkError, FailRow, table
  <2>2. QED BY <1>9, <2>1 DEF MarkError, Settle, record
<1>10. ASSUME NEW w \in Workers, Restart(w) \/ Shutdown(w) \/ Crash(w) PROVE NoticeInv'
      BY <1>10 DEF Restart, Shutdown, Crash, table, record
<1> HIDE DEF TypeOK, HandInv, NoticeInv, Delivering
<1> QED BY <1>0, <1>1, <1>2, <1>3, <1>4, <1>5, <1>6, <1>7, <1>8, <1>9, <1>10
        DEF Next, WorkerStep, FaultStep

(* What a step may do to the budget of one row: keep the count and gain no *)
(* holder (unless the row was pending), or count one failure and lose the  *)
(* holder that reported it. *)
Kept(r) ==
  /\ retry'[r] = retry[r]
  /\ status'[r] \in {"none", "pending", "processing"}
       => status[r] \in {"none", "pending", "processing"}
  /\ status[r] # "pending" => Holders(r)' \subseteq Holders(r)

Charged(r, w) ==
  /\ w \in Holders(r)
  /\ Holders(r)' \subseteq Holders(r) \ {w}
  /\ retry'[r] = retry[r] + 1
  /\ status'[r] = IF retry[r] + 1 >= MaxRetries THEN "failed" ELSE "pending"

(* Both kinds of step preserve the budget of the row. *)
LEMMA BudgetArithmetic ==
  ASSUME TypeOK, BudgetInv, NEW r \in Rows,
         Kept(r) \/ \E w \in Workers : Charged(r, w)
  PROVE  /\ status'[r] \in {"none", "pending", "processing"} => retry'[r] < MaxRetries
         /\ retry'[r] >= MaxRetries =>
              retry'[r] + Cardinality(Holders(r)') < MaxRetries + Cardinality(Workers)
<1> DEFINE H == Holders(r)
           G == Holders(r)'
<1>1. /\ IsFiniteSet(Workers) /\ H \subseteq Workers /\ G \subseteq Workers
      BY OutboxAssumption DEF Holders
<1>2. /\ IsFiniteSet(H) /\ IsFiniteSet(G)
      /\ Cardinality(H) \in Nat /\ Cardinality(G) \in Nat /\ Cardinality(Workers) \in Nat
      /\ Cardinality(H) <= Cardinality(Workers)
      BY <1>1, FS_Subset, FS_CardinalityType
<1>3. retry[r] \in Nat /\ MaxRetries \in Nat \ {0}
      BY OutboxAssumption DEF TypeOK
<1>4. CASE Kept(r)
  <2>1. ASSUME retry'[r] >= MaxRetries
        PROVE  retry'[r] + Cardinality(G) < MaxRetries + Cardinality(Workers)
    <3>1. retry[r] >= MaxRetries /\ status[r] # "pending"
          BY <1>3, <1>4, <2>1 DEF Kept, BudgetInv
    <3>2. Cardinality(G) <= Cardinality(H)
          BY <1>2, <1>4, <3>1, FS_Subset DEF Kept
    <3>3. retry[r] + Cardinality(H) < MaxRetries + Cardinality(Workers)
          BY <3>1 DEF BudgetInv
    <3>4. retry'[r] = retry[r]
          BY <1>4 DEF Kept
    <3> HIDE DEF H, G
    <3>5. QED BY <1>2, <1>3, <3>2, <3>3, <3>4
  <2>2. QED BY <1>3, <1>4, <2>1 DEF Kept, BudgetInv
<1>5. ASSUME NEW w \in Workers, Charged(r, w)
      PROVE  /\ status'[r] \in {"none", "pending", "processing"} => retry'[r] < MaxRetries
             /\ retry'[r] >= MaxRetries =>
                  retry'[r] + Cardinality(G) < MaxRetries + Cardinality(Workers)
  <2>1. Cardinality(H \ {w}) = Cardinality(H) - 1 /\ IsFiniteSet(H \ {w})
        BY <1>2, <1>5, FS_RemoveElement DEF Charged
  <2>2. Cardinality(G) <= Cardinality(H \ {w})
        BY <1>5, <2>1, FS_Subset DEF Charged
  <2>3. retry[r] >= MaxRetries =>
          retry[r] + Cardinality(H) < MaxRetries + Cardinality(Workers)
        BY DEF BudgetInv
  <2>4. retry'[r] = retry[r] + 1
        BY <1>5 DEF Charged
  <2>5. status'[r] \in {"none", "pending", "processing"} => retry'[r] < MaxRetries
        BY <1>3, <1>5, <2>4 DEF Charged
  <2> HIDE DEF H, G
  <2>6. QED BY <1>2, <1>3, <2>1, <2>2, <2>3, <2>4, <2>5
<1>6. QED BY <1>4, <1>5

(* Every step keeps or charges each row. *)
LEMMA BudgetStep == TypeOK /\ HandInv /\ BudgetInv /\ [Next]_vars => BudgetInv'
<1> SUFFICES ASSUME TypeOK, HandInv, BudgetInv, [Next]_vars, NEW r \in Rows
             PROVE  Kept(r) \/ \E w \in Workers : Charged(r, w)
    BY BudgetArithmetic DEF BudgetInv
<1> USE DEF TypeOK, HandInv, Delivering, Kept, Charged, Holders
<1>0. CASE UNCHANGED vars
      BY <1>0 DEF vars, table, loop
<1>1. ASSUME NEW q \in Rows, EnqueueTx(q) \/ Age(q) PROVE Kept(r)
      BY <1>1 DEF EnqueueTx, Age, loop
<1>2. CASE CreateWebhook \/ \E e \in Hooks : DeleteWebhook(e)
      BY <1>2 DEF CreateWebhook, DeleteWebhook, table, loop
<1>3. ASSUME NEW w \in Workers, ReclaimStale(w) PROVE Kept(r)
      BY <1>3 DEF ReclaimStale, StaleRows
<1>4. ASSUME NEW w \in Workers, ClaimPending(w) PROVE Kept(r)
  <2>1. r \in Claimable => status[r] = "pending"
        BY DEF Claimable
  <2>2. QED BY <1>4, <2>1 DEF ClaimPending
<1>5. ASSUME NEW w \in Workers,
             ClaimCancelled(w) \/ ReclaimError(w) \/ ClaimError(w)
      PROVE  Kept(r)
      BY <1>5 DEF ClaimCancelled, ReclaimError, ClaimError, table
<1>6. ASSUME NEW w \in Workers, NEW q \in Rows,
             \/ Deliver(w, q) \/ DeliverUnrouted(w, q)
             \/ DeliverCancelled(w, q) \/ DirectoryError(w, q)
      PROVE  Kept(r)
      BY <1>6 DEF Deliver, DeliverUnrouted, DeliverCancelled, DirectoryError, table
<1>7. ASSUME NEW w \in Workers, NEW d \in Dests,
             SendOk(w, d) \/ \E p \in BOOLEAN : SendFail(w, d, p)
      PROVE  Kept(r)
      BY <1>7 DEF SendOk, SendFail, table
<1>8. ASSUME NEW w \in Workers, MarkDone(w) PROVE Kept(r)
      BY <1>8 DEF MarkDone, Settle
<1>9. ASSUME NEW w \in Workers, MarkFailedWithRetry(w) PROVE Kept(r) \/ Charged(r, w)
  <2>1. CASE r = cur[w]
        BY <1>9, <2>1 DEF MarkFailedWithRetry, FailRow, Dead, Settle
  <2>2. CASE r # cur[w]
        BY <1>9, <2>2 DEF MarkFailedWithRetry, FailRow, Settle
  <2>3. QED BY <2>1, <2>2
<1>10. ASSUME NEW w \in Workers, NotifyDeadLetter(w) PROVE Kept(r)
      BY <1>10 DEF NotifyDeadLetter, Settle, table
<1>11. ASSUME NEW w \in Workers, NEW a \in BOOLEAN, MarkError(w, a)
       PROVE  Kept(r) \/ Charged(r, w)
  <2>1. CASE r = cur[w]
        BY <1>11, <2>1 DEF MarkError, FailRow, Dead, Settle, table
  <2>2. CASE r # cur[w]
        BY <1>11, <2>2 DEF MarkError, FailRow, Settle, table
  <2>3. QED BY <2>1, <2>2
<1>12. ASSUME NEW w \in Workers, Restart(w) \/ Shutdown(w) \/ Crash(w) PROVE Kept(r)
      BY <1>12 DEF Restart, Shutdown, Crash, table
<1> HIDE DEF TypeOK, HandInv, Delivering, Kept, Charged, Holders
<1> QED BY <1>0, <1>1, <1>2, <1>3, <1>4, <1>5, <1>6, <1>7, <1>8, <1>9, <1>10, <1>11,
           <1>12 DEF Next, WorkerStep, FaultStep

(* Destinations on a list were registered when the list was read. *)
LEMMA AddressStep == TypeOK /\ HandInv /\ AddressInv /\ [Next]_vars => AddressInv'
<1> SUFFICES ASSUME TypeOK, HandInv, AddressInv, [Next]_vars PROVE AddressInv'
    OBVIOUS
<1>1. nextHook \in Nat /\ nextHook' \in Nat /\ Registered = 1 .. nextHook - 1
      BY TypeStep, OutboxAssumption DEF TypeOK, Registered
<1>2. ASSUME NEW w \in Workers, NEW r \in Rows, Deliver(w, r)
      PROVE  AddressInv'
  <2>1. Audience(r, hooks) \subseteq Audience(r, Registered)
        BY DEF AddressInv, Audience
  <2>2. \A v \in Workers \ {w} : phase'[v] = phase[v] /\ todo'[v] = todo[v] /\ cur'[v] = cur[v]
        BY <1>2 DEF Deliver, TypeOK
  <2>3. todo'[w] = Audience(r, hooks) /\ cur'[w] = r
        BY <1>2 DEF Deliver, TypeOK
  <2>4. hooks' = hooks /\ nextHook' = nextHook
        BY <1>2 DEF Deliver
  <2> QED BY <2>1, <2>2, <2>3, <2>4 DEF AddressInv, Audience, Registered
<1>3. ASSUME nextHook' = nextHook, hooks' \subseteq hooks,
             \A v \in Workers : phase'[v] = "send" =>
               phase[v] = "send" /\ cur'[v] = cur[v] /\ todo'[v] \subseteq todo[v]
      PROVE  AddressInv'
      BY <1>3 DEF AddressInv, Audience, Registered
<1>4. CASE CreateWebhook
  <2>1. /\ hooks' = hooks \cup {nextHook} /\ nextHook' = nextHook + 1
        /\ phase' = phase /\ cur' = cur /\ todo' = todo
        BY <1>4 DEF CreateWebhook, loop
  <2>2. Registered \subseteq Registered' /\ nextHook \in Registered'
        BY <1>1, <2>1, OutboxAssumption DEF Registered, TypeOK
  <2> QED BY <2>1, <2>2 DEF AddressInv, Audience
<1> USE DEF TypeOK, HandInv, Delivering
<1>5. ASSUME NEW r \in Rows, EnqueueTx(r) \/ Age(r) PROVE AddressInv'
      BY <1>3, <1>5 DEF EnqueueTx, Age, loop
<1>6. ASSUME NEW e \in Hooks, DeleteWebhook(e) PROVE AddressInv'
      BY <1>3, <1>6 DEF DeleteWebhook, loop
<1>7. ASSUME NEW w \in Workers,
             \/ ReclaimStale(w) \/ ClaimPending(w) \/ ClaimCancelled(w)
             \/ ReclaimError(w) \/ ClaimError(w)
      PROVE  AddressInv'
      BY <1>3, <1>7 DEF ReclaimStale, ClaimPending, ClaimCancelled, ReclaimError, ClaimError
<1>8. ASSUME NEW w \in Workers, NEW r \in Rows,
             DeliverUnrouted(w, r) \/ DeliverCancelled(w, r) \/ DirectoryError(w, r)
      PROVE  AddressInv'
      BY <1>3, <1>8 DEF DeliverUnrouted, DeliverCancelled, DirectoryError
<1>9. ASSUME NEW w \in Workers, NEW d \in Dests,
             SendOk(w, d) \/ \E p \in BOOLEAN : SendFail(w, d, p)
      PROVE  AddressInv'
      BY <1>3, <1>9 DEF SendOk, SendFail
<1>10. ASSUME NEW w \in Workers,
              \/ MarkDone(w) \/ MarkFailedWithRetry(w) \/ NotifyDeadLetter(w)
              \/ \E a \in BOOLEAN : MarkError(w, a)
       PROVE  AddressInv'
      BY <1>3, <1>10 DEF MarkDone, MarkFailedWithRetry, NotifyDeadLetter, MarkError, Settle
<1>11. ASSUME NEW w \in Workers, Restart(w) \/ Shutdown(w) \/ Crash(w) PROVE AddressInv'
      BY <1>3, <1>11 DEF Restart, Shutdown, Crash
<1>12. CASE UNCHANGED vars
      BY <1>3, <1>12 DEF vars, loop
<1> HIDE DEF TypeOK, HandInv, Delivering
<1> QED BY <1>2, <1>4, <1>5, <1>6, <1>7, <1>8, <1>9, <1>10, <1>11, <1>12
        DEF Next, WorkerStep, FaultStep

-----------------------------------------------------------------------------
(* The inductive invariant. *)
IInv ==
  /\ TypeOK /\ HandInv /\ FanoutInv /\ DoneMeansHeard
  /\ BudgetInv /\ ClaimInv /\ NoticeInv /\ AddressInv

(* The invariant holds initially, and every step preserves it. *)
THEOREM Invariance == Spec => []IInv
<1>1. Init => IInv
  <2> SUFFICES ASSUME Init PROVE IInv
      OBVIOUS
  <2> USE OutboxAssumption DEF Init
  <2>1. TypeOK
        BY DEF TypeOK, Statuses, Phases, NoRow
  <2>2. HandInv /\ ClaimInv
        BY DEF HandInv, ClaimInv, Delivering
  <2>3. FanoutInv /\ DoneMeansHeard
        BY DEF FanoutInv, DoneMeansHeard
  <2>4. BudgetInv /\ NoticeInv
        BY DEF BudgetInv, NoticeInv
  <2>5. AddressInv
        BY DEF AddressInv
  <2>6. QED BY <2>1, <2>2, <2>3, <2>4, <2>5 DEF IInv
<1>2. IInv /\ [Next]_vars => IInv'
      BY TypeStep, HandStep, FanoutStep, DoneStep, BudgetStep, ClaimStep, NoticeStep,
         AddressStep DEF IInv
<1>3. QED BY <1>1, <1>2, PTL DEF Spec

(* The variables of the outbox and its workers keep their types. *)
THEOREM TypeCorrect == Spec => []TypeOK
BY Invariance, PTL DEF IInv

(* At-least-once: a row that is done was processed by every destination    *)
(* subscribed without a break since the writer committed. *)
THEOREM AtLeastOnce == Spec => []DoneMeansHeard
BY Invariance, PTL DEF IInv

(* The retry budget holds for any number of workers with reclaimed copies. *)
THEOREM BudgetHolds == Spec => []RetryBudget
<1>1. IInv => RetryBudget
  <2> SUFFICES ASSUME IInv, NEW r \in Rows
               PROVE  /\ status[r] \in {"pending", "processing"} => retry[r] < MaxRetries
                      /\ retry[r] < MaxRetries + Cardinality(Workers)
      BY DEF RetryBudget
  <2>1. IsFiniteSet(Holders(r)) /\ IsFiniteSet(Workers) /\ Workers # {}
        BY OutboxAssumption, FS_Subset DEF Holders
  <2>2. /\ Cardinality(Holders(r)) \in Nat
        /\ Cardinality(Workers) \in Nat /\ Cardinality(Workers) # 0
        BY <2>1, FS_CardinalityType, FS_EmptySet
  <2>3. retry[r] \in Nat /\ MaxRetries \in Nat
        BY OutboxAssumption DEF IInv, TypeOK
  <2>4. QED BY <2>2, <2>3 DEF IInv, BudgetInv
<1>2. QED BY <1>1, Invariance, PTL

(* A claim that was never reclaimed has one holder. *)
THEOREM ClaimsAreExclusive == Spec => []ExclusiveClaim
<1>1. IInv => ExclusiveClaim
      BY DEF IInv, ClaimInv, ExclusiveClaim
<1>2. QED BY <1>1, Invariance, PTL

(* A dead-letter notice is only sent about a content row that is dead. *)
THEOREM NoticesAreTrue == Spec => []NoticeMeansDead
<1>1. IInv => NoticeMeansDead
      BY DEF IInv, NoticeInv, NoticeMeansDead
<1>2. QED BY <1>1, Invariance, PTL

(* A settled row is touched again only after its claim was reclaimed. *)
THEOREM SettledRowsStay == Spec => SettledUnlessReclaimed
<1> DEFINE Stays == \A r \in Rows : status[r] \in {"done", "failed"} /\ r \notin reclaimed
                      => status'[r] = status[r]
<1>1. IInv /\ [Next]_vars => [Stays]_vars
  <2> SUFFICES ASSUME IInv, Next, NEW r \in Rows,
                      status[r] \in {"done", "failed"}, r \notin reclaimed
               PROVE  status'[r] = status[r]
      OBVIOUS
  <2> USE DEF IInv, TypeOK
  <2>1. \A w \in Workers : phase[w] \in {"send", "fail"} => cur[w] # r
        BY DEF HandInv, ClaimInv, Delivering
  <2>2. ASSUME NEW q \in Rows, EnqueueTx(q) \/ Age(q) PROVE status'[r] = status[r]
        BY <2>2 DEF EnqueueTx, Age
  <2>3. CASE CreateWebhook \/ \E e \in Hooks : DeleteWebhook(e)
        BY <2>3 DEF CreateWebhook, DeleteWebhook, table
  <2>4. ASSUME NEW w \in Workers, ReclaimStale(w) \/ ClaimPending(w)
        PROVE  status'[r] = status[r]
        BY <2>4 DEF ReclaimStale, StaleRows, ClaimPending, Claimable
  <2>5. ASSUME NEW w \in Workers,
               \/ ClaimCancelled(w) \/ NotifyDeadLetter(w) \/ ReclaimError(w)
               \/ ClaimError(w) \/ Restart(w) \/ Shutdown(w) \/ Crash(w)
        PROVE  status'[r] = status[r]
        BY <2>5 DEF ClaimCancelled, NotifyDeadLetter, ReclaimError, ClaimError, Restart,
                    Shutdown, Crash, table
  <2>6. ASSUME NEW w \in Workers, NEW q \in Rows,
               \/ Deliver(w, q) \/ DeliverUnrouted(w, q)
               \/ DeliverCancelled(w, q) \/ DirectoryError(w, q)
        PROVE  status'[r] = status[r]
        BY <2>6 DEF Deliver, DeliverUnrouted, DeliverCancelled, DirectoryError, table
  <2>7. ASSUME NEW w \in Workers, NEW d \in Dests,
               SendOk(w, d) \/ \E p \in BOOLEAN : SendFail(w, d, p)
        PROVE  status'[r] = status[r]
        BY <2>7 DEF SendOk, SendFail, table
  <2>8. ASSUME NEW w \in Workers,
               \/ MarkDone(w) \/ MarkFailedWithRetry(w)
               \/ \E a \in BOOLEAN : MarkError(w, a)
        PROVE  status'[r] = status[r]
        BY <2>1, <2>8 DEF MarkDone, MarkFailedWithRetry, MarkError, FailRow, table
  <2> HIDE DEF IInv, TypeOK
  <2>9. QED BY <2>2, <2>3, <2>4, <2>5, <2>6, <2>7, <2>8 DEF Next, WorkerStep, FaultStep
<1>2. QED BY <1>1, Invariance, PTL DEF Spec, SettledUnlessReclaimed

-----------------------------------------------------------------------------
LEMMA Fates ==
  /\ Fate("none") = "none" /\ Fate("pending") = "open" /\ Fate("processing") = "open"
  /\ Fate("done") = "done" /\ Fate("failed") = "dead"
BY DEF Fate

(* A mark of a row is a step of the promise: a done mark at the end of a   *)
(* fan-out accepts the event, a failed mark is one refused try. *)
LEMMA DoneMark ==
  ASSUME TypeOK, HandInv, FanoutInv, NEW w \in Workers, phase[w] = "send", todo[w] = {},
         status' = [status EXCEPT ![cur[w]] = "done"],
         UNCHANGED <<retry, owed, heard, hooks, nextHook, notices>>
  PROVE  Promise!Accept(cur[w])
<1>1. cur[w] \in Rows /\ status[cur[w]] # "none" /\ status[cur[w]] \in Statuses
      BY DEF HandInv, Delivering, TypeOK
<1>2. owed[cur[w]] \subseteq heard[cur[w]]
      BY DEF FanoutInv
<1>3. \A r \in Rows : status'[r] = IF r = cur[w] THEN "done" ELSE status[r]
      BY <1>1 DEF TypeOK
<1>4. Fate(status[cur[w]]) # "none"
      BY <1>1 DEF Fate, Statuses
<1>5. \A r \in Rows : Fate(status'[r]) = IF r = cur[w] THEN "done" ELSE Fate(status[r])
      BY <1>3, Fates
<1>6. [r \in Rows |-> Fate(status'[r])]
        = [[r \in Rows |-> Fate(status[r])] EXCEPT ![cur[w]] = "done"]
      BY <1>1, <1>5
<1>7. Registered' = Registered
      BY DEF Registered
<1> QED BY <1>1, <1>2, <1>4, <1>6, <1>7 DEF Promise!Accept, Fate

LEMMA FailedMark ==
  ASSUME TypeOK, HandInv, NEW w \in Workers, phase[w] = "fail", FailRow(cur[w]),
         UNCHANGED <<owed, heard, hooks, nextHook, notices>>
  PROVE  Promise!Refuse(cur[w])
<1> DEFINE f == IF retry[cur[w]] + 1 >= MaxRetries THEN "dead" ELSE "open"
<1>1. cur[w] \in Rows /\ status[cur[w]] # "none" /\ status[cur[w]] \in Statuses
      BY DEF HandInv, Delivering, TypeOK
<1>2. \A r \in Rows : status'[r] = IF r # cur[w] THEN status[r]
                                    ELSE IF Dead(r) THEN "failed" ELSE "pending"
      BY <1>1 DEF TypeOK, FailRow
<1>3. Fate(status[cur[w]]) # "none"
      BY <1>1 DEF Fate, Statuses
<1>4. \A r \in Rows : Fate(status'[r]) = IF r = cur[w] THEN f ELSE Fate(status[r])
      BY <1>2, Fates DEF Dead
<1>5. [r \in Rows |-> Fate(status'[r])]
        = [[r \in Rows |-> Fate(status[r])] EXCEPT ![cur[w]] = f]
      BY <1>1, <1>4
<1>6. Registered' = Registered /\ retry' = [retry EXCEPT ![cur[w]] = @ + 1]
      BY DEF Registered, FailRow
<1> QED BY <1>1, <1>3, <1>5, <1>6 DEF Promise!Refuse

(* The outbox implements what it promises: claims, batches, the reaper,    *)
(* deployments and crashes of any number of workers show as the steps of   *)
(* EventDelivery or not at all. *)
THEOREM Refinement == Spec => KeepsPromise
<1>1. Init => Promise!Init
  <2> SUFFICES ASSUME Init PROVE Promise!Init
      OBVIOUS
  <2>1. Registered = {}
        BY DEF Init, Registered
  <2>2. [r \in Rows |-> Fate(status[r])] = [r \in Rows |-> "none"]
        BY DEF Init, Fate
  <2> QED BY <2>1, <2>2 DEF Init, Promise!Init
<1>2. IInv /\ [Next]_vars => [Promise!Next]_(Promise!vars)
  <2> SUFFICES ASSUME IInv, [Next]_vars PROVE Promise!Next \/ UNCHANGED Promise!vars
      OBVIOUS
  <2> DEFINE Goal == Promise!Next \/ UNCHANGED Promise!vars
  <2>0. TypeOK /\ HandInv /\ FanoutInv /\ NoticeInv /\ AddressInv
        BY DEF IInv
  <2>1. ASSUME \A r \in Rows : Fate(status'[r]) = Fate(status[r]),
               UNCHANGED <<retry, owed, heard, hooks, nextHook, notices>>
        PROVE  Goal
        BY <2>1 DEF Promise!vars, Registered
  <2>2. ASSUME status' = status, UNCHANGED <<retry, owed, heard, hooks, nextHook, notices>>
        PROVE  Goal
        BY <2>1, <2>2
  <2>3. ASSUME NEW r \in Rows, EnqueueTx(r) PROVE Goal
    <3>1. \A q \in Rows : Fate(status'[q]) = IF q = r THEN "open" ELSE Fate(status[q])
          BY <2>0, <2>3, Fates DEF EnqueueTx, TypeOK
    <3>2. [q \in Rows |-> Fate(status'[q])]
            = [[q \in Rows |-> Fate(status[q])] EXCEPT ![r] = "open"]
          BY <3>1
    <3>3. Fate(status[r]) = "none"
          BY <2>3 DEF EnqueueTx, Fate
    <3>4. Promise!Addressees(r, hooks) = Audience(r, hooks)
          BY DEF Promise!Addressees, Audience
    <3>5. Promise!Commit(r)
          BY <2>3, <3>2, <3>3, <3>4 DEF EnqueueTx, Promise!Commit, Registered
    <3> QED BY <3>5 DEF Promise!Next
  <2>4. ASSUME CreateWebhook PROVE Goal
    <3>1. nextHook \in Hooks /\ nextHook \in Nat /\ nextHook \notin Registered
          BY <2>0, <2>4, OutboxAssumption DEF CreateWebhook, TypeOK, Registered, Hooks
    <3>2. Registered' = Registered \cup {nextHook}
          BY <2>0, <2>4, OutboxAssumption DEF CreateWebhook, TypeOK, Registered
    <3>3. Promise!Subscribe(nextHook)
          BY <2>4, <3>1, <3>2 DEF CreateWebhook, Promise!Subscribe, table, record
    <3> QED BY <3>1, <3>3 DEF Promise!Next
  <2>5. ASSUME NEW d \in Hooks, DeleteWebhook(d) PROVE Goal
    <3>1. Promise!Unsubscribe(d)
          BY <2>5 DEF DeleteWebhook, Promise!Unsubscribe, table, Registered
    <3> QED BY <3>1 DEF Promise!Next
  <2>6. ASSUME NEW w \in Workers, ReclaimStale(w) PROVE Goal
    <3>1. \A r \in Rows : Fate(status'[r]) = Fate(status[r])
          BY <2>6 DEF ReclaimStale, StaleRows, Fate
    <3> QED BY <2>1, <2>6, <3>1 DEF ReclaimStale
  <2>7. ASSUME NEW w \in Workers, ClaimPending(w) PROVE Goal
    <3>1. \A r \in Claimable : status[r] = "pending"
          BY DEF Claimable
    <3>2. \A r \in Rows : Fate(status'[r]) = Fate(status[r])
          BY <2>7, <3>1 DEF ClaimPending, Fate
    <3> QED BY <2>1, <2>7, <3>2 DEF ClaimPending, record
  <2>8. ASSUME NEW w \in Workers, NEW d \in Dests, phase[w] = "send", IsNext(w, d),
               heard' = [heard EXCEPT ![cur[w]] = @ \cup {d}],
               UNCHANGED <<status, retry, owed, hooks, nextHook, notices>>
        PROVE  Goal
    <3>1. cur[w] \in Rows /\ status[cur[w]] # "none" /\ status[cur[w]] \in Statuses
          BY <2>0, <2>8 DEF HandInv, Delivering, TypeOK
    <3>2. Fate(status[cur[w]]) # "none"
          BY <3>1 DEF Fate, Statuses
    <3>3. d \in Audience(cur[w], Registered)
          BY <2>0, <2>8 DEF AddressInv, IsNext
    <3>4. d \in Promise!Addressees(cur[w], Registered)
          BY <3>3 DEF Promise!Addressees, Audience
    <3>5. Promise!Hear(cur[w], d)
          BY <2>8, <3>1, <3>2, <3>4 DEF Promise!Hear, Registered
    <3>6. Registered \subseteq Hooks
          BY <2>0, OutboxAssumption DEF Registered, Hooks, TypeOK
    <3>7. d \in Promise!Addressees(cur[w], Hooks)
          BY <3>4, <3>6 DEF Promise!Addressees
    <3> QED BY <3>1, <3>5, <3>7 DEF Promise!Next
  <2>9. ASSUME NEW w \in Workers, NEW d \in Dests, SendOk(w, d) PROVE Goal
        BY <2>8, <2>9 DEF SendOk, table
  <2>10. ASSUME NEW w \in Workers, NEW d \in Dests, NEW p \in BOOLEAN, SendFail(w, d, p)
         PROVE  Goal
        BY <2>2, <2>8, <2>10 DEF SendFail, table
  <2>11. ASSUME NEW w \in Workers, MarkDone(w) PROVE Goal
    <3>1. cur[w] \in Rows
          BY <2>0, <2>11 DEF MarkDone, HandInv, Delivering, TypeOK
    <3>2. Promise!Accept(cur[w])
          BY <2>0, <2>11, DoneMark DEF MarkDone, record
    <3> QED BY <3>1, <3>2 DEF Promise!Next
  <2>12. ASSUME NEW w \in Workers, MarkFailedWithRetry(w) PROVE Goal
    <3>1. cur[w] \in Rows
          BY <2>0, <2>12 DEF MarkFailedWithRetry, HandInv, Delivering, TypeOK
    <3>2. Promise!Refuse(cur[w])
          BY <2>0, <2>12, FailedMark DEF MarkFailedWithRetry, record
    <3> QED BY <3>1, <3>2 DEF Promise!Next
  <2>13. ASSUME NEW w \in Workers, NEW a \in BOOLEAN, MarkError(w, a) PROVE Goal
    <3>1. phase[w] \in {"send", "fail"} /\ cur[w] \in Rows
          BY <2>0, <2>13 DEF MarkError, HandInv, Delivering, TypeOK
    <3>2. CASE phase[w] = "send" /\ a
      <4>1. Promise!Accept(cur[w])
            BY <2>0, <2>13, <3>2, DoneMark DEF MarkError, record
      <4> QED BY <3>1, <4>1 DEF Promise!Next
    <3>3. CASE phase[w] = "fail" /\ a
      <4>1. Promise!Refuse(cur[w])
            BY <2>0, <2>13, <3>3, FailedMark DEF MarkError, record
      <4> QED BY <3>1, <4>1 DEF Promise!Next
    <3>4. CASE ~a
          BY <2>2, <2>13, <3>4 DEF MarkError, table, record
    <3> QED BY <3>1, <3>2, <3>3, <3>4
  <2>14. ASSUME NEW w \in Workers, NotifyDeadLetter(w) PROVE Goal
    <3>1. cur[w] \in Rows /\ cur[w] \in ContentRows /\ retry[cur[w]] >= MaxRetries
          BY <2>0, <2>14 DEF NotifyDeadLetter, NoticeInv, HandInv, Delivering, TypeOK
    <3>2. Promise!Tell(cur[w])
          BY <2>14, <3>1 DEF NotifyDeadLetter, Promise!Tell, table, Registered
    <3> QED BY <3>1, <3>2 DEF Promise!Next
  <2>15. ASSUME NEW w \in Workers,
                \/ ClaimCancelled(w) \/ ReclaimError(w) \/ ClaimError(w)
                \/ Restart(w) \/ Shutdown(w) \/ Crash(w)
         PROVE  Goal
        BY <2>2, <2>15 DEF ClaimCancelled, ReclaimError, ClaimError, Restart, Shutdown,
                           Crash, table, record
  <2>16. ASSUME NEW w \in Workers, NEW r \in Rows,
                \/ Deliver(w, r) \/ DeliverUnrouted(w, r)
                \/ DeliverCancelled(w, r) \/ DirectoryError(w, r)
         PROVE  Goal
        BY <2>2, <2>16 DEF Deliver, DeliverUnrouted, DeliverCancelled, DirectoryError,
                           table, record
  <2>17. ASSUME NEW r \in Rows, Age(r) PROVE Goal
        BY <2>2, <2>17 DEF Age, record
  <2>18. ASSUME UNCHANGED vars PROVE Goal
        BY <2>2, <2>18 DEF vars, table, record
  <2> HIDE DEF Goal
  <2>19. ASSUME NEW w \in Workers, WorkerStep(w) PROVE Goal
        BY <2>6, <2>7, <2>9, <2>10, <2>11, <2>12, <2>14, <2>15, <2>16, <2>19
           DEF WorkerStep
  <2>20. ASSUME NEW w \in Workers, FaultStep(w) PROVE Goal
        BY <2>13, <2>15, <2>16, <2>20 DEF FaultStep
  <2>21. Goal
        BY <2>3, <2>4, <2>5, <2>17, <2>18, <2>19, <2>20 DEF Next
  <2> QED BY <2>21 DEF Goal
<1> QED BY <1>1, <1>2, Invariance, PTL DEF Spec, KeepsPromise, Promise!Spec

(* What the runs check of the rows, for any number of workers, endpoints    *)
(* and faults: done means heard, dead means reported as dead (worker.go).   *)
THEOREM RowsAreSound == Spec => []RowsSound
BY TypeCorrect, AtLeastOnce, NoticesAreTrue, PTL DEF RowsSound

=============================================================================
