--------------------------- MODULE DeliveryUsage ---------------------------
(***************************************************************************)
(* The counter of public reads (cms/content/service/delivery_usage.go):    *)
(* every replica counts in memory and a flusher folds the counts into the  *)
(* database at an interval and once more on the way out.  The daily bucket *)
(* a count goes to is left out.                                            *)
(***************************************************************************)
EXTENDS Naturals, Functions, Folds, FiniteSets

CONSTANTS Nodes,      \* replicas that count
          Sites,      \* tenants
          MaxReads,   \* bound: reads per replica and tenant
          MaxLosses   \* bound: writes that fail and processes that die

ASSUME UsageAssumption == IsFiniteSet(Nodes) /\ MaxReads \in Nat /\ MaxLosses \in Nat

VARIABLES counts,   \* DeliveryCounter.counts of each replica
          pending,  \* what a flush has drained and not yet written
          flusher,  \* where RunFlusher stands
          reads,    \* stored reads per tenant: content_delivery_usage
          served,   \* reads ever counted, per replica and tenant
          unstored, \* reads lost with a process
          twice,    \* reads written by a statement that was reported as failed
          losses

usageVars == <<counts, pending, flusher, reads, served, unstored, twice, losses>>

Zero == [s \in Sites |-> 0]

UsageTypeOK ==
    /\ counts \in [Nodes -> [Sites -> Nat]] /\ pending \in [Nodes -> [Sites -> Nat]]
    /\ flusher \in [Nodes -> {"ticking", "flushing", "last", "stopped"}]
    /\ \A n \in Nodes : flusher[n] \in {"ticking", "stopped"} => pending[n] = Zero
    /\ \A m \in {reads, unstored, twice} : m \in [Sites -> Nat]
    /\ served \in [Nodes -> [Sites -> 0 .. MaxReads]]
    /\ losses \in 0 .. MaxLosses

UsageInit ==
    /\ counts = [n \in Nodes |-> Zero] /\ pending = [n \in Nodes |-> Zero]
    /\ flusher = [n \in Nodes |-> "ticking"]
    /\ reads = Zero /\ unstored = Zero /\ twice = Zero
    /\ served = [n \in Nodes |-> Zero]
    /\ losses = 0

(* Requests are served until the process has stopped. *)
Record(n) ==
    /\ flusher[n] # "stopped"
    /\ \E s \in Sites :
          /\ served[n][s] < MaxReads
          /\ served' = [served EXCEPT ![n][s] = @ + 1]
          /\ counts' = [counts EXCEPT ![n][s] = @ + 1]
    /\ UNCHANGED <<pending, flusher, reads, unstored, twice, losses>>

(* The tick, or the end of the context: the pending counts are taken and the
   buffer is empty. *)
Drain(n, stage) ==
    /\ flusher' = [flusher EXCEPT ![n] = stage]
    /\ pending' = [pending EXCEPT ![n] = counts[n]]
    /\ counts' = [counts EXCEPT ![n] = Zero]
    /\ UNCHANGED <<reads, served, unstored, twice, losses>>

Tick(n) == flusher[n] = "ticking" /\ Drain(n, "flushing")
Shutdown(n) == flusher[n] = "ticking" /\ Drain(n, "last")

(* AddDeliveryReads commits. *)
Fold(n, s) ==
    /\ pending[n][s] > 0
    /\ reads' = [reads EXCEPT ![s] = @ + pending[n][s]]
    /\ pending' = [pending EXCEPT ![n][s] = 0]
    /\ UNCHANGED <<counts, flusher, served, unstored, twice, losses>>

(* Mutant of PutBack: what was counted during the flush is overwritten. *)
PutBackOver(n, s) == pending[n][s]

(* A write that is reported as failed puts the counts back; its transaction
   may have committed all the same. *)
PutBack(n, s) == counts[n][s] + pending[n][s]

FoldFails(n, s) ==
    /\ pending[n][s] > 0 /\ losses < MaxLosses
    /\ losses' = losses + 1
    /\ counts' = [counts EXCEPT ![n][s] = PutBack(n, s)]
    /\ pending' = [pending EXCEPT ![n][s] = 0]
    /\ \/ UNCHANGED <<reads, twice>>
       \/ /\ reads' = [reads EXCEPT ![s] = @ + pending[n][s]]
          /\ twice' = [twice EXCEPT ![s] = @ + pending[n][s]]
    /\ UNCHANGED <<flusher, served, unstored>>

(* The process ends and its memory with it: after the last flush, or at any
   moment. *)
Ends(n) ==
    /\ flusher' = [flusher EXCEPT ![n] = "stopped"]
    /\ unstored' = [s \in Sites |-> unstored[s] + counts[n][s] + pending[n][s]]
    /\ counts' = [counts EXCEPT ![n] = Zero] /\ pending' = [pending EXCEPT ![n] = Zero]
    /\ UNCHANGED <<reads, served, twice>>

(* Mutant of Written: a flush may end before every tenant is written. *)
WrittenOrNot(n) == TRUE

Written(n) == pending[n] = Zero

Flushed(n) ==
    /\ Written(n)
    /\ \/ /\ flusher[n] = "flushing"
          /\ flusher' = [flusher EXCEPT ![n] = "ticking"]
          /\ UNCHANGED <<counts, pending, reads, served, unstored, twice>>
       \/ flusher[n] = "last" /\ Ends(n)
    /\ UNCHANGED losses

Crash(n) ==
    /\ flusher[n] # "stopped" /\ losses < MaxLosses
    /\ losses' = losses + 1
    /\ Ends(n)

UsageNext ==
    \E n \in Nodes :
       \/ Record(n) \/ Tick(n) \/ Shutdown(n) \/ Flushed(n) \/ Crash(n)
       \/ \E s \in Sites : Fold(n, s) \/ FoldFails(n, s)

UsageSpec == UsageInit /\ [][UsageNext]_usageVars
-----------------------------------------------------------------------------
AllNodes(f, s) == MapThenFoldSet(+, 0, LAMBDA n : f[n][s], LAMBDA S : CHOOSE n \in S : TRUE, Nodes)

(* delivery_usage.go:55: "A tenant whose write fails is PUT BACK so the next
   flush retries it": no read is lost but with a process and none is counted
   twice but by a write that committed and was reported as failed, however
   the requests, the flushes and their failures interleave. *)
ReadsAreAccountedFor ==
    \A s \in Sites :
       AllNodes(served, s) + twice[s]
          = reads[s] + unstored[s] + AllNodes(counts, s) + AllNodes(pending, s)

(* A flusher that rests has nothing drained, and no read is unaccounted for
   (delivery_usage.go Flush). *)
CountsSound == UsageTypeOK /\ ReadsAreAccountedFor

=============================================================================
