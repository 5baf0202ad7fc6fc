--------------------------- MODULE WebhookMirror ---------------------------
(***************************************************************************)
(* The sample webhook consumer (examples/webhook-consumer): a receiver     *)
(* that answers a delivery before it acts on it, remembers the last        *)
(* delivery ids, and keeps a mirror of one entry by asking the delivery    *)
(* edge again, with the ETag of its copy.                                  *)
(*                                                                         *)
(* The outbox that sends the deliveries is seen only as far as the         *)
(* consumer meets it: each change of the entry has one delivery, which may *)
(* arrive again, late and out of order until it is acknowledged.           *)
(***************************************************************************)
EXTENDS Naturals, Sequences, FiniteSets

CONSTANTS Bodies,      \* what the entry may be published as: a body stands for its ETag
          MaxChanges,  \* bound: changes of the entry
          LogLimit,    \* deliveryLog.limit
          MaxActs,     \* bound: acts on one delivery, when its id is forgotten
          MaxFailures  \* bound: answers of the edge that fail

ASSUME MirrorAssumption ==
    /\ Bodies \cap {"404", "none"} = {}
    /\ MaxChanges \in Nat /\ LogLimit \in Nat \ {0}
    /\ MaxActs \in Nat /\ MaxFailures \in Nat

Takedown == "404"  \* the answer for an entry that is not published
None == "none"     \* no copy, hence no ETag
Changes == 1 .. MaxChanges

VARIABLES history,  \* per change, what the edge serves since: an ETag, or Takedown
          unacked,  \* deliveries the sender still repeats
          order,    \* deliveryLog: the remembered ids, oldest first
          acts,     \* goroutines: delivery -> where its act stands
          copy,     \* the ETag of the mirrored copy, or None
          acted,    \* acts begun per delivery
          evicted,  \* ids the log has forgotten
          mixed,    \* two acts overlapped, or deliveries were acted on out of order
          failures

mirrorVars == <<history, unacked, order, acts, copy, acted, evicted, mixed, failures>>

Served == IF history = << >> THEN Takedown ELSE history[Len(history)]
Busy == {d \in Changes : acts[d].stage # "rest"}
Rest == [stage |-> "rest"]

MirrorTypeOK ==
    /\ history \in Seq(Bodies \cup {Takedown}) /\ Len(history) <= MaxChanges
    /\ unacked \subseteq DOMAIN history
    /\ Len(order) <= LogLimit
    /\ copy \in Bodies \cup {None}
    /\ acted \in [Changes -> Nat] /\ evicted \subseteq DOMAIN history
    /\ failures \in 0 .. MaxFailures

MirrorInit ==
    /\ history = << >> /\ unacked = {} /\ order = << >>
    /\ acts = [d \in Changes |-> Rest]
    /\ copy = None /\ acted = [d \in Changes |-> 0] /\ evicted = {}
    /\ mixed = FALSE /\ failures = 0

(* The entry is published with a content (which it may have had before),
   edited without effect on what is served, or taken down. *)
Change ==
    /\ Len(history) < MaxChanges
    /\ \E etag \in Bodies \cup {Takedown} : history' = Append(history, etag)
    /\ unacked' = unacked \cup {Len(history) + 1}
    /\ UNCHANGED <<order, acts, copy, acted, evicted, mixed, failures>>

IsTakedown(d) == history[d] = Takedown

(* Mutant of Remembered: the log is not asked. *)
RememberedNever(d) == FALSE

(* ServeHTTP: deliveryLog.first records the id before anything is done for
   it; the act runs in a goroutine.  The 200 may be lost, and then the sender
   repeats the delivery. *)
Remembered(d) == \E i \in DOMAIN order : order[i] = d

(* Mutant of Remember: nothing is ever forgotten. *)
RememberAll(d) == Append(order, d)

Remember(d) ==
    LET longer == Append(order, d)
    IN  IF Len(longer) > LogLimit THEN Tail(longer) ELSE longer

Receive(d) ==
    /\ d \in unacked
    /\ unacked' \in {unacked, unacked \ {d}}
    /\ IF Remembered(d)
       THEN UNCHANGED <<order, acts, acted, evicted, mixed>>
       ELSE /\ acts[d] = Rest /\ acted[d] < MaxActs
            /\ order' = Remember(d)
            /\ evicted' = IF Len(order) = LogLimit THEN evicted \cup {order[1]} ELSE evicted
            /\ acts' = [acts EXCEPT ![d] = [stage |-> IF IsTakedown(d) THEN "drop" ELSE "etag"]]
            /\ acted' = [acted EXCEPT ![d] = @ + 1]
            /\ mixed' = (mixed \/ Busy # {} \/ \E later \in Changes : later > d /\ acted[later] > 0)
    /\ UNCHANGED <<history, copy, failures>>

Finish(d) == acts' = [acts EXCEPT ![d] = Rest]

(* Apply: a takedown drops the copy and asks nobody. *)
Drop(d) ==
    /\ acts[d].stage = "drop"
    /\ copy' = None
    /\ Finish(d)
    /\ UNCHANGED <<history, unacked, order, acted, evicted, mixed, failures>>

(* refresh: read the ETag, ask the edge, store the answer. *)
ReadEtag(d) ==
    /\ acts[d].stage = "etag"
    /\ acts' = [acts EXCEPT ![d] = [stage |-> "ask", etag |-> copy]]
    /\ UNCHANGED <<history, unacked, order, copy, acted, evicted, mixed, failures>>

AskEdge(d) ==
    /\ acts[d].stage = "ask"
    /\ \/ /\ acts' = [acts EXCEPT ![d] = [stage |-> "store",
                         answer |-> IF Served = acts[d].etag THEN "304" ELSE "body", etag |-> Served]]
          /\ UNCHANGED failures
       \/ /\ failures < MaxFailures /\ failures' = failures + 1
          /\ Finish(d)
    /\ UNCHANGED <<history, unacked, order, copy, acted, evicted, mixed>>

(* Mutant of AfterAnswer: every answer without a body drops the copy. *)
AfterAnswerBare(d) ==
    IF acts[d].answer = "304" \/ acts[d].etag = Takedown THEN None ELSE acts[d].etag

(* What the mirror holds after an answer: a 304 leaves it, a 404 drops it. *)
AfterAnswer(d) ==
    IF acts[d].answer = "304" THEN copy
    ELSE IF acts[d].etag = Takedown THEN None ELSE acts[d].etag

Store(d) ==
    /\ acts[d].stage = "store"
    /\ copy' = AfterAnswer(d)
    /\ Finish(d)
    /\ UNCHANGED <<history, unacked, order, acted, evicted, mixed, failures>>

MirrorNext ==
    \/ Change
    \/ \E d \in Changes : d \in DOMAIN history /\
          (Receive(d) \/ Drop(d) \/ ReadEtag(d) \/ AskEdge(d) \/ Store(d))

MirrorSpec == MirrorInit /\ [][MirrorNext]_mirrorVars
-----------------------------------------------------------------------------
(* receiver.go:131: "Recording it BEFORE acting makes the action
   at-most-once", as long as the id is remembered. *)
ActsOnce == \A d \in Changes \ evicted : acted[d] <= 1

(* Once every change was acted on, one at a time and in order, the mirror
   holds what the edge serves, however the changes came in between the steps
   of an act (mirror.go:79 reads back instead of trusting the event). *)
MirrorFollows ==
    /\ Busy = {} /\ ~mixed /\ failures = 0 /\ evicted = {}
    /\ \A d \in DOMAIN history : acted[d] > 0
    => copy = IF Served = Takedown THEN None ELSE Served

(* The consumer acts on a delivery once and ends up with what the edge serves
   (receiver.go ServeHTTP, mirror.go refresh). *)
MirrorSound == MirrorTypeOK /\ ActsOnce /\ MirrorFollows

=============================================================================
