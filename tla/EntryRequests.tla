--------------------------- MODULE EntryRequests ---------------------------
(***************************************************************************)
(* What a request on one entry does beside the entry's row                 *)
(* (cms/content/service): a create that carries an idempotency key, the    *)
(* link tables an update rewrites after the row, the copy of them that a   *)
(* publish takes, and a reviewer's decision to send a version back.        *)
(*                                                                         *)
(* A payload stands for the assets and entries it refers to: its links are *)
(* the payload itself, once in entry_media and once in entry_relations.    *)
(* The guards of the row are EntryRelease's; here a write only compares    *)
(* the version it read.                                                    *)
(***************************************************************************)
EXTENDS Naturals, Sequences, FiniteSets

CONSTANTS Clients,      \* requests in flight
          EntryIds,     \* ids that creates draw
          Payloads,     \* contents, each with links of its own
          IdemKeys,     \* idempotency keys of one actor
          NoKey,        \* a create that carries none
          MaxRequests,  \* bound: requests ever made
          MaxMishaps    \* bound: statements that fail after an earlier one committed

ASSUME RequestsAssumption ==
    /\ NoKey \notin IdemKeys /\ "none" \notin Payloads
    /\ MaxRequests \in Nat /\ MaxMishaps \in Nat

Links == {"media", "relations"}

VARIABLES row,       \* the entries table
          links,     \* entry_media and entry_relations: rows <<payload, writer's version>>
          shown,     \* entry_media_published and entry_relations_published
          record,    \* entry_idempotency: key -> the request and the entry
          decisions, \* entry_review_decisions, oldest first
          client,    \* the requests
          requests, mishaps,
          disturbed, \* entries whose writers overlapped, or whose links failed
          born       \* what each entry was created from

requestVars == <<row, links, shown, record, decisions, client, requests, mishaps, disturbed, born>>
stored == <<row, links, shown, record, decisions, disturbed, born>>

NoRow == [version |-> 0]
NoRecord == [entry |-> "none"]
Resting == [stage |-> "idle"]
Empty == [l \in Links |-> {}]

Exists(e) == row[e].version > 0
Released(e) == Exists(e) /\ row[e].published
Edited(e) == row[e].payload # row[e].snapshot

RequestsTypeOK ==
    /\ \A e \in EntryIds :
          /\ row[e].version \in Nat
          /\ \A l \in Links : links[e][l] \cup shown[e][l] \subseteq Payloads \X Nat
          /\ ~Exists(e) => links[e] = Empty /\ shown[e] = Empty /\ decisions[e] = << >>
    /\ \A k \in IdemKeys : record[k] # NoRecord => Exists(record[k].entry)
    /\ disturbed \subseteq EntryIds
    /\ requests \in 0 .. MaxRequests /\ mishaps \in 0 .. MaxMishaps

RequestsInit ==
    /\ row = [e \in EntryIds |-> NoRow]
    /\ links = [e \in EntryIds |-> Empty]
    /\ shown = [e \in EntryIds |-> Empty]
    /\ record = [k \in IdemKeys |-> NoRecord]
    /\ decisions = [e \in EntryIds |-> << >>]
    /\ client = [c \in Clients |-> Resting]
    /\ requests = 0 /\ mishaps = 0
    /\ disturbed = {}
    /\ born = [e \in EntryIds |-> "none"]

Stage(c, s) == client' = [client EXCEPT ![c].stage = s]
Answer(c, a) == client' = [client EXCEPT ![c].stage = "answered", ![c].answer = a]
Refuse(c) == Answer(c, "error")

(* Other requests between their read of e and their last write to it. *)
Writing(e) == {c \in Clients : client[c].stage \in {"write", "clear", "link"} /\ client[c].entry = e}

-----------------------------------------------------------------------------
(* A client makes a request when it has none under way. *)
Request(c, req) ==
    /\ client[c].stage \in {"idle", "answered"}
    /\ requests < MaxRequests
    /\ requests' = requests + 1
    /\ client' = [client EXCEPT ![c] = req]
    /\ UNCHANGED <<stored, mishaps>>

AskCreate(c) ==
    \E p \in Payloads, k \in IdemKeys \cup {NoKey} :
       Request(c, [op |-> "create", payload |-> p, key |-> k, answer |-> "none",
                   stage |-> IF k = NoKey THEN "insert" ELSE "find"])

AskChange(c) ==
    \E e \in EntryIds, op \in {"publish", "retract", "review"} :
       Request(c, [op |-> op, entry |-> e, answer |-> "none", stage |-> "read"])

AskUpdate(c) ==
    \E e \in EntryIds, p \in Payloads :
       Request(c, [op |-> "update", entry |-> e, payload |-> p, answer |-> "none",
                   stage |-> "read"])

-----------------------------------------------------------------------------
(* replayCreate: the key's record is answered with its entry, if the request
   is the one it was first used for. *)
Fingerprint(c) == client[c].payload

SameRequest(c) == record[client[c].key].fingerprint = Fingerprint(c)

(* Mutant of Replay: the fingerprint is not compared. *)
ReplayAnything(c) == Answer(c, record[client[c].key].entry)

Replay(c) ==
    IF SameRequest(c) THEN Answer(c, record[client[c].key].entry) ELSE Refuse(c)

FindRecord(c) ==
    /\ client[c].stage = "find"
    /\ IF record[client[c].key] = NoRecord THEN Stage(c, "insert") ELSE Replay(c)
    /\ UNCHANGED <<stored, requests, mishaps>>

(* Mutant of KeyTaken: the record is an upsert. *)
KeyNeverTaken(c) == FALSE

(* The row, its links and the record are one transaction; a key that another
   create has recorded meanwhile undoes all of it. *)
KeyTaken(c) == client[c].key # NoKey /\ record[client[c].key] # NoRecord

CreateEntry(c) ==
    /\ client[c].stage = "insert"
    /\ IF KeyTaken(c)
       THEN Stage(c, "replay") /\ UNCHANGED stored
       ELSE \E e \in EntryIds :
               LET p == client[c].payload IN
               /\ born[e] = "none"
               /\ row' = [row EXCEPT ![e] = [version |-> 1, payload |-> p, published |-> FALSE,
                                             snapshot |-> "none", key |-> client[c].key]]
               /\ links' = [links EXCEPT ![e] = [l \in Links |-> {<<p, 1>>}]]
               /\ record' = IF client[c].key = NoKey THEN record
                            ELSE [record EXCEPT ![client[c].key] =
                                     [fingerprint |-> Fingerprint(c), entry |-> e]]
               /\ born' = [born EXCEPT ![e] = p]
               /\ Answer(c, e)
               /\ UNCHANGED <<shown, decisions, disturbed>>
    /\ UNCHANGED <<requests, mishaps>>

(* ErrIdempotencyKeyTaken: the transaction that took the key has committed;
   its record may be gone again with its entry. *)
ReplayTaken(c) ==
    /\ client[c].stage = "replay"
    /\ IF record[client[c].key] = NoRecord THEN Refuse(c) ELSE Replay(c)
    /\ UNCHANGED <<stored, requests, mishaps>>

(* Mutant of DeleteEntry: the records of idempotency do not cascade. *)
DeleteEntryAlone(e) ==
    /\ Exists(e)
    /\ row' = [row EXCEPT ![e] = NoRow]
    /\ links' = [links EXCEPT ![e] = Empty]
    /\ shown' = [shown EXCEPT ![e] = Empty]
    /\ decisions' = [decisions EXCEPT ![e] = << >>]
    /\ UNCHANGED <<record, client, requests, mishaps, disturbed, born>>

(* DeleteEntry carries no version; links, records and decisions cascade.  A
   client's entry is deleted by somebody else: the deleter keeps no state. *)
DeleteEntry(e) ==
    /\ Exists(e)
    /\ row' = [row EXCEPT ![e] = NoRow]
    /\ links' = [links EXCEPT ![e] = Empty]
    /\ shown' = [shown EXCEPT ![e] = Empty]
    /\ decisions' = [decisions EXCEPT ![e] = << >>]
    /\ record' = [k \in IdemKeys |-> IF record[k] # NoRecord /\ record[k].entry = e
                                     THEN NoRecord ELSE record[k]]
    /\ UNCHANGED <<client, requests, mishaps, disturbed, born>>

-----------------------------------------------------------------------------
(* GetEntry, at the head of every other request. *)
ReadEntry(c) ==
    /\ client[c].stage = "read"
    /\ LET e == client[c].entry IN
       IF ~Exists(e)
       THEN Refuse(c) /\ UNCHANGED stored
       ELSE /\ IF client[c].op = "review"
               THEN IF Released(e) /\ ~Edited(e)
                    THEN Refuse(c)
                    ELSE client' = [client EXCEPT ![c] = [stage |-> "prior", op |-> "review",
                            entry |-> e, answer |-> "none",
                            version |-> row[e].version, saw |-> row[e].payload]]
               ELSE client' = [client EXCEPT ![c] = [stage |-> "write", op |-> @.op, entry |-> e,
                            payload |-> IF @.op = "update" THEN @.payload ELSE row[e].payload,
                            answer |-> "none", version |-> row[e].version]]
            /\ disturbed' = IF client[c].op # "review" /\ Writing(e) # {}
                            THEN disturbed \cup {e} ELSE disturbed
            /\ UNCHANGED <<row, links, shown, record, decisions, born>>
    /\ UNCHANGED <<requests, mishaps>>

(* The WHERE clause of both writes of the row. *)
Unmoved(c) == row[client[c].entry].version = client[c].version

(* UpdateEntry writes the row and goes on to the links. *)
UpdateEntry(c) ==
    /\ client[c].stage = "write" /\ client[c].op = "update"
    /\ LET e == client[c].entry IN
       IF Unmoved(c)
       THEN /\ row' = [row EXCEPT ![e].version = @ + 1, ![e].payload = client[c].payload]
            /\ client' = [client EXCEPT ![c] = [stage |-> "clear", op |-> "update", entry |-> e,
                   payload |-> client[c].payload, answer |-> "none",
                   version |-> client[c].version + 1, table |-> "media"]]
       ELSE Refuse(c) /\ UNCHANGED row
    /\ UNCHANGED <<links, shown, record, decisions, disturbed, born, requests, mishaps>>

(* SetEntryPublishState: a publish copies the link tables as they are, in the
   transaction that copies the payload; a retract leaves the copies. *)
SetPublishState(c) ==
    /\ client[c].stage = "write" /\ client[c].op \in {"publish", "retract"}
    /\ LET e    == client[c].entry
           goes == client[c].op = "publish"
       IN IF ~Unmoved(c) \/ (goes = row[e].published /\ (goes => ~Edited(e)))
          THEN Refuse(c) /\ UNCHANGED <<row, shown>>
          ELSE /\ row' = [row EXCEPT ![e].version = @ + 1, ![e].published = goes,
                             ![e].snapshot = IF goes THEN row[e].payload ELSE @]
               /\ shown' = IF goes THEN [shown EXCEPT ![e] = links[e]] ELSE shown
               /\ Answer(c, e)
    /\ UNCHANGED <<links, record, decisions, disturbed, born, requests, mishaps>>

(* ReplaceEntryMedia, then ReplaceEntryRelations, each a transaction of two
   statements: the DELETE takes the rows committed when it starts. *)
ClearLinks(c) ==
    /\ client[c].stage = "clear"
    /\ client' = [client EXCEPT ![c] = [stage |-> "link", op |-> "update", entry |-> @.entry,
          payload |-> @.payload, answer |-> "none", version |-> @.version, table |-> @.table,
          cleared |-> links[@.entry][@.table]]]
    /\ UNCHANGED <<stored, requests, mishaps>>

(* Mutant of LinkRows: the links are added to and never cleared. *)
AddLinkRows(c) ==
    links[client[c].entry][client[c].table] \cup {<<client[c].payload, client[c].version>>}

(* The INSERT leaves a row with the same payload as it finds it; the foreign
   key refuses a link of an entry that is gone. *)
LinkRows(c) ==
    LET kept == links[client[c].entry][client[c].table] \ client[c].cleared
    IN IF \E r \in kept : r[1] = client[c].payload THEN kept
       ELSE kept \cup {<<client[c].payload, client[c].version>>}

ReplaceLinks(c) ==
    /\ client[c].stage = "link"
    /\ LET e == client[c].entry IN
       IF Exists(e)
       THEN /\ links' = [links EXCEPT ![e][client[c].table] = LinkRows(c)]
            /\ IF client[c].table = "media"
               THEN client' = [client EXCEPT ![c] = [stage |-> "clear", op |-> "update",
                       entry |-> e, payload |-> @.payload, answer |-> "none",
                       version |-> @.version, table |-> "relations"]]
               ELSE Answer(c, e)
       ELSE Refuse(c) /\ UNCHANGED links
    /\ UNCHANGED <<row, shown, record, decisions, disturbed, born, requests, mishaps>>

(* The process dies, or the statement fails, when the row is written and its
   links are not: nothing repeats them. *)
LinksFail(c) ==
    /\ client[c].stage \in {"clear", "link"}
    /\ mishaps < MaxMishaps
    /\ mishaps' = mishaps + 1
    /\ disturbed' = disturbed \cup {client[c].entry}
    /\ Refuse(c)
    /\ UNCHANGED <<row, links, shown, record, decisions, born, requests>>

-----------------------------------------------------------------------------
Latest(e) == decisions[e][Len(decisions[e])]

(* RequestChanges asks for the latest decision and inserts its own, which
   names the version the reviewer read. *)
ReadPrior(c) ==
    /\ client[c].stage = "prior"
    /\ LET e == client[c].entry IN
       IF decisions[e] # << >> /\ Latest(e).version = client[c].version
       THEN Refuse(c) ELSE Stage(c, "decide")
    /\ UNCHANGED <<stored, requests, mishaps>>

(* Mutant of DecidedVersion: the insert takes the version from the row. *)
CurrentVersion(c) == row[client[c].entry].version

DecidedVersion(c) == client[c].version

RequestChanges(c) ==
    /\ client[c].stage = "decide"
    /\ LET e == client[c].entry IN
       IF Exists(e)
       THEN /\ decisions' = [decisions EXCEPT ![e] =
                   Append(@, [version |-> DecidedVersion(c), saw |-> client[c].saw])]
            /\ Answer(c, e)
       ELSE Refuse(c) /\ UNCHANGED decisions
    /\ UNCHANGED <<row, links, shown, record, disturbed, born, requests, mishaps>>

ClientStep(c) ==
    \/ AskCreate(c) \/ AskChange(c) \/ AskUpdate(c)
    \/ FindRecord(c) \/ CreateEntry(c) \/ ReplayTaken(c)
    \/ ReadEntry(c) \/ UpdateEntry(c) \/ SetPublishState(c)
    \/ ClearLinks(c) \/ ReplaceLinks(c) \/ LinksFail(c)
    \/ ReadPrior(c) \/ RequestChanges(c)

RequestsNext == (\E c \in Clients : ClientStep(c)) \/ (\E e \in EntryIds : DeleteEntry(e))

RequestsSpec == RequestsInit /\ [][RequestsNext]_requestVars
-----------------------------------------------------------------------------
(* However often and however concurrently a create is repeated under its key,
   one entry that lives was created under it (content_service.go:1332, the
   record in the creating transaction; entry_idempotency.go:71). *)
OneEntryPerKey ==
    \A d, e \in EntryIds :
       Exists(d) /\ Exists(e) /\ row[d].key = row[e].key /\ row[d].key # NoKey => d = e

(* A create is never answered with an entry that was created from another
   request: a key reused by accident is refused, also when the two meet
   (entry_idempotency.go:128 replayCreate). *)
AnswersTellTheTruth ==
    \A c \in Clients :
       client[c].stage = "answered" /\ client[c].op = "create" /\ client[c].answer # "error"
       => born[client[c].answer] = client[c].payload

(* They do as long as no writer of the entry overlapped another and no
   statement after the row's failed, through creates, edits and publications;
   and then the published copy is that of the published payload. *)
LinksFollowUndisturbed ==
    \A e \in EntryIds \ disturbed :
       Exists(e) /\ Writing(e) = {} =>
          \A l \in Links :
             /\ {r[1] : r \in links[e][l]} = {row[e].payload}
             /\ Released(e) => {r[1] : r \in shown[e][l]} = {row[e].snapshot}

(* What is hidden from the review queue as sent back is what the reviewer
   read, however long the request took and whoever saved meanwhile
   (review_decision.go:186, postgres_repository.go:1518). *)
SentBack(e) == Exists(e) /\ decisions[e] # << >> /\ Latest(e).version = row[e].version
HiddenWasRead == \A e \in EntryIds : SentBack(e) => Latest(e).saw = row[e].payload

(* A key stands for one create and its one entry, a decision for the version its
   reviewer read, and the links for the payload, where no two writers met
   (entry_idempotency.go, review_decision.go, UpdateEntry). *)
RequestsSound == /\ RequestsTypeOK /\ OneEntryPerKey /\ AnswersTellTheTruth
                 /\ HiddenWasRead /\ LinksFollowUndisturbed

=============================================================================
