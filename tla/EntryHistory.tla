---------------------------- MODULE EntryHistory ----------------------------
(***************************************************************************)
(* What is remembered of one entry: the activity stream, the saved         *)
(* versions of its working copy and the releases that were live, with the  *)
(* three readers of that memory: the byline of a field, the comparison of  *)
(* a release with the working copy, and the restore of a release.          *)
(*                                                                         *)
(* A request notes when it began, reads the type and the entry, decides,   *)
(* writes if the entry's version has not moved, and leaves a line in the   *)
(* stream at the very end, in a transaction of its own that may fail.      *)
(***************************************************************************)
EXTENDS Integers, FiniteSets

CONSTANTS
  Callers,    \* who sends requests
  Chiefs,     \* callers whose role may see and write every field
  Agents,     \* callers that are agent credentials
  Services,   \* callers that are delivery credentials
  FieldKeys,  \* keys of the type's fields, now or at some time
  Restricted, \* fields that only the chiefs may write
  Veiled,     \* fields that only the chiefs may read
  FieldValues, \* values of a field
  Blank,      \* a document does not have the key
  Founder,    \* whoever created the entry
  MaxReleases, \* releases that are kept (MaxPublishRevisionsPerEntry)
  MaxCalls    \* bound: requests

ASSUME HistoryAssumption ==
  /\ Blank \notin FieldValues /\ Founder \notin Callers
  /\ Veiled \subseteq Restricted /\ Restricted \subseteq FieldKeys
  /\ Agents \cup Services \subseteq Callers \ Chiefs /\ Agents \cap Services = {}
  /\ MaxReleases \in Nat \ {0} /\ MaxCalls \in Nat

VARIABLES
  entry,      \* the entry
  defined,  \* the keys that the type defines
  releases, \* entry_publish_revisions
  saves,    \* entry_revisions
  activity, \* content_activity
  calls,    \* the requests under way
  viewed,    \* the comparison each caller last looked at
  ticks,    \* the clock
  writer,   \* history: who last wrote each key
  unsure,   \* history: keys whose last write overlapped another, or left no line
  made      \* history: requests so far

historyVars == <<entry, defined, releases, saves, activity, calls, viewed, ticks,
                 writer, unsure, made>>

-----------------------------------------------------------------------------
Document == [FieldKeys -> FieldValues \cup {Blank}]
EmptyDocument == [k \in FieldKeys |-> Blank]
KeysIn(d) == {k \in FieldKeys : d[k] # Blank}
Pruned(d, keys) == [k \in FieldKeys |-> IF k \in keys THEN d[k] ELSE Blank]
Overlay(base, patch) == [k \in FieldKeys |-> IF patch[k] # Blank THEN patch[k] ELSE base[k]]

ChangedKeysBetween(before, after) == {k \in FieldKeys : before[k] # after[k]}

CanWriteField(c, k) == k \in Restricted => c \in Chiefs
UnreadableKeys(c) == IF c \in Chiefs THEN {} ELSE Veiled

HasUnpublishedChanges(r) == r.status = "published" /\ r.payload # r.snapshot

(* Without keys to keep, the document is returned as it is.                *)
KeepKeys(d, keys) == IF keys = {} THEN d ELSE Pruned(d, keys)

WritableKeys(c, d) == \A k \in KeysIn(d) : CanWriteField(c, k)
GuardRemovedKeys(c, changed, d) == \A k \in changed \ KeysIn(d) : CanWriteField(c, k)

(* Mutant: the keys that a restore would take away are not asked about.    *)
MayRestoreKept(c, changed, d) == WritableKeys(c, KeepKeys(d, changed))

MayRestore(c, changed, d) ==
  WritableKeys(c, KeepKeys(d, changed)) /\ GuardRemovedKeys(c, changed, d)

Revision(no) == CHOOSE r \in releases : r.no = no
LastNo == IF releases = {} THEN 0
          ELSE (CHOOSE r \in releases : \A s \in releases : s.no <= r.no).no

-----------------------------------------------------------------------------
NoRequest == [stage |-> "idle", op |-> "none", at |-> 0, patch |-> EmptyDocument, no |-> 0,
              expect |-> 0, saw |-> 0, fields |-> {}, to |-> EmptyDocument, keys |-> {},
              dropped |-> {},
              firstAt |-> 0, outcome |-> "none", crossed |-> FALSE]
NothingShown == [version |-> 0, no |-> 0, fields |-> {}, keys |-> {}, hidden |-> FALSE,
                 dropped |-> {}]

FoundingLine(d) == [at |-> 0, actor |-> Founder, op |-> "create", outcome |-> "success",
                    keys |-> KeysIn(d), dropped |-> {}]

(* The entry has just been created, with or without its optional fields,   *)
(* and may have been released right after.                                 *)
HistoryInit ==
  /\ \E v \in FieldValues, released \in BOOLEAN, left \in {{}, Restricted} :
       LET d == [k \in FieldKeys |-> IF k \in left THEN Blank ELSE v] IN
       /\ entry = [payload |-> d, version |-> IF released THEN 2 ELSE 1,
                 status |-> IF released THEN "published" ELSE "draft",
                 snapshot |-> IF released THEN d ELSE EmptyDocument,
                 released |-> IF released THEN 2 ELSE 0,
                 firstAt |-> IF released THEN 1 ELSE 0]
       /\ releases = IF released THEN {[no |-> 1, payload |-> d, version |-> 2]} ELSE {}
       /\ saves = {[version |-> 1, payload |-> d]}
       /\ activity = {FoundingLine(d)} \cup
            (IF released THEN {[FoundingLine(d) EXCEPT !.at = 1, !.op = "publish", !.keys = {}]}
             ELSE {})
  /\ defined = FieldKeys
  /\ calls = [c \in Callers |-> NoRequest]
  /\ viewed = [c \in Callers |-> NothingShown]
  /\ ticks = 2 /\ made = 0
  /\ writer = [k \in FieldKeys |-> Founder]
  /\ unsure = {}

OnlyCall(c, call) ==
  /\ calls' = [calls EXCEPT ![c] = call]
  /\ UNCHANGED <<entry, defined, releases, saves, activity, viewed, writer, unsure, made>>

(* beginActivity: the time is that of the beginning.                       *)
Ask(c, call) ==
  /\ calls[c] = NoRequest /\ made < MaxCalls
  /\ made' = made + 1 /\ ticks' = ticks + 1
  /\ calls' = [calls EXCEPT ![c] = [call EXCEPT !.stage = "asked", !.at = ticks]]
  /\ UNCHANGED <<entry, defined, releases, saves, activity, viewed, writer, unsure>>

AskSave(c) == \E k \in FieldKeys, v \in FieldValues :
  Ask(c, [NoRequest EXCEPT !.op = "update", !.patch = [EmptyDocument EXCEPT ![k] = v]])

(* A restore names the version that its caller was viewed, or none.         *)
AskRestore(c) == \E no \in 1..LastNo, expect \in {0, viewed[c].version} :
  Ask(c, [NoRequest EXCEPT !.op = "restore", !.no = no, !.expect = expect])

AskStatus(c) == \E op \in {"publish", "unpublish"} : Ask(c, [NoRequest EXCEPT !.op = op])

(* The verb that the credential lacks: a delivery credential writes        *)
(* nothing, and an agent neither releases nor restores.                    *)
Authorized(c, op) == c \notin Services /\ (c \in Agents => op \notin {"publish", "restore"})

Over(c, outcome) == OnlyCall(c, [calls[c] EXCEPT !.stage = "over", !.outcome = outcome])

Denied(c) == Over(c, "denied") /\ UNCHANGED ticks

(* What is to be written; an update's patch lies over the pruned payload.  *)
Prepared(c) ==
  LET base == Pruned(entry.payload, defined)
      to == IF calls[c].op = "update" THEN Overlay(base, calls[c].patch)
            ELSE Pruned(Revision(calls[c].no).payload, defined) IN
  [calls[c] EXCEPT !.stage = "ready", !.saw = entry.version, !.fields = defined, !.to = to,
     !.keys = ChangedKeysBetween(base, to),
     !.dropped = IF calls[c].op = "restore"
                 THEN KeysIn(Revision(calls[c].no).payload) \ defined ELSE {}]

Moved(c) == calls[c].expect # 0 /\ calls[c].expect # entry.version

(* The type and the entry are read, and everything but the write decided.  *)
FetchUpdate(c) ==
  /\ calls[c].stage = "asked" /\ calls[c].op = "update"
  /\ IF \/ ~Authorized(c, "update") \/ Moved(c)
        \/ ~WritableKeys(c, Pruned(calls[c].patch, defined))
        \/ ~(KeysIn(calls[c].patch) \subseteq defined)
     THEN Denied(c)
     ELSE OnlyCall(c, Prepared(c)) /\ UNCHANGED ticks

FetchRestore(c) ==
  /\ calls[c].stage = "asked" /\ calls[c].op = "restore"
  /\ IF \/ ~Authorized(c, "restore") \/ Moved(c)
        \/ ~\E r \in releases : r.no = calls[c].no
     THEN Denied(c)
     ELSE LET next == Prepared(c) IN
          IF MayRestore(c, next.keys, next.to)
          THEN OnlyCall(c, next) /\ UNCHANGED ticks ELSE Denied(c)

(* What is already as asked is left alone, and the line is dropped.        *)
FetchStatus(c) ==
  LET status == IF calls[c].op = "publish" THEN "published" ELSE "draft" IN
  /\ calls[c].stage = "asked" /\ calls[c].op \in {"publish", "unpublish"}
  /\ IF ~Authorized(c, calls[c].op) THEN Denied(c)
     ELSE IF entry.status = status /\ ~HasUnpublishedChanges(entry)
          THEN Over(c, "cancelled") /\ UNCHANGED ticks
          ELSE /\ OnlyCall(c, [calls[c] EXCEPT !.stage = "ready", !.saw = entry.version,
                    !.firstAt = IF status = "draft" THEN 0
                                ELSE IF entry.firstAt = 0 THEN ticks ELSE entry.firstAt])
               /\ ticks' = ticks + 1

(* Validation, the quota or a relation refuses what was prepared.          *)
Invalid(c) ==
  /\ calls[c].stage = "ready" /\ calls[c].op \in {"update", "restore"}
  /\ Denied(c)

-----------------------------------------------------------------------------
(* The writes; those under way now overlap this one.                       *)
Wrote(c) ==
  calls' = [d \in Callers |->
              IF d = c THEN [calls[c] EXCEPT !.stage = "over", !.outcome = "success"]
              ELSE [calls[d] EXCEPT !.crossed = @ \/ calls[d].stage \in {"asked", "ready"}]]

Outdated(c) == calls[c].saw # entry.version

(* An update and a restore end in the same repository call.                *)
SaveEntry(c) ==
  LET call == calls[c] IN
  /\ call.stage = "ready" /\ call.op \in {"update", "restore"}
  /\ IF Outdated(c) THEN Denied(c)
     ELSE /\ entry' = [entry EXCEPT !.payload = call.to, !.version = @ + 1]
          /\ saves' = saves \cup {[version |-> entry.version + 1, payload |-> call.to]}
          /\ Wrote(c)
          /\ writer' = [k \in FieldKeys |-> IF k \in call.keys THEN c ELSE writer[k]]
          /\ unsure' = (unsure \ call.keys) \cup (IF call.crossed THEN call.keys ELSE {})
          /\ UNCHANGED <<defined, releases, activity, viewed, ticks, made>>

(* Mutant: retention counts the releases instead of their numbers.         *)
TrimmedEarly(rs, last) == {r \in rs : r.no >= last - MaxReleases}

(* The newest are kept, and numbers are never used again.                  *)
Trimmed(rs, last) == {r \in rs : r.no > last - MaxReleases}

SetEntryPublishState(c) ==
  LET call == calls[c] IN
  /\ call.stage = "ready" /\ call.op \in {"publish", "unpublish"}
  /\ IF Outdated(c) THEN Denied(c)
     ELSE /\ IF call.op = "publish"
             THEN /\ entry' = [entry EXCEPT !.status = "published", !.firstAt = call.firstAt,
                               !.snapshot = entry.payload, !.released = entry.version + 1,
                               !.version = @ + 1]
                  /\ releases' = Trimmed(releases \cup
                       {[no |-> LastNo + 1, payload |-> entry.payload,
                         version |-> entry.version + 1]},
                       LastNo + 1)
             ELSE /\ entry' = [entry EXCEPT !.status = "draft", !.firstAt = 0, !.version = @ + 1]
                  /\ UNCHANGED releases
          /\ Wrote(c)
          /\ UNCHANGED <<defined, saves, activity, viewed, ticks, writer, unsure, made>>

(* A field is deleted: both copies lose the key, the releases keep it.     *)
DeleteField(k) ==
  LET held == entry.payload[k] # Blank IN
  /\ made < MaxCalls /\ made' = made + 1
  /\ k \in defined /\ defined' = defined \ {k}
  /\ entry' = [entry EXCEPT !.payload[k] = Blank, !.snapshot[k] = Blank,
               !.version = @ + (IF held THEN 1 ELSE 0),
               !.released = @ + (IF entry.snapshot[k] # Blank THEN 1 ELSE 0)]
  /\ saves' = saves \cup (IF held THEN {[version |-> entry'.version, payload |-> entry'.payload]}
                          ELSE {})
  /\ calls' = [c \in Callers |->
                 [calls[c] EXCEPT !.crossed = @ \/ calls[c].stage \in {"asked", "ready"}]]
  /\ UNCHANGED <<releases, activity, viewed, ticks, writer, unsure>>

AddField(k) ==
  /\ made < MaxCalls /\ made' = made + 1
  /\ k \notin defined /\ defined' = defined \cup {k}
  /\ UNCHANGED <<entry, releases, saves, activity, calls, viewed, ticks, writer, unsure>>

-----------------------------------------------------------------------------
(* The line, or none.                                                      *)

(* Mutant: what a refused request was about to change stays on its line.   *)
LineKept(c) == [at |-> calls[c].at, actor |-> c, op |-> calls[c].op,
                outcome |-> calls[c].outcome, keys |-> calls[c].keys,
                dropped |-> calls[c].dropped]

(* A refusal changed nothing and dropped nothing.                          *)
Line(c) ==
  LET denied == calls[c].outcome = "denied" IN
  [at |-> calls[c].at, actor |-> c, op |-> calls[c].op, outcome |-> calls[c].outcome,
   keys |-> IF denied THEN {} ELSE calls[c].keys,
   dropped |-> IF denied THEN {} ELSE calls[c].dropped]

(* Every caller here writes: an agent, a person and a refused delivery     *)
(* credential leave a line; only a success can be dropped.                 *)
ShouldRecord(c) == calls[c].outcome # "cancelled" /\ (c \in Services => calls[c].outcome = "denied")

RecordActivity(c) ==
  /\ calls[c].stage = "over"
  /\ activity' = IF ShouldRecord(c) THEN activity \cup {Line(c)} ELSE activity
  /\ calls' = [calls EXCEPT ![c] = NoRequest]
  /\ UNCHANGED <<entry, defined, releases, saves, viewed, ticks, writer, unsure, made>>

(* An error of the database, or the end of the process, before the write   *)
(* or after: a failure that is nobody's refusal leaves no line.            *)
Lose(c) ==
  /\ calls[c].stage # "idle"
  /\ calls' = [calls EXCEPT ![c] = NoRequest]
  /\ unsure' = unsure \cup (IF calls[c].outcome = "success" THEN calls[c].keys ELSE {})
  /\ UNCHANGED <<entry, defined, releases, saves, activity, viewed, ticks, writer, made>>

-----------------------------------------------------------------------------
(* The readers.                                                            *)

VisibleKeys(keys, hidden) == keys \ hidden

(* Mutant: the whole release is compared, what the type dropped included.  *)
ComparedWhole(d) == d

Compared(d) == Pruned(d, defined)

(* DiffEntryRevision: a release against the working copy, both pruned.     *)
DiffEntryRevision(c) ==
  \E r \in releases :
    LET old == Compared(r.payload)
        current == Pruned(entry.payload, defined)
        hidden == UnreadableKeys(c) \cap defined IN
    /\ c \notin Services \cup Agents
    /\ calls[c] = NoRequest /\ made < MaxCalls /\ made' = made + 1
    /\ viewed' = [viewed EXCEPT ![c] =
         [version |-> entry.version, no |-> r.no, fields |-> defined,
          keys |-> VisibleKeys(ChangedKeysBetween(current, old), hidden),
          hidden |-> \E k \in hidden : current[k] # old[k],
          dropped |-> KeysIn(r.payload) \ defined]]
    /\ UNCHANGED <<entry, defined, releases, saves, activity, calls, ticks, writer, unsure>>

(* EntryFieldAuthors: of the lines that name the key and began after the   *)
(* entry first went live, the newest.                                      *)
LinesOf(k) == {l \in activity : k \in l.keys /\ (entry.firstAt # 0 => l.at > entry.firstAt)}

(* Mutant: the oldest line.                                                *)
FirstOf(lines) == CHOOSE l \in lines : \A m \in lines : l.at <= m.at

NewestOf(lines) == CHOOSE l \in lines : \A m \in lines : m.at <= l.at

EntryFieldAuthor(k) == IF LinesOf(k) = {} THEN "unknown" ELSE NewestOf(LinesOf(k)).actor

-----------------------------------------------------------------------------
HistoryStep(c) ==
  \/ AskSave(c) \/ AskRestore(c) \/ AskStatus(c)
  \/ FetchUpdate(c) \/ FetchRestore(c) \/ FetchStatus(c)
  \/ Invalid(c)
  \/ SaveEntry(c)
  \/ SetEntryPublishState(c)
  \/ RecordActivity(c)
  \/ Lose(c)
  \/ DiffEntryRevision(c)

HistoryNext ==
  \/ \E c \in Callers : HistoryStep(c)
  \/ \E k \in FieldKeys : DeleteField(k) \/ AddField(k)

HistorySpec == HistoryInit /\ [][HistoryNext]_historyVars

-----------------------------------------------------------------------------
Ops == {"create", "update", "restore", "publish", "unpublish"}

(* A line of the stream, a release, and a comparison.                      *)
Activity == [at : Nat, actor : Callers \cup {Founder}, op : Ops,
             outcome : {"success", "denied"},
             keys : SUBSET FieldKeys, dropped : SUBSET FieldKeys]
PublishRevisions == [no : Nat \ {0}, payload : Document, version : Nat]
Comparisons == [version : Nat, no : Nat, fields : SUBSET FieldKeys, keys : SUBSET FieldKeys,
                hidden : BOOLEAN, dropped : SUBSET FieldKeys]

(* Type invariant of the entry, its memory and the requests.               *)
HistoryTypeOK ==
  /\ entry.payload \in Document /\ entry.snapshot \in Document
  /\ entry.version \in Nat /\ entry.status \in {"draft", "published"}
  /\ entry.status = "draft" <=> entry.firstAt = 0
  /\ defined \subseteq FieldKeys
  /\ releases \subseteq PublishRevisions
  /\ activity \subseteq Activity
  /\ \A c \in Callers : /\ calls[c].stage \in {"idle", "asked", "ready", "over"}
                        /\ viewed[c] \in Comparisons

(* The newest release is what delivery serves, less what was deleted since,*)
(* and exactly the last MaxReleases are kept (recordPublishRevision).      *)
ReleasesFollowTheShelf ==
  /\ {r.no : r \in releases} = {n \in 1..LastNo : n > LastNo - MaxReleases}
  /\ \A r, s \in releases : r.no < s.no <=> r.version < s.version
  /\ releases # {} =>
       LET last == Revision(LastNo) IN
       /\ last.version <= entry.released
       /\ \A k \in KeysIn(entry.snapshot) : entry.snapshot[k] = last.payload[k]
  /\ releases = {} => entry.released = 0

(* The newest saved version is the working copy as it stands, whatever was *)
(* saved, restored, released or deleted meanwhile (recordEntryRevision).   *)
SavedAsItStands ==
  \E s \in saves : /\ \A t \in saves : t.version <= s.version
                    /\ s.version <= entry.version /\ s.payload = entry.payload

(* A refusal names no key; and a key that awaits release carries the name  *)
(* of its last writer, unless that write overlapped another or left no     *)
(* line (EntryFieldAttribution).                                           *)
BylinesAreTrue ==
  /\ \A l \in activity : l.outcome = "denied" => l.keys = {} /\ l.dropped = {}
  /\ \A k \in FieldKeys \ unsure :
       /\ entry.status = "published" /\ entry.payload[k] # entry.snapshot[k]
       /\ \A c \in Callers : calls[c].outcome = "success" => k \notin calls[c].keys
       => EntryFieldAuthor(k) = writer[k]

(* The memory of an entry agrees with the entry (recordEntryRevision,      *)
(* recordPublishRevision, EntryFieldAttribution).                          *)
HistorySound ==
  HistoryTypeOK /\ ReleasesFollowTheShelf /\ SavedAsItStands /\ BylinesAreTrue

Succeeds(c) == calls[c].outcome # "success" /\ calls'[c].outcome = "success"

(* What a restore changes is what the comparison announced to its caller,  *)
(* if it named that version and the fields are those; no write moves a     *)
(* value that its caller may not write; the line names what was moved      *)
(* (RestoreEntryRevision, DiffEntryRevision).                              *)
RestoresAsShown ==
  [][\A c \in Callers :
       /\ Succeeds(c) /\ calls[c].op \in {"update", "restore"}
       => LET call == calls[c]
              moved == ChangedKeysBetween(entry.payload, entry'.payload)
              hidden == UnreadableKeys(c) \cap call.fields IN
          /\ call.keys \subseteq moved /\ moved \cap call.fields \subseteq call.keys
          /\ \A k \in moved \cap call.fields : CanWriteField(c, k)
          /\ (/\ call.op = "restore" /\ call.expect # 0 /\ call.no = viewed[c].no
              /\ viewed[c].fields = call.fields)
             => /\ VisibleKeys(call.keys, hidden) = viewed[c].keys
                /\ viewed[c].hidden <=> call.keys \cap hidden # {}
                /\ viewed[c].dropped = call.dropped]_historyVars

(* The comment above the guard: "Replaying a restricted field's identical  *)
(* value is not a write to it".  A restore is refused for its fields only  *)
(* if it would move one that its caller may not write.                     *)
IdenticalValuesMayBeRestored ==
  [][\A c \in Callers :
       /\ calls[c].stage = "asked" /\ calls'[c].outcome = "denied"
       /\ calls[c].op = "restore" /\ Authorized(c, "restore") /\ ~Moved(c)
       /\ \E r \in releases : r.no = calls[c].no
       => \E k \in ChangedKeysBetween(Pruned(entry.payload, defined),
                                      Pruned(Revision(calls[c].no).payload, defined)) :
            ~CanWriteField(c, k)]_historyVars

=============================================================================
