----------------------------- MODULE EntryReads -----------------------------
(* One read of the content service, step by step, beside the writers: an    *)
(* entry, a list or a group of translations, with the relations its caller  *)
(* asked to expand (populate), and the queries that show entries without    *)
(* going through GET.                                                       *)
EXTENDS Naturals, FiniteSets, SequencesExt

CONSTANTS Articles, Profiles,  \* the entries of two types
          WrittenBy,           \* [entry -> user]
          GroupOf,             \* [entry -> translation group]
          LocaleOf,            \* [entry -> locale]
          Lists,               \* the role lists the two types may carry
          Worlds,              \* the documents the entries start with
          Readers,             \* who may ask
          Populates,           \* the ?populate= values one may send
          MaxDepth,            \* maxPopulateDepth
          MaxTargets,          \* maxPopulateIDs
          MaxEdits             \* bound: writes beside the read

VARIABLES roleLists,  \* the lists of the types and of a field, fixed
          store,      \* the entries
          decided,    \* the version the last decision sent back, 0 if none
          reading,    \* the request
          edits       \* writes so far

readVars == <<roleLists, store, decided, reading, edits>>

EntriesOf == [article |-> Articles, profile |-> Profiles]
Stored == Articles \cup Profiles
KindOf(e) == IF e \in Articles THEN "article" ELSE "profile"
RelationsOf == [article |-> {"author", "cover"}, profile |-> {"best"}]
TargetKind == [author |-> "profile", cover |-> "article", best |-> "article"]

Docs(e) == [RelationsOf[KindOf(e)] -> SUBSET Stored]

(* A path is the segments of ?populate=, whatever they are. *)
ASSUME ReadsAssumption ==
    /\ Articles \cap Profiles = {}
    /\ \A w \in Worlds : \A e \in Stored : w[e] \in Docs(e)
    /\ \A paths \in Populates : \A p \in paths : p \in Seq(STRING)
    /\ MaxTargets \in Nat /\ MaxEdits \in Nat

NoSnapshot == [none |-> TRUE]
Unasked == [stage |-> "idle"]

ReadsInit ==
    /\ roleLists \in Lists
    /\ \E w \in Worlds, drafts \in SUBSET Stored :
          store = [e \in Stored |->
             [status   |-> IF e \in drafts THEN "draft" ELSE "published",
              working  |-> w[e],
              snapshot |-> IF e \in drafts THEN NoSnapshot ELSE w[e],
              version  |-> 2]]
    /\ \E v \in {0, 1} : decided = [e \in Stored |-> v]  \* none, or one before the last write
    /\ reading = Unasked
    /\ edits = 0

-----------------------------------------------------------------------------
(* What a reader may see. *)
Public(s) == s.kind \in {"delivery", "preview"}

ListAdmits(list, s) == list = {} \/ (~Public(s) /\ s.role \in list)

(* canReadType, canReadField. *)
TypeOpen(s, t) == ListAdmits(roleLists.read[t], s)
FieldOpen(s, f) == ListAdmits(roleLists.field[f], s)

(* confinedAuthor, guardOwned; the delivery edge is never confined. *)
OwnOnly(s, t) == ~Public(s) /\ s.role \in roleLists.own[t]
Mine(s, e) == OwnOnly(s, KindOf(e)) => WrittenBy[e] = s.user

Kept(e) == store[e].status # "gone"

(* With matchPublished, which asks for the snapshot as well. *)
IsPublished(e) == store[e].status = "published" /\ store[e].snapshot # NoSnapshot

(* ProjectEntry: delivery is served the snapshot, everyone else the working
   copy. *)
CopyFor(s, e) == IF s.kind = "delivery" THEN store[e].snapshot ELSE store[e].working

(* Mutant of Refs: the ids are read from the working copy for everyone. *)
RefsOfDraft(e, doc, f) == store[e].working[f]

(* populateSourcePayload, relationIDs: the ids to expand are those of the copy
   that is served. *)
Refs(e, doc, f) == doc[f]

CanBeServed(s, e) == Kept(e) /\ Mine(s, e) /\ (s.kind = "delivery" => IsPublished(e))

-----------------------------------------------------------------------------
(* The writers.  A request under way remembers what it could have been shown
   since it began and what, for a moment at least, it could not. *)
Watch(s) ==
    [could |-> {<<e, CopyFor(s, e)>> : e \in {x \in Stored : CanBeServed(s, x)}},
     could_not |-> {e \in Stored : ~CanBeServed(s, e)}]

Watched ==
    IF reading.stage \notin {"rows", "group", "walk"} THEN UNCHANGED reading
    ELSE \E s \in {reading.who} :
            reading' = [reading EXCEPT !.could = @ \cup Watch(s)'.could,
                                       !.could_not = @ \cup Watch(s)'.could_not]

Edit(e, r) ==
    /\ edits < MaxEdits /\ edits' = edits + 1
    /\ store' = [store EXCEPT ![e] = r]
    /\ UNCHANGED <<roleLists, decided>>
    /\ Watched

Retarget(e, f, ids) ==
    /\ Kept(e) /\ f \in RelationsOf[KindOf(e)]
    /\ Edit(e, [store[e] EXCEPT !.working[f] = ids, !.version = @ + 1])

PublishRead(e) ==
    /\ Kept(e)
    /\ Edit(e, [store[e] EXCEPT !.status = "published", !.snapshot = store[e].working,
                                 !.version = @ + 1])

(* A retracted entry keeps its snapshot. *)
TakeDown(e) ==
    /\ Kept(e) /\ store[e].status = "published"
    /\ Edit(e, [store[e] EXCEPT !.status = "draft", !.version = @ + 1])

Discard(e) == Kept(e) /\ Edit(e, [store[e] EXCEPT !.status = "gone"])

SendBack(e) ==
    /\ Kept(e) /\ edits < MaxEdits /\ edits' = edits + 1
    /\ decided' = [decided EXCEPT ![e] = store[e].version]
    /\ UNCHANGED <<roleLists, store, reading>>

-----------------------------------------------------------------------------
(* parsePopulate. *)
KindAt(t, path) == IF path = <<>> THEN t ELSE TargetKind[Last(path)]

(* Mutant of Expandable: only the parent's field is looked at. *)
ExpandableField(s, t, path) ==
    /\ Len(path) <= MaxDepth
    /\ \A i \in 1..Len(path) :
          /\ path[i] \in RelationsOf[KindAt(t, SubSeq(path, 1, i - 1))]
          /\ FieldOpen(s, path[i])

(* Every segment names a relation field this caller may read, and every type on
   the way is a collection it may read. *)
Expandable(s, t, path) ==
    /\ Len(path) <= MaxDepth
    /\ \A i \in 1..Len(path) :
          /\ path[i] \in RelationsOf[KindAt(t, SubSeq(path, 1, i - 1))]
          /\ FieldOpen(s, path[i])
          /\ TypeOpen(s, TargetKind[path[i]])

(* authorize and the guards that come before a row is read: the agent's
   whitelist, the preview's one entry, the type, the paths. *)
Admitted(s, road, t, paths) ==
    /\ s.kind = "agent" => t \in s.types
    /\ s.kind = "preview" => road = "get" /\ paths = {}
    /\ TypeOpen(s, t)
    /\ road = "translations" => paths = {}
    /\ \A p \in paths : Expandable(s, t, p)

AskRead(s, road, t, e, paths) ==
    /\ reading.stage = "idle"
    /\ road = "list" => e = CHOOSE x \in EntriesOf[t] : TRUE  \* a list names none
    /\ reading' = IF ~Admitted(s, road, t, paths) THEN [stage |-> "refused"]
                  ELSE [stage |-> "rows", who |-> s, road |-> road, kind |-> t, id |-> e,
                        paths |-> paths, root |-> <<>>, todo |-> <<>>, levels |-> {},
                        shown |-> {}, seen |-> {}, could |-> Watch(s).could,
                        could_not |-> Watch(s).could_not]
    /\ UNCHANGED <<roleLists, store, decided, edits>>

(* The fields the paths expand below a place. *)
FieldsAt(paths, at) ==
    {p[Len(at) + 1] : p \in {q \in paths : Len(q) > Len(at) /\ IsPrefix(at, q)}}

CopiesFor(s, ids) == [e \in ids |-> CopyFor(s, e)]

Level(at, rows, path) == [at |-> at, rows |-> rows, path |-> path]

WithRoot(ids) ==
    LET rows == CopiesFor(reading.who, ids)
    IN  [reading EXCEPT !.stage = IF ids = {} \/ reading.paths = {} THEN "answered" ELSE "walk",
                        !.root = rows,
                        !.todo = <<Level(<<>>, rows, {})>>]

(* What GET shows of one entry: the row of this type with this id, if it is
   the caller's, live for delivery, and the one a preview names. *)
Gets(s, t, e) ==
    /\ Kept(e) /\ KindOf(e) = t /\ Mine(s, e)
    /\ s.kind = "delivery" => store[e].status = "published"
    /\ s.kind = "preview" => e = s.only

FetchEntry ==
    /\ reading.stage = "rows" /\ reading.road = "get"
    /\ reading' = IF Gets(reading.who, reading.kind, reading.id) THEN WithRoot({reading.id})
                  ELSE [stage |-> "refused"]
    /\ UNCHANGED <<roleLists, store, decided, edits>>

(* Mutant of Listed: the page is not cut to the caller's own entries. *)
ListedAll(s, t) ==
    {e \in EntriesOf[t] : Kept(e) /\ (s.kind = "delivery" => IsPublished(e))}

(* ListEntries: created_by for a confined caller, published rows with a
   snapshot for delivery. *)
Listed(s, t) ==
    {e \in EntriesOf[t] :
       /\ Kept(e)
       /\ OwnOnly(s, t) => WrittenBy[e] = s.user
       /\ s.kind = "delivery" => IsPublished(e)}

FetchPage ==
    /\ reading.stage = "rows" /\ reading.road = "list"
    /\ reading' = WithRoot(Listed(reading.who, reading.kind))
    /\ UNCHANGED <<roleLists, store, decided, edits>>

(* ListTranslations reads the entry, then its group. *)
FetchSource ==
    /\ reading.stage = "rows" /\ reading.road = "translations"
    /\ reading' = IF Gets(reading.who, reading.kind, reading.id)
                  THEN [reading EXCEPT !.stage = "group"] ELSE [stage |-> "refused"]
    /\ UNCHANGED <<roleLists, store, decided, edits>>

FetchGroup ==
    /\ reading.stage = "group"
    /\ reading' = WithRoot({e \in Listed(reading.who, reading.kind) :
                              GroupOf[e] = GroupOf[reading.id]})
    /\ UNCHANGED <<roleLists, store, decided, edits>>

-----------------------------------------------------------------------------
(* Mutant of Rendered: a target is rendered whoever wrote it. *)
RenderedAnyway(s, f, e) == KindOf(e) = TargetKind[f]

(* A fetched row is rendered if it has the type the field declares and is the
   caller's. *)
Rendered(s, f, e) == KindOf(e) = TargetKind[f] /\ Mine(s, e)

(* Mutant of ExpandedNext: an entry already on the way is expanded again. *)
ExpandedAlways(e, path) == TRUE

ExpandedNext(e, path) == e \notin path

(* GetEntriesByIDs. *)
Fetched(s, ids) == {e \in ids : Kept(e) /\ (s.kind = "delivery" => IsPublished(e))}

(* Mutant of WithinBudget: each level has a budget of its own. *)
WithinLevelBudget(seen, new) == Cardinality(new) <= MaxTargets

(* populateBudget.add: the distinct targets of the whole request. *)
WithinBudget(seen, new) == Cardinality(seen \cup new) <= MaxTargets

(* populateLevel, a level of the request r: the ids its rows name, one query for
   them all, *)
NewIds(r, l) ==
    UNION {Refs(e, l.rows[e], f) : e \in DOMAIN l.rows, f \in FieldsAt(r.paths, l.at)}

(* the nodes to render of what it finds, *)
NodeAt(r, l, f, e, x) ==
    [at |-> Append(l.at, f), parent |-> e, id |-> x, doc |-> CopyFor(r.who, x)]

NodesOf(r, l, f) ==
    LET found == Fetched(r.who, NewIds(r, l))
        rendered(e) == {x \in found \cap Refs(e, l.rows[e], f) : Rendered(r.who, f, x)}
    IN  UNION {{NodeAt(r, l, f, e, x) : x \in rendered(e)} : e \in DOMAIN l.rows}

(* and the level below each field that has one. *)
Walk(l) == l.path \cup DOMAIN l.rows

LevelBelow(r, l, f) ==
    Level(Append(l.at, f),
          CopiesFor(r.who, {x \in {n.id : n \in NodesOf(r, l, f)} : ExpandedNext(x, Walk(l))}), Walk(l))

NewLevels(r, l) ==
    {d \in {LevelBelow(r, l, f) : f \in FieldsAt(r.paths, l.at)} :
       FieldsAt(r.paths, d.at) # {} /\ DOMAIN d.rows # {}}

Expanded(r, l) ==
    [r EXCEPT !.seen = @ \cup NewIds(r, l),
              !.shown = @ \cup UNION {NodesOf(r, l, f) : f \in FieldsAt(r.paths, l.at)},
              !.levels = @ \cup {l},
              !.todo = SetToSeq(NewLevels(r, l)) \o Tail(@)]

ExpandLevel ==
    /\ reading.stage = "walk" /\ reading.todo # <<>>
    /\ reading' = IF WithinBudget(reading.seen, NewIds(reading, Head(reading.todo)))
                  THEN Expanded(reading, Head(reading.todo)) ELSE [stage |-> "refused"]
    /\ UNCHANGED <<roleLists, store, decided, edits>>

FinishRead ==
    /\ reading.stage = "walk" /\ reading.todo = <<>>
    /\ reading' = [reading EXCEPT !.stage = "answered"]
    /\ UNCHANGED <<roleLists, store, decided, edits>>

ReadsNext ==
    \/ \E e \in Stored :
          \/ \E f \in DOMAIN TargetKind : \E ids \in SUBSET EntriesOf[TargetKind[f]] :
                (f = "best" \/ Cardinality(ids) <= 1) /\ Retarget(e, f, ids)
          \/ PublishRead(e) \/ TakeDown(e) \/ Discard(e) \/ SendBack(e)
    \/ \E s \in Readers, road \in {"get", "list", "translations"}, e \in Stored,
          paths \in Populates : AskRead(s, road, KindOf(e), e, paths)
    \/ FetchEntry \/ FetchPage \/ FetchSource \/ FetchGroup \/ ExpandLevel \/ FinishRead

ReadsSpec == ReadsInit /\ [][ReadsNext]_readVars
-----------------------------------------------------------------------------
(* The other queries that show entries: search, the counts by locale, the
   review queue, and what refers to an entry. *)

(* dataVisibleExpr. *)
VisibleRow(s, e) ==
    /\ Kept(e)
    /\ roleLists.read[KindOf(e)] = {} \/ s.role \in roleLists.read[KindOf(e)]
    /\ ~(s.role \in roleLists.own[KindOf(e)]) \/ WrittenBy[e] = s.user

(* unpublishedChangesExpr, pendingReviewExpr. *)
Changed(e) == store[e].status = "published" /\ store[e].working # store[e].snapshot
AwaitsReview(e) == store[e].status # "published" \/ Changed(e)

(* Mutant of NotSentBack: any decision at all takes the entry off the queue. *)
NeverSentBack(e) == decided[e] = 0

(* reviewDecisionNotSentBackExpr. *)
NotSentBack(e) == store[e].version # decided[e]

Queue(s) == {e \in Stored : VisibleRow(s, e) /\ AwaitsReview(e) /\ NotSentBack(e)}

CountIn(s, l) == Cardinality({e \in Stored : VisibleRow(s, e) /\ LocaleOf[e] = l})

(* withReviewDecision: GET shows the decision on the version it shows. *)
ShowsDecision(e) == decided[e] = store[e].version

(* referencedByQuery over the two link tables, and readableReferencedByRows. *)
LinksTo(x) ==
    {[from |-> y[1], field |-> y[2],
      draft |-> x \in store[y[1]].working[y[2]],
      published |-> store[y[1]].snapshot # NoSnapshot /\ x \in store[y[1]].snapshot[y[2]]] :
       y \in {z \in Stored \X DOMAIN TargetKind :
                Kept(z[1]) /\ z[2] \in RelationsOf[KindOf(z[1])]}}

(* Mutant of Referrers: the types of the referrers are not looked at. *)
ReferrersOfAnyType(s, x) == {l \in LinksTo(x) : l.draft \/ l.published}

Referrers(s, x) ==
    {l \in LinksTo(x) : /\ l.draft \/ l.published
                        /\ s.kind = "agent" => KindOf(l.from) \in s.types
                        /\ TypeOpen(s, KindOf(l.from))}

-----------------------------------------------------------------------------
ReadsTypeOK ==
    /\ roleLists \in Lists
    /\ \A e \in Stored :
          /\ store[e].status \in {"draft", "published", "gone"}
          /\ store[e].working \in Docs(e)
          /\ store[e].snapshot \in Docs(e) \cup {NoSnapshot}
          /\ store[e].version \in 2..(MaxEdits + 2)
    /\ decided \in [Stored -> 0..(MaxEdits + 2)]
    /\ edits \in 0..MaxEdits
    /\ reading.stage \in {"idle", "rows", "group", "walk", "answered", "refused"}

InHand == reading.stage \in {"walk", "answered"}

(* The rows that stand at a place of the answer, with the copy read of each. *)
NodesAt(at) ==
    IF at = <<>> THEN {<<e, reading.root[e]>> : e \in DOMAIN reading.root}
    ELSE {<<n.id, n.doc>> : n \in {m \in reading.shown : m.at = at}}

Places == {<<>>} \cup {n.at : n \in reading.shown}

(* Every entry in an answer, at any depth, is one the caller could have been
   served while the request ran, in a copy it could have been served: no draft
   and no retracted entry on the delivery edge, no colleague's entry for a
   confined editor (populate.go populateLevel "so `related` can never describe
   a different copy from `data`", populateSourcePayload, guardOwned). *)
ShownWasServed ==
    InHand => \A at \in Places : NodesAt(at) \subseteq reading.could

(* And every entry under a parent is one the parent's shown copy names
   (populate.go "the ids that get expanded can never come from a different
   document than the ids that get rendered"). *)
ShownIsNamed ==
    InHand => \A n \in reading.shown :
       \E p \in NodesAt(Front(n.at)) :
          p[1] = n.parent /\ n.id \in p[2][Last(n.at)]

(* No collection is read through a relation that could not be read by itself
   (populate.go parsePopulate, guardTypeRead at every segment). *)
ShownIsReadable ==
    InHand => \A n \in reading.shown :
       TypeOpen(reading.who, KindOf(n.id)) /\ FieldOpen(reading.who, Last(n.at))

(* A walk never expands an entry below itself, reads no more targets than one
   request may, and answers whole or not at all: a target that was there all
   along is in the answer (populate.go populateBudget "Refused rather than
   truncated", populateLevel "this makes it not repeat itself"). *)
WalkIsWhole ==
    InHand =>
       /\ Cardinality(reading.seen) <= MaxTargets
       /\ \A l, m \in reading.levels :
             l.at # m.at /\ IsPrefix(l.at, m.at) => DOMAIN l.rows \cap DOMAIN m.rows = {}
       /\ \A l \in reading.levels : \A f \in FieldsAt(reading.paths, l.at) :
             \A e \in DOMAIN l.rows : \A x \in l.rows[e][f] \ reading.could_not :
                KindOf(x) = TargetKind[f] =>
                   \E n \in reading.shown :
                      n.at = Append(l.at, f) /\ n.parent = e /\ n.id = x

(* The list, search, the counts by locale and the queue show a member exactly
   what GET shows one by one; what is pending but off the queue is what GET
   shows with a decision; a referrer is of a type its reader may open
   (postgres_repository.go ListEntries, SearchEntries, ListLocales,
   ListPendingReview, dto.go withReviewDecision, readableReferencedByRows). *)
RoadsAgree ==
    \A s \in {r \in Readers : r.kind = "user"} :
       /\ \A t \in DOMAIN EntriesOf : TypeOpen(s, t) =>
             Listed(s, t) = {e \in EntriesOf[t] : Gets(s, t, e)}
       /\ \A e \in Stored :
             VisibleRow(s, e) <=> TypeOpen(s, KindOf(e)) /\ Gets(s, KindOf(e), e)
       /\ \A l \in {LocaleOf[e] : e \in Stored} :
             CountIn(s, l) = Cardinality({e \in Stored : LocaleOf[e] = l
                                /\ TypeOpen(s, KindOf(e)) /\ Gets(s, KindOf(e), e)})
       /\ \A e \in Stored : VisibleRow(s, e) /\ AwaitsReview(e) =>
             (e \in Queue(s) <=> ~ShowsDecision(e))
       /\ \A x \in Stored : \A l \in Referrers(s, x) : TypeOpen(s, KindOf(l.from))

(* A read shows what its caller could be served, whole, whatever is written
   beside it, and every road to an entry agrees with GET (populate.go,
   content_service.go, postgres_repository.go). *)
ReadsSound == /\ ReadsTypeOK /\ ShownWasServed /\ ShownIsNamed /\ ShownIsReadable
              /\ WalkIsWhole /\ RoadsAgree

(* An entry met again below itself is not expanded there, because "expanding it
   would only reproduce a subtree this same walk already computed" (populate.go
   populateLevel): what is asked below it was computed where it stood above. *)
UnexpandedWasComputed ==
    reading.stage = "answered" =>
       \A n \in reading.shown :
          LET asked == FieldsAt(reading.paths, n.at)
          IN asked = {} \/ (\E l \in reading.levels :
                /\ IsPrefix(l.at, n.at) /\ n.id \in DOMAIN l.rows
                /\ asked \subseteq FieldsAt(reading.paths, l.at))

=============================================================================
