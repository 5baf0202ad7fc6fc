------------------------------- MODULE Paging -------------------------------
(***************************************************************************)
(* A delivery client pages through the published entries of one content    *)
(* type (content_service.go ListEntries, cursor.go) while editors go on    *)
(* writing them.  Nothing is kept between two pages but the cursor: the    *)
(* position of the last entry of a page in the order of the sort, read     *)
(* from what that page served.                                             *)
(*                                                                         *)
(* A payload is the value of the field one sorts and filters by, or        *)
(* Absent.  Values are ranks: their text and its cast back to the type of  *)
(* the field are inverse.  The pages of the console, by offset over the    *)
(* drafts, promise nothing while entries move and are left out.            *)
(***************************************************************************)
EXTENDS Integers, FiniteSets

CONSTANTS Ids,        \* entry ids, numbered in their order
          CreatedAt,  \* [Ids -> Nat]: when each entry is, or will be, created
          Ranks,      \* values of the field, in their order
          Limit,      \* entries on a page
          MaxWrites   \* bound: writes during a traversal

ASSUME PagingAssumption ==
    /\ Ids \subseteq Nat /\ IsFiniteSet(Ids) /\ Ranks \subseteq Nat
    /\ CreatedAt \in [Ids -> Nat]
    /\ Limit \in Nat \ {0} /\ MaxWrites \in Nat

Absent == -1
Hidden == -2
Unwritten == -3
Fields == Ranks \cup {Absent}

Sorts == {"none", "asc", "desc"}
FirstPage == [first |-> TRUE]

VARIABLES payload,    \* entries.payload of each entry, or Unwritten
          published,  \* entries.published_payload while the status is published, or Hidden
          sort,       \* the sort the client asks for
          equals,     \* its filter: field = value, or Absent for none
          cursor,     \* where its next page starts
          listed,     \* [Ids -> Nat]: how often each entry was listed
          ended,      \* a page had no successor
          moved,      \* history: entries whose published payload changed meanwhile
          writes

pagingVars == <<payload, published, sort, equals, cursor, listed, ended, moved, writes>>

PagingTypeOK ==
    /\ payload \in [Ids -> Fields \cup {Unwritten}]
    /\ published \in [Ids -> Fields \cup {Hidden}]
    /\ \A e \in Ids : payload[e] = Unwritten => published[e] = Hidden
    /\ sort \in Sorts /\ equals \in Fields
    /\ listed \in [Ids -> Nat] /\ moved \subseteq Ids
    /\ ended \in BOOLEAN /\ writes \in 0 .. MaxWrites
    /\ ~cursor.first => cursor.sort \in Sorts /\ cursor.id \in Ids /\ cursor.value \in Fields

PagingInit ==
    /\ \E held \in [Ids -> Fields \cup {Unwritten}], out \in SUBSET Ids :
          /\ payload = held
          /\ published = [e \in Ids |-> IF e \in out THEN held[e] ELSE Hidden]
          /\ \A e \in out : held[e] # Unwritten
    /\ sort \in Sorts /\ equals \in Fields
    /\ cursor = FirstPage
    /\ listed = [e \in Ids |-> 0]
    /\ ended = FALSE /\ moved = {} /\ writes = 0

-----------------------------------------------------------------------------
(* Writes of editors. *)
Write(e, held, out) ==
    /\ writes < MaxWrites /\ writes' = writes + 1
    /\ payload' = [payload EXCEPT ![e] = held]
    /\ published' = [published EXCEPT ![e] = out]
    /\ moved' = IF out # published[e] THEN moved \cup {e} ELSE moved
    /\ UNCHANGED <<sort, equals, cursor, listed, ended>>

Compose(e) == \E v \in Fields : payload[e] = Unwritten /\ Write(e, v, Hidden)
Revise(e) == \E v \in Fields : payload[e] \notin {Unwritten, v} /\ Write(e, v, published[e])
Release(e) == payload[e] # Unwritten /\ published[e] # payload[e] /\ Write(e, payload[e], payload[e])
Retract(e) == published[e] # Hidden /\ Write(e, payload[e], Hidden)

(* Mutant of Remove: the draft goes and the published payload stays. *)
RemoveDraft(e) == payload[e] # Unwritten /\ Write(e, Unwritten, published[e])

Remove(e) == payload[e] # Unwritten /\ Write(e, Unwritten, Hidden)

-----------------------------------------------------------------------------
(* ListEntries and buildWhere: delivery reads the published payload, for the
   filter, for the order and for the cursor. *)

(* Mutant of PredicateColumn: the filter and the order read the draft. *)
DraftColumn(e) == payload[e]

PredicateColumn(e) == published[e]

Matching == {e \in Ids : published[e] # Hidden /\ (equals # Absent => PredicateColumn(e) = equals)}

Cmp(a, b) == IF sort = "desc" THEN a < b ELSE a > b

(* ORDER BY: newest first; or by the value, entries without one last in
   either direction; ties by id in the direction of the sort. *)
Precedes(x, y) ==
    LET a == PredicateColumn(x)
        b == PredicateColumn(y)
    IN IF sort = "none"
       THEN CreatedAt[x] > CreatedAt[y] \/ (CreatedAt[x] = CreatedAt[y] /\ x > y)
       ELSE \/ a # Absent /\ b = Absent
            \/ a # Absent /\ b # Absent /\ Cmp(b, a)
            \/ a = b /\ Cmp(y, x)

(* The WHERE clause that seeks past the cursor. *)
Seeks(e) ==
    LET v == PredicateColumn(e)
    IN \/ cursor.first
       \/ /\ sort = "none"
          /\ \/ CreatedAt[e] < cursor.created
             \/ CreatedAt[e] = cursor.created /\ e < cursor.id
       \/ /\ sort # "none" /\ cursor.value = Absent
          /\ v = Absent /\ Cmp(e, cursor.id)
       \/ /\ sort # "none" /\ cursor.value # Absent
          /\ \/ v = Absent
             \/ v # Absent /\ Cmp(v, cursor.value)
             \/ v = cursor.value /\ Cmp(e, cursor.id)

(* decodeCursor refuses a cursor that was issued for another sort. *)
CursorMatches == ~cursor.first => cursor.sort = sort

(* encodeCursor: the sort value is the published one. *)
EncodeCursor(e) ==
    [first |-> FALSE, sort |-> sort, created |-> CreatedAt[e], value |-> published[e], id |-> e]

(* One entry more than the page is read, and dropped again: it says whether
   there is a next page. *)
Place(e, rest) == Cardinality({x \in rest : Precedes(x, e)})

(* Mutant of Last: the cursor is that of the entry that was dropped. *)
LastRead(rest) == CHOOSE e \in rest : Place(e, rest) = Limit

Last(rest) == CHOOSE e \in rest : Place(e, rest) = Limit - 1

NextPage ==
    /\ ~ended /\ CursorMatches
    /\ LET rest == {e \in Matching : Seeks(e)}
           page == {e \in rest : Place(e, rest) < Limit}
           more == Cardinality(rest) > Limit
       IN /\ listed' = [e \in Ids |-> IF e \in page THEN listed[e] + 1 ELSE listed[e]]
          /\ ended' = ~more
          /\ cursor' = IF more THEN EncodeCursor(Last(rest)) ELSE cursor
    /\ UNCHANGED <<payload, published, sort, equals, moved, writes>>

(* The client sends its cursor with another sort, and is refused until it
   asks as before. *)
ChangeSort ==
    /\ ~cursor.first /\ ~ended
    /\ \/ sort = cursor.sort /\ sort' \in Sorts \ {sort}
       \/ sort # cursor.sort /\ sort' = cursor.sort
    /\ UNCHANGED <<payload, published, equals, cursor, listed, ended, moved, writes>>

PagingNext ==
    \/ NextPage \/ ChangeSort
    \/ \E e \in Ids : Compose(e) \/ Revise(e) \/ Release(e) \/ Retract(e) \/ Remove(e)

PagingSpec == PagingInit /\ [][PagingNext]_pagingVars
-----------------------------------------------------------------------------
(* Whatever editors do between the pages to other entries, and to the draft
   of this one, an entry that stays published with one content is listed
   exactly once by a traversal that has ended: the seek goes on where the
   order stopped, in either direction, with ties and with entries that have
   no value (postgres_repository.go:2186, cursor.go:103). *)
SettledEntriesListedOnce ==
    ended => \A e \in Ids \ moved : listed[e] = IF e \in Matching THEN 1 ELSE 0

(* A traversal lists every entry that stays put exactly once, from cursors that
   name published values (content_service.go ListEntries). *)
PagesSound == PagingTypeOK /\ SettledEntriesListedOnce

=============================================================================
