-------------------------- MODULE SchemaComponents --------------------------
(***************************************************************************)
(* Components, and the field of a content type that uses them: one that    *)
(* embeds a component by its id, or a dynamic zone that lists components   *)
(* by name and tags each item with the name.                               *)
(*                                                                         *)
(* A call reads the component, then the fields that refer to it and the    *)
(* entries its change would break, then writes: the write goes by what was *)
(* read, the name and the referrers included.  An embedding is a foreign   *)
(* key; a zone's list is an array the database does not check.  So the     *)
(* transaction of a deletion asks the zones once more before it deletes,   *)
(* with a SELECT that locks nothing: whoever commits between the two has   *)
(* overtaken the deletion.  The other writes are a step each, and whoever  *)
(* commits between their statements has overtaken them before the first.   *)
(***************************************************************************)
EXTENDS Integers, FiniteSets

CONSTANTS
  Components, \* component ids
  Names,      \* component names
  SubKeys,    \* keys of the sub-fields
  Admins,     \* calls on components and on the field
  Writers,    \* requests that write the entry
  Shapes,     \* the sub-fields a component is created with
  NoField,    \* the type has no such field
  NoItem,     \* the entry holds nothing there
  NoComponent \* the id is not, or no longer, in use

ASSUME ComponentAssumption ==
  /\ IsFiniteSet(SubKeys) /\ IsFiniteSet(Names)
  /\ Shapes \subseteq [SubKeys -> {"none", "optional", "required"}]
  /\ NoComponent \notin Components /\ NoField \notin {"zone", "embed"}

VARIABLES
  component, \* content_components and their sub-fields
  field,     \* the field of the type that uses them
  item,      \* what the entry holds there, in each copy
  work,      \* what each call has read and will write
  draft,     \* what each writer has read and will write
  torn       \* history: what a call that was overtaken has touched

componentVars == <<component, field, item, work, draft, torn>>

-----------------------------------------------------------------------------
(* A sub-field is not defined, optional or required.                       *)
SubFields == [SubKeys -> {"none", "optional", "required"}]
KeysOf(fields) == {k \in SubKeys : fields[k] # "none"}
Required(fields) == {k \in SubKeys : fields[k] = "required"}

Unused == [live |-> FALSE, name |-> "", fields |-> [k \in SubKeys |-> "none"]]
Live(c) == component[c].live
Named(n) == {c \in Components : Live(c) /\ component[c].name = n}
There(n) == Named(n) # {}

(* How the type's field uses components; `uses' is a set of ids or names.  *)
Zone(ns) == [kind |-> "zone", uses |-> ns]
Embed(c) == [kind |-> "embed", uses |-> {c}]
FieldKinds == {"zone", "embed"}

Copies == {"working", "live"}
Item(tag, ks) == [held |-> TRUE, tag |-> tag, keys |-> ks]
Nothing == [held |-> FALSE, tag |-> NoItem, keys |-> {}]

(* An item of an embedding carries no tag.                                 *)
Valid(i) ==
  \/ ~i.held
  \/ \E c \in Components :
       /\ Live(c)
       /\ CASE field.kind = "embed" -> c \in field.uses /\ i.tag = NoItem
            [] field.kind = "zone"  -> component[c].name \in field.uses
                                         /\ i.tag = component[c].name
            [] OTHER -> FALSE
       /\ i.keys \subseteq KeysOf(component[c].fields)
       /\ Required(component[c].fields) \subseteq i.keys

NoCall == [op |-> "none", stage |-> "idle", id |-> NoComponent, name |-> "", ref |-> "none",
           key |-> "", to |-> "", uses |-> {}, force |-> FALSE, crossed |-> FALSE]
NoDraft == [stage |-> "idle", item |-> Nothing, fresh |-> TRUE, crossed |-> FALSE]

ComponentInit ==
  /\ component = [c \in Components |-> Unused]
  /\ field = [kind |-> NoField, uses |-> {}]
  /\ item = [copy \in Copies |-> Nothing]
  /\ work = [a \in Admins |-> NoCall]
  /\ draft = [w \in Writers |-> NoDraft]
  /\ torn = {}

InFlight(a) == work[a].stage # "idle"

(* Whoever has read and not yet written now goes by something older.       *)
Committed(a) ==
  /\ work' = [b \in Admins |-> IF b = a THEN NoCall
                               ELSE [work[b] EXCEPT !.crossed = InFlight(b)]]
  /\ draft' = [w \in Writers |->
       [draft[w] EXCEPT !.crossed = draft[w].stage # "idle",
                        !.fresh = @ /\ item'["working"] = item["working"]]]

-----------------------------------------------------------------------------
(* Calls: the component is read.                                           *)

CreateComponent(c, n, fields) ==
  /\ component[c] = Unused /\ ~There(n) /\ KeysOf(fields) # {}
  /\ component' = [component EXCEPT ![c] = [live |-> TRUE, name |-> n, fields |-> fields]]
  /\ work' = [b \in Admins |-> [work[b] EXCEPT !.crossed = InFlight(b)]]
  /\ draft' = [w \in Writers |-> [draft[w] EXCEPT !.crossed = draft[w].stage # "idle"]]
  /\ UNCHANGED <<field, item, torn>>

Load(a, call) ==
  /\ work[a] = NoCall
  /\ work' = [work EXCEPT ![a] = [call EXCEPT !.stage = "read"]]
  /\ UNCHANGED <<component, field, item, draft, torn>>

LoadComponent(a, c, call) ==
  Live(c) /\ Load(a, [call EXCEPT !.id = c, !.name = component[c].name])

RenameComponent(a, c, n) ==
  /\ component[c].name # n
  /\ LoadComponent(a, c, [NoCall EXCEPT !.op = "rename", !.to = n])

DeleteComponent(a, c) == LoadComponent(a, c, [NoCall EXCEPT !.op = "delete"])

AddComponentField(a, c, k, kind) ==
  /\ component[c].fields[k] = "none"
  /\ LoadComponent(a, c, [NoCall EXCEPT !.op = "add_field", !.key = k, !.to = kind])

UpdateComponentField(a, c, k, kind) ==
  /\ component[c].fields[k] \notin {"none", kind}
  /\ LoadComponent(a, c, [NoCall EXCEPT !.op = "update_field", !.key = k, !.to = kind])

RenameComponentField(a, c, k, to) ==
  /\ component[c].fields[k] # "none" /\ component[c].fields[to] = "none"
  /\ LoadComponent(a, c, [NoCall EXCEPT !.op = "rename_field", !.key = k, !.to = to])

DeleteComponentField(a, c, k, force) ==
  /\ component[c].fields[k] # "none" /\ Cardinality(KeysOf(component[c].fields)) # 1
  /\ LoadComponent(a, c, [NoCall EXCEPT !.op = "delete_field", !.key = k, !.force = force])

(* The type's own calls resolve the components they name.                  *)
ResolveComponentRefs(f) ==
  \A u \in f.uses : IF f.kind = "zone" THEN There(u) ELSE Live(u)

AddField(a, f) ==
  /\ field.kind = NoField /\ ResolveComponentRefs(f)
  /\ Load(a, [NoCall EXCEPT !.op = "add", !.to = f.kind, !.uses = f.uses])

UpdateZone(a, ns) ==
  /\ field.kind = "zone" /\ ns # field.uses /\ ResolveComponentRefs(Zone(ns))
  /\ Load(a, [NoCall EXCEPT !.op = "update_zone", !.uses = ns])

-----------------------------------------------------------------------------
(* Calls: the referrers are listed and the entries asked.                  *)

(* ListComponentReferrers goes by the id, and by the name as it is now.    *)
Referrer(c) ==
  IF field.kind = "embed" /\ c \in field.uses THEN "embed"
  ELSE IF field.kind = "zone" /\ Live(c) /\ component[c].name \in field.uses THEN "zone"
  ELSE "none"

(* The items a call takes for those of its component, where ref is how the *)
(* field refers to it and name the name that was read.                     *)
ItsItem(i, ref, name) ==
  /\ i.held
  /\ CASE ref = "zone" -> i.tag = name [] ref = "embed" -> TRUE [] OTHER -> FALSE

(* Mutant: the copy that delivery serves is not counted.                   *)
CountWorkingEntries(ref, name) == {i \in {item["working"]} : ItsItem(i, ref, name)}

(* Both copies of an entry are asked.                                      *)
CountComponentEntries(ref, name) == {i \in {item[copy] : copy \in Copies} : ItsItem(i, ref, name)}

ItemLacks(i, k) == k \notin i.keys

CountEntriesWithZoneComponent(ns) == {copy \in Copies : item[copy].held /\ item[copy].tag \in ns}

(* Mutant: a sub-field is deleted without asking what holds it.            *)
RefusesRequired(c, ref) ==
  CASE c.op \in {"add_field", "update_field"} /\ c.to = "required" ->
         \E i \in CountComponentEntries(ref, c.name) : ItemLacks(i, c.key)
    [] c.op = "delete" -> ref # "none"
    [] c.op = "update_zone" -> CountEntriesWithZoneComponent(field.uses \ c.uses) # {}
    [] OTHER -> FALSE

(* What the guards of a call refuse.                                       *)
Refuses(c, ref) ==
  CASE c.op \in {"add_field", "update_field"} /\ c.to = "required" ->
         \E i \in CountComponentEntries(ref, c.name) : ItemLacks(i, c.key)
    [] c.op = "delete_field" /\ ~c.force ->
         \E i \in CountComponentEntries(ref, c.name) : ~ItemLacks(i, c.key)
    [] c.op = "delete" -> ref # "none"
    [] c.op = "update_zone" -> CountEntriesWithZoneComponent(field.uses \ c.uses) # {}
    [] OTHER -> FALSE

Refuse(a) ==
  /\ work' = [work EXCEPT ![a] = NoCall]
  /\ UNCHANGED <<component, field, item, draft, torn>>

Check(a) ==
  LET c == work[a]
      ref == IF c.id = NoComponent THEN "none" ELSE Referrer(c.id) IN
  /\ c.stage = "read"
  /\ IF Refuses(c, ref) THEN Refuse(a)
     ELSE /\ work' = [work EXCEPT ![a].stage = "checked", ![a].ref = ref]
          /\ UNCHANGED <<component, field, item, draft, torn>>

-----------------------------------------------------------------------------
(* Calls: the write, one transaction.                                      *)

Writing(a, op) == work[a].stage = "checked" /\ work[a].op = op

(* What an overtaken call has written is vouched for by nobody.            *)
Tear(a, parts) == torn' = torn \cup (IF work[a].crossed THEN parts ELSE {})

SetSubField(c, k, kind) == component' = [component EXCEPT ![c].fields[k] = kind]

InsertComponentField(a) ==
  LET c == work[a] IN
  /\ Writing(a, "add_field")
  /\ IF ~Live(c.id) \/ component[c.id].fields[c.key] # "none" THEN Refuse(a)
     ELSE /\ SetSubField(c.id, c.key, c.to)
          /\ UNCHANGED <<field, item>>
          /\ Committed(a) /\ Tear(a, Copies)

UpdateComponentFieldDefinition(a) ==
  LET c == work[a] IN
  /\ Writing(a, "update_field")
  /\ IF ~Live(c.id) \/ component[c.id].fields[c.key] = "none" THEN Refuse(a)
     ELSE /\ SetSubField(c.id, c.key, c.to)
          /\ UNCHANGED <<field, item>>
          /\ Committed(a) /\ Tear(a, Copies)

(* Mutant: the published copy keeps the old key.                           *)
RewriteWorkingItems(c, ks) ==
  item' = [item EXCEPT !["working"] =
             IF ItsItem(@, c.ref, c.name) /\ c.key \in @.keys
             THEN [@ EXCEPT !.keys = (@ \ {c.key}) \cup ks] ELSE @]

(* The items that hold the key, in every copy; ks is the new key, if any.  *)
RewriteComponentItems(c, ks) ==
  item' = [copy \in Copies |->
             IF ItsItem(item[copy], c.ref, c.name) /\ c.key \in item[copy].keys
             THEN [item[copy] EXCEPT !.keys = (@ \ {c.key}) \cup ks] ELSE item[copy]]

RenameComponentFieldRow(a) ==
  LET c == work[a] IN
  /\ Writing(a, "rename_field")
  /\ IF \/ ~Live(c.id) \/ component[c.id].fields[c.key] = "none"
        \/ component[c.id].fields[c.to] # "none"
     THEN Refuse(a)
     ELSE /\ component' = [component EXCEPT
               ![c.id].fields = [@ EXCEPT ![c.to] = component[c.id].fields[c.key],
                                          ![c.key] = "none"]]
          /\ RewriteComponentItems(c, {c.to})
          /\ UNCHANGED field
          /\ Committed(a) /\ Tear(a, Copies)

DeleteComponentFieldRow(a) ==
  LET c == work[a] IN
  /\ Writing(a, "delete_field")
  /\ IF ~Live(c.id) \/ component[c.id].fields[c.key] = "none" THEN Refuse(a)
     ELSE /\ SetSubField(c.id, c.key, "none")
          /\ RewriteComponentItems(c, {})
          /\ UNCHANGED field
          /\ Committed(a) /\ Tear(a, Copies)

(* Mutant: a name may be given twice.                                      *)
AnyName(c, n) == TRUE

NameFree(c, n) == Named(n) \ {c} = {}

(* A zone's items are retagged, and every list that names the component.   *)
RenameComponentRow(a) ==
  LET c == work[a] IN
  /\ Writing(a, "rename")
  /\ IF ~Live(c.id) \/ ~NameFree(c.id, c.to) THEN Refuse(a)
     ELSE /\ component' = [component EXCEPT ![c.id].name = c.to]
          /\ item' = [copy \in Copies |->
               IF c.ref = "zone" /\ ItsItem(item[copy], c.ref, c.name)
               THEN [item[copy] EXCEPT !.tag = c.to] ELSE item[copy]]
          /\ field' = IF field.kind = "zone" /\ c.name \in field.uses
                      THEN Zone((field.uses \ {c.name}) \cup {c.to}) ELSE field
          /\ Committed(a) /\ Tear(a, Copies \cup {"list"})

(* Mutant: the referrers read before are trusted.                          *)
ListedNowhere(c) == TRUE

UsedByNoZone(c) == field.kind = "zone" => component[c].name \notin field.uses

(* The transaction that deletes asks the zones again.  From here on it has *)
(* been overtaken if another call commits after this look.                 *)
AskZonesAgain(a) ==
  /\ Writing(a, "delete")
  /\ IF ~UsedByNoZone(work[a].id) THEN Refuse(a)
     ELSE /\ work' = [work EXCEPT ![a].stage = "asked", ![a].crossed = FALSE]
          /\ UNCHANGED <<component, field, item, draft, torn>>

(* Nothing keeps a zone from naming the component by now.  The foreign key *)
(* refuses while an embedding, or a sub-field added meanwhile, points at   *)
(* the row.                                                                *)
DeleteComponentRow(a) ==
  LET c == work[a] IN
  /\ c.stage = "asked"
  /\ \/ /\ c.crossed \/ ~Live(c.id) \/ Referrer(c.id) = "embed"
        /\ Refuse(a)
     \/ /\ Live(c.id) /\ Referrer(c.id) # "embed"
        /\ component' = [component EXCEPT ![c.id] = [Unused EXCEPT !.name = "gone"]]
        /\ UNCHANGED <<field, item>>
        /\ Committed(a) /\ Tear(a, Copies \cup {"list"})

(* The foreign key holds an embedding to a component that is there.        *)
InsertField(a) ==
  LET c == work[a] IN
  /\ Writing(a, "add")
  /\ IF field.kind # NoField \/ (c.to = "embed" /\ \E u \in c.uses : ~Live(u))
     THEN Refuse(a)
     ELSE /\ field' = [kind |-> c.to, uses |-> c.uses]
          /\ UNCHANGED <<component, item>>
          /\ Committed(a) /\ Tear(a, {"list"})

UpdateFieldDefinition(a) ==
  LET c == work[a] IN
  /\ Writing(a, "update_zone")
  /\ field' = Zone(c.uses)
  /\ UNCHANGED <<component, item>>
  /\ Committed(a) /\ Tear(a, Copies \cup {"list"})

Write(a) ==
  \/ InsertComponentField(a) \/ UpdateComponentFieldDefinition(a)
  \/ RenameComponentFieldRow(a) \/ DeleteComponentFieldRow(a)
  \/ RenameComponentRow(a) \/ AskZonesAgain(a) \/ DeleteComponentRow(a)
  \/ InsertField(a) \/ UpdateFieldDefinition(a)

ComponentCall(a) ==
  \/ \E c \in Components :
       \/ \E n \in Names : RenameComponent(a, c, n)
       \/ DeleteComponent(a, c)
       \/ \E k \in SubKeys :
            \/ \E kind \in {"optional", "required"} :
                 AddComponentField(a, c, k, kind) \/ UpdateComponentField(a, c, k, kind)
            \/ \E to \in SubKeys : RenameComponentField(a, c, k, to)
            \/ \E force \in BOOLEAN : DeleteComponentField(a, c, k, force)
       \/ AddField(a, Embed(c))
  \/ \E ns \in SUBSET Names \ {{}} : AddField(a, Zone(ns)) \/ UpdateZone(a, ns)
  \/ Check(a)
  \/ Write(a)

-----------------------------------------------------------------------------
(* Writers of the entry, with the components' sub-fields as they read them.*)

OnlyDraft(w, d) ==
  /\ draft' = [draft EXCEPT ![w] = d]
  /\ UNCHANGED <<component, field, item, work, torn>>

ReadType(w, i) ==
  /\ draft[w] = NoDraft /\ field.kind # NoField /\ Valid(i)
  /\ OnlyDraft(w, [NoDraft EXCEPT !.stage = "valid", !.item = i])

ReadEntry(w) ==
  /\ draft[w].stage = "valid"
  /\ OnlyDraft(w, [draft[w] EXCEPT !.stage = "based"])

(* The entry's version has moved for everyone else who has read it.        *)
Outdate(w) ==
  draft' = [v \in Writers |-> IF v = w THEN NoDraft
                              ELSE [draft[v] EXCEPT !.fresh = draft[v].stage # "based"]]

WriteEntry(w) ==
  /\ draft[w].stage = "based"
  /\ IF ~draft[w].fresh THEN OnlyDraft(w, NoDraft)
     ELSE /\ item' = [item EXCEPT !["working"] = draft[w].item]
          /\ torn' = IF draft[w].crossed \/ \E a \in Admins : InFlight(a)
                     THEN torn \cup {"working"} ELSE torn \ {"working"}
          /\ Outdate(w)
          /\ UNCHANGED <<component, field, work>>

(* A release takes the working copy as it stands.                          *)
Publish(w) ==
  /\ draft[w] = NoDraft
  /\ item' = [item EXCEPT !["live"] = item["working"]]
  /\ torn' = IF "working" \in torn \/ \E a \in Admins : InFlight(a)
             THEN torn \cup {"live"} ELSE torn \ {"live"}
  /\ Outdate(w)
  /\ UNCHANGED <<component, field, work>>

Unpublish(w) ==
  /\ draft[w] = NoDraft
  /\ item' = [item EXCEPT !["live"] = Nothing]
  /\ Outdate(w)
  /\ UNCHANGED <<component, field, work, torn>>

Tags == Names \cup {NoItem}
Items == {Nothing} \cup {Item(t, ks) : t \in Tags, ks \in SUBSET SubKeys}

WriterStep(w) ==
  \/ \E i \in Items : ReadType(w, i)
  \/ ReadEntry(w)
  \/ WriteEntry(w)
  \/ Publish(w)
  \/ Unpublish(w)

Create ==
  \E c \in Components, n \in Names, fields \in Shapes : CreateComponent(c, n, fields)

ComponentNext ==
  \/ Create
  \/ \E a \in Admins : ComponentCall(a)
  \/ \E w \in Writers : WriterStep(w)

ComponentSpec == ComponentInit /\ [][ComponentNext]_componentVars

-----------------------------------------------------------------------------
Ops == {"none", "rename", "delete", "add_field", "update_field", "rename_field",
        "delete_field", "add", "update_zone"}

(* Type invariant of the components, their users and the calls; a name is  *)
(* one component's.                                                        *)
ComponentTypeOK ==
  /\ component \in [Components -> [live : BOOLEAN, name : Names \cup {"", "gone"},
                                   fields : SubFields]]
  /\ \A n \in Names : Cardinality(Named(n)) <= 1
  /\ field.kind \in FieldKinds \cup {NoField}
  /\ \A copy \in Copies : item[copy] \in Items
  /\ \A a \in Admins : work[a].op \in Ops /\ work[a].stage \in {"idle", "read", "checked", "asked"}
  /\ \A w \in Writers : draft[w].item \in Items
  /\ torn \subseteq Copies \cup {"list"}

(* A zone names a component that is not there only if the call that wrote  *)
(* the list, or renamed the component, was overtaken by another, or the    *)
(* list was written between the deletion's second look at the zones and    *)
(* its DELETE: a zone written before that look refuses the deletion.       *)
ZonesNameComponents ==
  "list" \notin torn => CASE field.kind = "zone"  -> \A n \in field.uses : There(n)
                          [] field.kind = "embed" -> \A c \in field.uses : Live(c)
                          [] OTHER -> TRUE

(* Every stored item fits the component it belongs to, in both copies,     *)
(* unless it was written beside a call or the call itself was overtaken.   *)
ItemsFit ==
  "list" \notin torn => \A copy \in Copies \ torn : Valid(item[copy])

(* A call that is not overtaken takes no value from an entry that was      *)
(* written alone, unless it was told to: renames move values, and a        *)
(* deletion refuses while a copy holds any.                                *)
NoValueLost ==
  [][\A a \in Admins :
       /\ work[a].stage \in {"checked", "asked"} /\ work'[a].stage = "idle"
       /\ ~work[a].crossed /\ ~work[a].force
       => \A copy \in Copies \ torn :
            Cardinality(item'[copy].keys) >= Cardinality(item[copy].keys)]_componentVars

(* The items stored inside entries fit the component they name, and the zones
   name components, wherever a guard vouched for both (component.go
   UpdateComponentField, DeleteComponent). *)
ComponentsSound == ComponentTypeOK /\ ItemsFit /\ ZonesNameComponents

=============================================================================
