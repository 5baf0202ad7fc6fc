---------------------------- MODULE SchemaProofs ----------------------------
(***************************************************************************)
(* Proofs about the two ways to change a schema: SchemaChange for every    *)
(* number of keys, entries, calls and writers, and SchemaProposals for     *)
(* every set of artifacts, proposals and reviewers.                        *)
(***************************************************************************)
EXTENDS SchemaChange, SchemaProposals, FiniteSetTheorems, TLAPS

-----------------------------------------------------------------------------
(* Calls on the definition of one type.                                    *)

Calls == [op : Ops, stage : Stages, key : Keys \cup {""}, to : Keys \cup {""}, force : BOOLEAN,
          old : Field \cup {NoField}, next : Field \cup {NoField}, crossed : BOOLEAN]
Edits == [stage : {"idle", "typed", "valid"}, entry : Entries \cup {Nobody}, seen : Definitions,
          base : 0..MaxVersion, doc : Docs, crossed : BOOLEAN]
Stored == [life : {"unborn", "live", "gone"}, ver : 0..MaxVersion,
           working : Docs, live : Docs, published : BOOLEAN]

(* The two copies a guard still vouches for.                               *)
VouchedWorking(e) == Exists(e) /\ e \notin unvouched.working
VouchedLive(e)    == Exists(e) /\ entry[e].published /\ e \notin unvouched.live

(* What a call carries from its first step to its last.                    *)
CallOk(c) ==
  /\ c.stage = "idle" => c = IdleCall
  /\ c.op = "none" => c.stage = "idle"
  /\ c.stage # "idle" /\ c.op # "drop" => c.key \in Keys
  /\ c.op \in {"add", "update"} => c.next \in Field
  /\ c.op = "update" => c.old \in Field /\ (~c.crossed => c.old = def[c.key])
  /\ c.op = "rename" => c.to \in Keys \ {c.key}

(* While a PATCH is under way every vouched copy goes with the field it    *)
(* read, and once it has counted with the field it will write.             *)
Bears(f, v) == FitsField(f, v) /\ (f.required => v # "absent")
PatchOk(c) ==
  c.op = "update" =>
    \A e \in Entries :
      /\ VouchedWorking(e) => /\ Bears(c.old, entry[e].working[c.key])
                              /\ c.stage = "checked" => Bears(c.next, entry[e].working[c.key])
      /\ VouchedLive(e) => /\ FitsField(c.old, entry[e].live[c.key])
                           /\ c.stage = "checked" => FitsField(c.next, entry[e].live[c.key])

(* A counted deletion of the type leaves no vouched entry behind.          *)
DropOk(c) == c.op = "drop" /\ c.stage = "checked" => \A e \in Entries : ~VouchedWorking(e)

CallInv == \A a \in Admins : CallOk(call[a]) /\ PatchOk(call[a]) /\ DropOk(call[a])

(* What a writer no schema change has overtaken holds fits the type.       *)
EditOk(x) ==
  /\ x.stage = "idle" => x = IdleEdit
  /\ ~x.crossed /\ x.stage = "typed" => x.seen = def
  /\ x.stage = "valid" => x.entry \in Entries /\ (~x.crossed => Valid(def, x.doc))

EditInv == \A w \in Writers : EditOk(edit[w])

LifeInv == \A e \in Entries : /\ entry[e].life = "unborn" => ~entry[e].published
                              /\ dropped => ~Exists(e)

LiveFits(d, doc) == \A k \in Keys : IF d[k] = NoField THEN doc[k] = "absent"
                                    ELSE FitsField(d[k], doc[k])
FitInv ==
  \A e \in Entries : /\ VouchedWorking(e) => Valid(def, entry[e].working)
                     /\ VouchedLive(e) => LiveFits(def, entry[e].live)

CallsInv == SchemaTypeOK /\ CallInv /\ EditInv /\ LifeInv /\ FitInv

-----------------------------------------------------------------------------
LEMMA SchemaForm ==
  SchemaTypeOK <=>
    /\ def \in Definitions /\ dropped \in BOOLEAN /\ entry \in [Entries -> Stored]
    /\ call \in [Admins -> Calls] /\ edit \in [Writers -> Edits]
    /\ unvouched \in [working : SUBSET Entries, live : SUBSET Entries]
BY DEF SchemaTypeOK, Calls, Edits, Stored

LEMMA IdleForm ==
  /\ IdleCall \in Calls /\ IdleCall.stage = "idle" /\ IdleCall.op = "none" /\ CallOk(IdleCall)
  /\ PatchOk(IdleCall) /\ DropOk(IdleCall)
  /\ IdleEdit \in Edits /\ IdleEdit.stage = "idle" /\ EditOk(IdleEdit)
<1>1. 0 \in 0..MaxVersion
  <2>1. MaxVersion \in Nat
    BY SchemaAssumption
  <2> QED BY <2>1
<1>2. Blank \in Docs /\ [k \in Keys |-> NoField] \in Definitions
  BY DEF Blank, Docs, Values, Definitions
<1> QED BY <1>1, <1>2 DEF IdleCall, IdleEdit, Calls, Edits, Ops, Stages, CallOk, PatchOk, DropOk, EditOk

(* The copies that were vouched for and still are did not change.          *)
Stable ==
  \A e \in Entries : /\ VouchedWorking(e)' => VouchedWorking(e) /\ entry'[e].working = entry[e].working
                     /\ VouchedLive(e)' => VouchedLive(e) /\ entry'[e].live = entry[e].live

LEMMA PatchStays ==
  ASSUME NEW b, Stable, PatchOk(call[b]), DropOk(call[b]),
         call'[b].op = call[b].op, call'[b].stage = call[b].stage, call'[b].key = call[b].key,
         call'[b].old = call[b].old, call'[b].next = call[b].next
  PROVE  PatchOk(call[b])' /\ DropOk(call[b])'
<1>1. DropOk(call[b])'
  BY DEF Stable, DropOk
<1>2. PatchOk(call[b])'
  <2> SUFFICES ASSUME call[b].op = "update", NEW e \in Entries
               PROVE  /\ VouchedWorking(e)' =>
                           /\ Bears(call[b].old, entry'[e].working[call[b].key])
                           /\ call[b].stage = "checked" => Bears(call[b].next, entry'[e].working[call[b].key])
                      /\ VouchedLive(e)' =>
                           /\ FitsField(call[b].old, entry'[e].live[call[b].key])
                           /\ call[b].stage = "checked" => FitsField(call[b].next, entry'[e].live[call[b].key])
    BY DEF PatchOk, Bears, FitsField
  <2> QED BY DEF Stable, PatchOk
<1> QED BY <1>1, <1>2

(* One call moves and nothing else does.                                   *)
LEMMA CallMoves ==
  ASSUME CallsInv, NEW a \in Admins, NEW c \in Calls, call' = [call EXCEPT ![a] = c],
         UNCHANGED <<def, dropped, entry, edit, unvouched>>, CallOk(c), PatchOk(c), DropOk(c)
  PROVE  CallsInv'
<1>1. SchemaTypeOK'
  BY SchemaForm DEF CallsInv, SchemaTypeOK, Calls
<1>2. call'[a] = c /\ \A b \in Admins \ {a} : call'[b] = call[b]
  BY DEF CallsInv, SchemaTypeOK
<1>4. \A e \in Entries : VouchedWorking(e)' = VouchedWorking(e) /\ VouchedLive(e)' = VouchedLive(e)
  BY DEF VouchedWorking, VouchedLive, Exists
<1>5. ASSUME NEW b \in Admins PROVE CallOk(call[b])' /\ PatchOk(call[b])' /\ DropOk(call[b])'
  <2>1. CASE b = a
    BY <1>2, <1>4, <2>1 DEF CallOk, PatchOk, DropOk, Bears, FitsField
  <2>2. CASE b # a
    BY <1>2, <1>4, <2>2 DEF CallOk, PatchOk, DropOk, Bears, FitsField, CallsInv, CallInv
  <2> QED BY <2>1, <2>2
<1>6. EditInv' /\ LifeInv' /\ FitInv'
  BY <1>4 DEF CallsInv, EditInv, EditOk, LifeInv, FitInv, Exists, Valid, LiveFits, FitsField
<1> QED BY <1>1, <1>5, <1>6 DEF CallsInv, CallInv

-----------------------------------------------------------------------------
(* The first step of a call, its count, and its refusal.                   *)
LEMMA OpenStep ==
  ASSUME CallsInv, NEW a \in Admins, NEW c \in Calls, Open(a, c),
         CallOk(c), PatchOk(c), DropOk(c)
  PROVE  CallsInv'
BY CallMoves DEF Open

LEMMA RefuseStep ==
  ASSUME CallsInv, NEW a \in Admins, Refuse(a) PROVE CallsInv'
<1>1. IdleCall \in Calls /\ CallOk(IdleCall) /\ PatchOk(IdleCall) /\ DropOk(IdleCall)
  BY IdleForm
<1> QED BY <1>1, CallMoves DEF Refuse, Close

LEMMA AddStep ==
  ASSUME CallsInv, NEW a \in Admins, NEW k \in Keys, NEW f \in Fields, AddField(a, k, f)
  PROVE  CallsInv'
<1> DEFINE c == [IdleCall EXCEPT !.op = "add", !.stage = "checked", !.key = k, !.next = f]
<1>1. f \in Field
  BY SchemaAssumption
<1>2. c \in Calls
  BY <1>1, IdleForm DEF Calls, Ops, Stages
<1>3. CallOk(c) /\ PatchOk(c) /\ DropOk(c)
  BY <1>1 DEF IdleCall, CallOk, PatchOk, DropOk
<1> QED BY <1>2, <1>3, OpenStep DEF AddField

LEMMA UpdateStep ==
  ASSUME CallsInv, NEW a \in Admins, NEW k \in Keys, NEW f \in Fields, UpdateField(a, k, f)
  PROVE  CallsInv'
<1> DEFINE c == [IdleCall EXCEPT !.op = "update", !.stage = "read", !.key = k,
                                 !.old = def[k], !.next = f]
<1>1. f \in Field /\ def[k] \in Field
  BY SchemaAssumption DEF UpdateField, CallsInv, SchemaTypeOK, Definitions
<1>2. c \in Calls
  BY <1>1, IdleForm DEF Calls, Ops, Stages
<1>3. c.op = "update" /\ c.stage = "read" /\ c.key = k /\ c.old = def[k] /\ c.next = f
  BY DEF IdleCall
<1>4. Open(a, c) /\ def[k] # NoField
  BY DEF UpdateField
<1> HIDE DEF c
<1>5. CallOk(c) /\ DropOk(c)
  BY <1>1, <1>3 DEF CallOk, DropOk
<1>6. PatchOk(c)
  BY <1>1, <1>3, <1>4 DEF PatchOk, CallsInv, FitInv, Valid, LiveFits, Bears
<1> QED BY <1>2, <1>4, <1>5, <1>6, OpenStep

LEMMA RenameStep ==
  ASSUME CallsInv, NEW a \in Admins, NEW k \in Keys, NEW to \in Keys, RenameField(a, k, to)
  PROVE  CallsInv'
<1> DEFINE c == [IdleCall EXCEPT !.op = "rename", !.stage = "checked", !.key = k, !.to = to]
<1>1. c \in Calls
  BY IdleForm DEF Calls, Ops, Stages
<1>2. CallOk(c) /\ PatchOk(c) /\ DropOk(c)
  BY DEF IdleCall, CallOk, PatchOk, DropOk, RenameField
<1> QED BY <1>1, <1>2, OpenStep DEF RenameField

LEMMA DeleteStep ==
  ASSUME CallsInv, NEW a \in Admins, NEW k \in Keys, NEW force \in BOOLEAN, DeleteField(a, k, force)
  PROVE  CallsInv'
<1> DEFINE s == IF force THEN "checked" ELSE "read"
           c == [IdleCall EXCEPT !.op = "delete", !.key = k, !.force = force, !.stage = s]
<1>1. s \in {"checked", "read"}
  OBVIOUS
<1>2. Open(a, c)
  BY DEF DeleteField
<1> HIDE DEF s
<1>3. c \in Calls
  BY <1>1, IdleForm DEF Calls, Ops, Stages
<1>4. CallOk(c) /\ PatchOk(c) /\ DropOk(c)
  BY <1>1 DEF IdleCall, CallOk, PatchOk, DropOk
<1> QED BY <1>2, <1>3, <1>4, OpenStep

LEMMA DropTypeStep ==
  ASSUME CallsInv, NEW a \in Admins, DeleteContentType(a) PROVE CallsInv'
<1> DEFINE c == [IdleCall EXCEPT !.op = "drop", !.stage = "read"]
<1>1. c \in Calls
  BY IdleForm DEF Calls, Ops, Stages
<1>2. CallOk(c) /\ PatchOk(c) /\ DropOk(c)
  BY DEF IdleCall, CallOk, PatchOk, DropOk
<1> QED BY <1>1, <1>2, OpenStep DEF DeleteContentType

LEMMA CheckStep ==
  ASSUME CallsInv, NEW a \in Admins, Check(a) PROVE CallsInv'
<1> DEFINE b == call[a]
           c == [b EXCEPT !.stage = "checked"]
<1>1. b \in Calls /\ b.stage = "read" /\ CallOk(b) /\ PatchOk(b)
  BY SchemaForm DEF CallsInv, CallInv, Check
<1>2. CASE Blocking(b) # {}
  BY <1>2, RefuseStep DEF Check
<1>3. CASE Blocking(b) = {}
  <2>1. call' = [call EXCEPT ![a] = c] /\ UNCHANGED <<def, dropped, entry, edit, unvouched>>
    BY <1>3, SchemaForm DEF Check, CallsInv
  <2>2. c \in Calls /\ c.stage = "checked" /\ c.op = b.op /\ c.key = b.key /\ c.to = b.to
        /\ c.old = b.old /\ c.next = b.next /\ c.crossed = b.crossed
    BY <1>1 DEF Calls, Stages
  <2> HIDE DEF c, b
  <2>3. CallOk(c)
    BY <1>1, <2>2 DEF CallOk
  <2>4. DropOk(c)
    BY <1>3, <2>2 DEF DropOk, Blocking, CountEntriesForType, VouchedWorking
  <2>5. PatchOk(c)
    <3> SUFFICES ASSUME c.op = "update", NEW e \in Entries
                 PROVE  /\ VouchedWorking(e) => /\ Bears(c.old, entry[e].working[c.key])
                                                /\ Bears(c.next, entry[e].working[c.key])
                        /\ VouchedLive(e) => /\ FitsField(c.old, entry[e].live[c.key])
                                             /\ FitsField(c.next, entry[e].live[c.key])
      BY <2>2 DEF PatchOk
    <3>1. b.old \in Field /\ b.next \in Field /\ b.key \in Keys
      BY <1>1, <2>2 DEF CallOk
    <3>2. /\ b.next.required /\ ~b.old.required => CountEntriesMissingField(b.key) = {}
          /\ b.next.strict /\ ~b.old.strict => CountConstraintViolations(b.key, b.next) = {}
      BY <1>3, <2>2 DEF Blocking
    <3>3. ASSUME Exists(e) PROVE entry[e].working \in Copies(e) /\ (entry[e].published => entry[e].live \in Copies(e))
      BY DEF Copies
    <3>4. ASSUME VouchedWorking(e) PROVE Bears(c.old, entry[e].working[c.key])
      BY <1>1, <2>2, <3>4 DEF PatchOk
    <3>5. ASSUME VouchedWorking(e) PROVE Bears(c.next, entry[e].working[c.key])
      <4>1. c.next.required => entry[e].working[c.key] # "absent"
        BY <2>2, <3>1, <3>2, <3>4, <3>5 DEF CountEntriesMissingField, Bears, VouchedWorking, Field
      <4>2. FitsField(c.next, entry[e].working[c.key])
        BY <2>2, <3>1, <3>2, <3>3, <3>4, <3>5 DEF CountConstraintViolations, Bears, FitsField,
           VouchedWorking, Field
      <4> QED BY <4>1, <4>2 DEF Bears
    <3>6. ASSUME VouchedLive(e) PROVE FitsField(c.old, entry[e].live[c.key])
      BY <1>1, <2>2, <3>6 DEF PatchOk
    <3>7. ASSUME VouchedLive(e) PROVE FitsField(c.next, entry[e].live[c.key])
      BY <2>2, <3>1, <3>2, <3>3, <3>6, <3>7 DEF CountConstraintViolations, FitsField, VouchedLive, Field
    <3> QED BY <3>4, <3>5, <3>6, <3>7
  <2> QED BY <2>1, <2>2, <2>3, <2>4, <2>5, CallMoves
<1> QED BY <1>2, <1>3

-----------------------------------------------------------------------------
(* A schema call commits: whoever is under way is marked.                  *)
LEMMA Unmarked ==
  /\ \A c \in Calls : c.crossed = FALSE => [c EXCEPT !.crossed = FALSE] = c
  /\ \A x \in Edits : x.crossed = FALSE => [x EXCEPT !.crossed = FALSE] = x
  /\ IdleCall.crossed = FALSE /\ IdleEdit.crossed = FALSE
BY DEF Calls, Edits, IdleCall, IdleEdit

LEMMA CommitForm ==
  ASSUME CallsInv, NEW a \in Admins, Committed(a)
  PROVE  /\ call' \in [Admins -> Calls] /\ call'[a] = IdleCall /\ edit' \in [Writers -> Edits]
         /\ \A b \in Admins \ {a} :
              /\ call'[b].op = call[b].op /\ call'[b].stage = call[b].stage /\ call'[b].key = call[b].key
              /\ call'[b].to = call[b].to /\ call'[b].old = call[b].old /\ call'[b].next = call[b].next
              /\ call'[b].crossed = InFlight(b) /\ (~InFlight(b) => call'[b] = IdleCall)
         /\ EditInv'
<1>1. call \in [Admins -> Calls] /\ edit \in [Writers -> Edits]
  BY SchemaForm DEF CallsInv
<1>2. call'[a] = IdleCall /\ \A b \in Admins \ {a} : call'[b] = [call[b] EXCEPT !.crossed = InFlight(b)]
  BY DEF Committed
<1>3. ASSUME NEW b \in Admins \ {a}
      PROVE  /\ call'[b] \in Calls
             /\ call'[b].op = call[b].op /\ call'[b].stage = call[b].stage /\ call'[b].key = call[b].key
             /\ call'[b].to = call[b].to /\ call'[b].old = call[b].old /\ call'[b].next = call[b].next
             /\ call'[b].crossed = InFlight(b) /\ (~InFlight(b) => call'[b] = IdleCall)
  <2>1. call[b] \in Calls
    BY <1>1
  <2>2. InFlight(b) \in BOOLEAN
    BY DEF InFlight
  <2>3. call'[b] = [call[b] EXCEPT !.crossed = InFlight(b)]
    BY <1>2
  <2> HIDE DEF InFlight
  <2>4. call'[b] \in Calls
    BY <2>1, <2>2, <2>3 DEF Calls
  <2>5. ~InFlight(b) => call[b] = IdleCall
    BY DEF CallsInv, CallInv, CallOk, InFlight
  <2>6. ~InFlight(b) => InFlight(b) = FALSE
    BY <2>2
  <2>7. ~InFlight(b) => call'[b] = IdleCall
    BY <2>1, <2>3, <2>5, <2>6, Unmarked
  <2> QED BY <2>1, <2>3, <2>4, <2>7 DEF Calls
<1>4. call' \in [Admins -> Calls]
  BY <1>2, <1>3, IdleForm DEF Committed
<1>5. ASSUME NEW w \in Writers PROVE edit'[w] \in Edits /\ EditOk(edit[w])'
  <2> DEFINE open == edit[w].stage # "idle"
  <2>1. edit[w] \in Edits /\ EditOk(edit[w]) /\ edit'[w] = [edit[w] EXCEPT !.crossed = open]
    BY <1>1 DEF CallsInv, EditInv, Committed
  <2>2. open \in BOOLEAN
    OBVIOUS
  <2>3. edit'[w] \in Edits
    BY <2>1, <2>2 DEF Edits
  <2>4. CASE open
    BY <2>1, <2>4 DEF EditOk, Edits
  <2>5. CASE ~open
    <3>1. edit[w] = IdleEdit /\ open = FALSE
      BY <2>1, <2>5 DEF EditOk
    <3> HIDE DEF open
    <3>2. edit'[w] = IdleEdit
      BY <2>1, <3>1, Unmarked
    <3> QED BY <2>3, <3>2 DEF EditOk, IdleEdit
  <2> QED BY <2>3, <2>4, <2>5
<1>6. edit' \in [Writers -> Edits]
  BY <1>5 DEF Committed
<1> QED BY <1>2, <1>3, <1>4, <1>5, <1>6 DEF EditInv

LEMMA CommitKeeps ==
  ASSUME CallsInv, NEW a \in Admins, Committed(a), Stable \/ ~Others(a),
         def' \in Definitions, dropped' \in BOOLEAN, entry' \in [Entries -> Stored],
         unvouched' \in [working : SUBSET Entries, live : SUBSET Entries], LifeInv', FitInv'
  PROVE  CallsInv'
<1>1. SchemaTypeOK'
  BY CommitForm DEF SchemaTypeOK, Calls, Edits, Stored
<1>2. ASSUME NEW b \in Admins PROVE CallOk(call[b])' /\ PatchOk(call[b])' /\ DropOk(call[b])'
  <2>1. CASE call'[b] = IdleCall
    BY <2>1, IdleForm DEF CallOk, PatchOk, DropOk, IdleCall
  <2>2. CASE call'[b] # IdleCall
    <3>1. b # a /\ InFlight(b) /\ Stable
      BY <2>2, CommitForm DEF Others
    <3>2. CallOk(call[b]) /\ PatchOk(call[b]) /\ DropOk(call[b])
      BY DEF CallsInv, CallInv
    <3>3. /\ call'[b].op = call[b].op /\ call'[b].stage = call[b].stage /\ call'[b].key = call[b].key
          /\ call'[b].to = call[b].to /\ call'[b].old = call[b].old /\ call'[b].next = call[b].next
          /\ call'[b].crossed = InFlight(b) /\ call[b].stage # "idle"
      BY <3>1, CommitForm DEF InFlight
    <3>4. CallOk(call[b])'
      BY <3>1, <3>2, <3>3 DEF CallOk
    <3>5. PatchOk(call[b])' /\ DropOk(call[b])'
      BY <3>1, <3>2, <3>3, PatchStays
    <3> QED BY <3>4, <3>5
  <2> QED BY <2>1, <2>2
<1> QED BY <1>1, <1>2, CommitForm DEF CallsInv, CallInv

(* A field is added: no vouched copy has its key.                          *)
LEMMA InsertStep ==
  ASSUME CallsInv, NEW a \in Admins, InsertField(a) PROVE CallsInv'
<1> DEFINE k == call[a].key
           f == call[a].next
           lost == IF f.required THEN CountEntriesForType ELSE {}
<1>1. CASE Refuse(a)
  BY <1>1, RefuseStep
<1>2. CASE ~dropped /\ def[k] = NoField /\ def' = [def EXCEPT ![k] = f] /\ Committed(a)
           /\ Vouched(lost, {}) /\ UNCHANGED <<dropped, entry>> /\ call[a].op = "add"
           /\ call[a].stage = "checked"
  <2>1. k \in Keys /\ f \in Field /\ f # NoField
    BY <1>2, SchemaAssumption DEF CallsInv, CallInv, CallOk
  <2>2. def \in Definitions /\ entry \in [Entries -> Stored] /\ dropped \in BOOLEAN
        /\ unvouched \in [working : SUBSET Entries, live : SUBSET Entries]
    BY SchemaForm DEF CallsInv
  <2>3. lost \in SUBSET Entries /\ (f.required => lost = CountEntriesForType)
    BY DEF CountEntriesForType
  <2> HIDE DEF k, f, lost
  <2>4. def' \in Definitions /\ def'[k] = f /\ \A j \in Keys \ {k} : def'[j] = def[j]
    BY <1>2, <2>1, <2>2 DEF Definitions
  <2>5. unvouched' \in [working : SUBSET Entries, live : SUBSET Entries]
        /\ unvouched'.working = unvouched.working \cup lost /\ unvouched'.live = unvouched.live
    BY <1>2, <2>2, <2>3 DEF Vouched
  <2>6. Stable
    BY <1>2, <2>5 DEF Stable, VouchedWorking, VouchedLive, Exists
  <2>7. FitInv'
    <3> SUFFICES ASSUME NEW e \in Entries
                 PROVE  /\ VouchedWorking(e)' => Valid(def', entry[e].working)
                        /\ VouchedLive(e)' => LiveFits(def', entry[e].live)
      BY <1>2 DEF FitInv, Valid, LiveFits, FitsField
    <3>1. ASSUME VouchedWorking(e)' PROVE Valid(def', entry[e].working)
      <4>1. Valid(def, entry[e].working) /\ ~f.required
        BY <1>2, <2>3, <2>5, <2>6, <3>1 DEF CallsInv, FitInv, Stable, CountEntriesForType,
           VouchedWorking, Exists
      <4>2. entry[e].working[k] = "absent"
        BY <1>2, <2>1, <4>1 DEF Valid, k
      <4> QED BY <1>2, <2>1, <2>4, <4>1, <4>2 DEF Valid, FitsField
    <3>2. ASSUME VouchedLive(e)' PROVE LiveFits(def', entry[e].live)
      <4>1. LiveFits(def, entry[e].live)
        BY <2>6, <3>2 DEF CallsInv, FitInv, Stable
      <4>2. entry[e].live[k] = "absent"
        BY <1>2, <2>1, <4>1 DEF LiveFits, k
      <4> QED BY <1>2, <2>1, <2>4, <4>1, <4>2 DEF LiveFits, FitsField
    <3> QED BY <3>1, <3>2
  <2>8. LifeInv'
    BY <1>2 DEF CallsInv, LifeInv, Exists
  <2> QED BY <1>2, <2>2, <2>4, <2>5, <2>6, <2>7, <2>8, CommitKeeps
<1> QED BY <1>1, <1>2 DEF InsertField

(* A PATCH writes a field: its counts cover every vouched copy.            *)
LEMMA PatchStep ==
  ASSUME CallsInv, NEW a \in Admins, UpdateFieldDefinition(a) PROVE CallsInv'
<1> DEFINE k == call[a].key
           f == call[a].next
<1>1. CASE Refuse(a)
  BY <1>1, RefuseStep
<1>2. CASE ~dropped /\ def[k] # NoField /\ def' = [def EXCEPT ![k] = f] /\ Committed(a)
           /\ UNCHANGED <<dropped, entry, unvouched>> /\ call[a].op = "update" /\ call[a].stage = "checked"
  <2>1. k \in Keys /\ f \in Field /\ f # NoField
    BY <1>2, SchemaAssumption DEF CallsInv, CallInv, CallOk
  <2>2. def \in Definitions /\ entry \in [Entries -> Stored] /\ dropped \in BOOLEAN
        /\ unvouched \in [working : SUBSET Entries, live : SUBSET Entries]
    BY SchemaForm DEF CallsInv
  <2>3. def' \in Definitions /\ def'[k] = f /\ \A j \in Keys \ {k} : def'[j] = def[j]
    BY <1>2, <2>1, <2>2 DEF Definitions
  <2>4. Stable
    BY <1>2 DEF Stable, VouchedWorking, VouchedLive, Exists
  <2>5. \A e \in Entries : /\ VouchedWorking(e) => Bears(f, entry[e].working[k])
                           /\ VouchedLive(e) => FitsField(f, entry[e].live[k])
    BY <1>2 DEF CallsInv, CallInv, PatchOk
  <2> HIDE DEF k, f
  <2>6. FitInv'
    <3> SUFFICES ASSUME NEW e \in Entries
                 PROVE  /\ VouchedWorking(e)' => Valid(def', entry[e].working)
                        /\ VouchedLive(e)' => LiveFits(def', entry[e].live)
      BY <1>2 DEF FitInv, Valid, LiveFits, FitsField
    <3>1. ASSUME VouchedWorking(e)' PROVE Valid(def', entry[e].working)
      <4>1. Valid(def, entry[e].working) /\ Bears(f, entry[e].working[k])
        BY <2>4, <2>5, <3>1 DEF CallsInv, FitInv, Stable
      <4> QED BY <2>1, <2>3, <4>1 DEF Valid, Bears
    <3>2. ASSUME VouchedLive(e)' PROVE LiveFits(def', entry[e].live)
      <4>1. LiveFits(def, entry[e].live) /\ FitsField(f, entry[e].live[k])
        BY <2>4, <2>5, <3>2 DEF CallsInv, FitInv, Stable
      <4> QED BY <2>1, <2>3, <4>1 DEF LiveFits
    <3> QED BY <3>1, <3>2
  <2>7. LifeInv'
    BY <1>2 DEF CallsInv, LifeInv, Exists
  <2> QED BY <1>2, <2>2, <2>3, <2>4, <2>6, <2>7, CommitKeeps
<1> QED BY <1>1, <1>2 DEF UpdateFieldDefinition

-----------------------------------------------------------------------------
(* A bulk rewrite.                                                         *)
LEMMA MovedForm ==
  ASSUME NEW doc \in Docs, NEW k \in Keys, NEW to
  PROVE  /\ Moved(doc, k, to) \in Docs /\ Moved(doc, k, to)[k] = "absent"
         /\ \A j \in Keys \ {k} : Moved(doc, k, to)[j] =
              IF j = to /\ doc[k] # "absent" THEN doc[k] ELSE doc[j]
         /\ doc[k] = "absent" => Moved(doc, k, to) = doc
<1>1. "absent" \in Values
  BY DEF Values
<1> QED BY <1>1 DEF Moved, Docs

LEMMA RewriteForm ==
  ASSUME SchemaTypeOK, NEW k \in Keys, NEW to, RewriteEntries(k, to), RoomFor(k)
  PROVE  /\ entry' \in [Entries -> Stored]
         /\ \A e \in Entries : /\ entry'[e].life = entry[e].life
                               /\ entry'[e].published = entry[e].published
                               /\ e \notin CountEntriesWithField(k) => entry'[e] = entry[e]
                               /\ Exists(e) => /\ entry'[e].working = Moved(entry[e].working, k, to)
                                               /\ entry[e].published =>
                                                    entry'[e].live = Moved(entry[e].live, k, to)
<1>1. ASSUME NEW e \in Entries
      PROVE  /\ entry'[e] \in Stored
             /\ entry'[e].life = entry[e].life /\ entry'[e].published = entry[e].published
             /\ e \notin CountEntriesWithField(k) => entry'[e] = entry[e]
             /\ Exists(e) => /\ entry'[e].working = Moved(entry[e].working, k, to)
                             /\ entry[e].published => entry'[e].live = Moved(entry[e].live, k, to)
  <2> DEFINE r == entry[e]
             shelf == IF r.published THEN Moved(r.live, k, to) ELSE r.live
             next == IF r.working[k] # "absent" THEN r.ver + 1 ELSE r.ver
  <2>1. r \in Stored /\ r.working \in Docs /\ r.live \in Docs /\ r.ver \in 0..MaxVersion
    BY DEF SchemaTypeOK, Stored
  <2>2. Moved(r.working, k, to) \in Docs /\ Moved(r.live, k, to) \in Docs
    BY <2>1, MovedForm
  <2>3. CASE e \notin CountEntriesWithField(k)
    <3>1. entry'[e] = r
      BY <2>3 DEF RewriteEntries
    <3>2. ASSUME Exists(e) PROVE r.working[k] = "absent" /\ (r.published => r.live[k] = "absent")
      BY <2>3, <3>2 DEF CountEntriesWithField, Copies
    <3>3. r.working[k] = "absent" => Moved(r.working, k, to) = r.working
      BY <2>1, MovedForm
    <3>4. r.live[k] = "absent" => Moved(r.live, k, to) = r.live
      BY <2>1, MovedForm
    <3> QED BY <2>1, <3>1, <3>2, <3>3, <3>4
  <2>4. CASE e \in CountEntriesWithField(k)
    <3>1. entry'[e] = [r EXCEPT !.working = Moved(r.working, k, to), !.live = shelf, !.ver = next]
      BY <2>4 DEF RewriteEntries
    <3>2. next \in 0..MaxVersion
      <4>1. r.ver < MaxVersion /\ MaxVersion \in Nat
        BY <2>4, SchemaAssumption DEF RoomFor
      <4> QED BY <2>1, <4>1
    <3>3. shelf \in Docs /\ (r.published => shelf = Moved(r.live, k, to))
      BY <2>1, <2>2
    <3> HIDE DEF next, shelf
    <3> QED BY <2>1, <2>2, <2>4, <3>1, <3>2, <3>3 DEF Stored
  <2> QED BY <2>3, <2>4
<1>2. entry' \in [Entries -> Stored]
  BY <1>1 DEF RewriteEntries
<1> QED BY <1>1, <1>2

(* What it moved beside another call is no longer vouched for.             *)
LEMMA RewriteStable ==
  ASSUME CallsInv, NEW a \in Admins, call[a].key \in Keys, NEW to,
         RewriteEntries(call[a].key, to), RoomFor(call[a].key), VouchedRewrite(a)
  PROVE  /\ Stable \/ ~Others(a)
         /\ unvouched' \in [working : SUBSET Entries, live : SUBSET Entries]
         /\ \A e \in Entries : /\ VouchedWorking(e)' => VouchedWorking(e)
                               /\ VouchedLive(e)' => VouchedLive(e)
<1> DEFINE k == call[a].key
           held == IF Others(a) THEN CountEntriesWithField(k) ELSE {}
<1>1. unvouched \in [working : SUBSET Entries, live : SUBSET Entries]
  BY SchemaForm DEF CallsInv
<1>2. held \in SUBSET Entries /\ (Others(a) => held = CountEntriesWithField(k))
  BY DEF CountEntriesWithField
<1>3. unvouched' = [working |-> unvouched.working \cup held, live |-> unvouched.live \cup held]
  BY DEF VouchedRewrite, Vouched
<1> HIDE DEF held
<1>4. unvouched' \in [working : SUBSET Entries, live : SUBSET Entries]
      /\ unvouched'.working = unvouched.working \cup held /\ unvouched'.live = unvouched.live \cup held
  BY <1>1, <1>2, <1>3
<1>5. \A e \in Entries : /\ entry'[e].life = entry[e].life /\ entry'[e].published = entry[e].published
                         /\ e \notin CountEntriesWithField(k) => entry'[e] = entry[e]
  BY RewriteForm DEF CallsInv
<1> HIDE DEF k
<1>6. \A e \in Entries : /\ VouchedWorking(e)' => VouchedWorking(e)
                         /\ VouchedLive(e)' => VouchedLive(e)
  BY <1>4, <1>5 DEF VouchedWorking, VouchedLive, Exists
<1>7. Others(a) => Stable
  <2> SUFFICES ASSUME Others(a), NEW e \in Entries
               PROVE  /\ VouchedWorking(e)' => entry'[e].working = entry[e].working
                      /\ VouchedLive(e)' => entry'[e].live = entry[e].live
    BY <1>6 DEF Stable
  <2>1. VouchedWorking(e)' => e \notin CountEntriesWithField(k)
    BY <1>2, <1>4 DEF VouchedWorking
  <2>2. VouchedLive(e)' => e \notin CountEntriesWithField(k)
    BY <1>2, <1>4 DEF VouchedLive
  <2> QED BY <1>5, <2>1, <2>2
<1> QED BY <1>4, <1>6, <1>7

(* A field is renamed: the vouched copies have no value under its new key. *)
LEMMA RenameRowStep ==
  ASSUME CallsInv, NEW a \in Admins, RenameFieldRow(a) PROVE CallsInv'
<1> DEFINE k == call[a].key
           to == call[a].to
<1>1. CASE Refuse(a)
  BY <1>1, RefuseStep
<1>2. CASE /\ ~dropped /\ def[k] # NoField /\ def[to] = NoField /\ RoomFor(k) /\ RewriteEntries(k, to)
           /\ def' = [def EXCEPT ![to] = def[k], ![k] = NoField] /\ Committed(a) /\ VouchedRewrite(a)
           /\ UNCHANGED dropped /\ call[a].op = "rename" /\ call[a].stage = "checked"
  <2>1. k \in Keys /\ to \in Keys /\ to # k
    BY <1>2 DEF CallsInv, CallInv, CallOk
  <2>2. def \in Definitions /\ entry \in [Entries -> Stored] /\ dropped \in BOOLEAN
    BY SchemaForm DEF CallsInv
  <2>3. /\ entry' \in [Entries -> Stored]
        /\ \A e \in Entries : /\ entry'[e].life = entry[e].life
                              /\ entry'[e].published = entry[e].published
                              /\ Exists(e) => /\ entry'[e].working = Moved(entry[e].working, k, to)
                                              /\ entry[e].published =>
                                                   entry'[e].live = Moved(entry[e].live, k, to)
    BY <1>2, <2>1, RewriteForm DEF CallsInv
  <2>4. /\ Stable \/ ~Others(a)
        /\ unvouched' \in [working : SUBSET Entries, live : SUBSET Entries]
        /\ \A e \in Entries : /\ VouchedWorking(e)' => VouchedWorking(e)
                              /\ VouchedLive(e)' => VouchedLive(e)
    BY <1>2, <2>1, RewriteStable
  <2> HIDE DEF k, to
  <2>5. def' \in Definitions /\ def'[k] = NoField /\ def'[to] = def[k]
        /\ \A j \in Keys \ {k, to} : def'[j] = def[j]
    BY <1>2, <2>1, <2>2 DEF Definitions
  <2>6. FitInv'
    <3> SUFFICES ASSUME NEW e \in Entries
                 PROVE  /\ VouchedWorking(e)' => Valid(def', entry'[e].working)
                        /\ VouchedLive(e)' => LiveFits(def', entry'[e].live)
      BY DEF FitInv, Valid, LiveFits, FitsField
    <3>1. ASSUME VouchedWorking(e)' PROVE Valid(def', entry'[e].working)
      <4> DEFINE doc == entry[e].working
                 new == entry'[e].working
      <4>1. Valid(def, doc) /\ doc \in Docs /\ new = Moved(doc, k, to)
        BY <2>2, <2>3, <2>4, <3>1 DEF CallsInv, FitInv, Stored, VouchedWorking
      <4>2. new[k] = "absent" /\ \A j \in Keys \ {k} : new[j] = IF j = to /\ doc[k] # "absent" THEN doc[k] ELSE doc[j]
        BY <2>1, <4>1, MovedForm
      <4>3. doc[to] = "absent"
        BY <1>2, <2>1, <4>1 DEF Valid, to
      <4> HIDE DEF new, doc
      <4>4. FitsField(def[k], doc[k]) /\ (def[k].required => doc[k] # "absent")
        BY <1>2, <2>1, <4>1 DEF Valid, k
      <4>5. new[to] = doc[k]
        BY <2>1, <4>2, <4>3
      <4>6. ASSUME NEW j \in Keys
            PROVE  IF def'[j] = NoField THEN new[j] = "absent"
                   ELSE FitsField(def'[j], new[j]) /\ (def'[j].required => new[j] # "absent")
        <5>1. CASE j \in Keys \ {k, to}
          BY <2>5, <4>1, <4>2, <5>1 DEF Valid
        <5>2. CASE j = to
          BY <2>5, <4>4, <4>5, <5>2, <1>2 DEF k
        <5>3. CASE j = k
          BY <2>5, <4>2, <5>3
        <5> QED BY <5>1, <5>2, <5>3
      <4>7. Valid(def', new)
        BY <4>6 DEF Valid
      <4> QED BY <4>7 DEF new
    <3>2. ASSUME VouchedLive(e)' PROVE LiveFits(def', entry'[e].live)
      <4> DEFINE doc == entry[e].live
                 new == entry'[e].live
      <4>1. LiveFits(def, doc) /\ doc \in Docs /\ new = Moved(doc, k, to)
        BY <2>2, <2>3, <2>4, <3>2 DEF CallsInv, FitInv, Stored, VouchedLive
      <4>2. new[k] = "absent" /\ \A j \in Keys \ {k} : new[j] = IF j = to /\ doc[k] # "absent" THEN doc[k] ELSE doc[j]
        BY <2>1, <4>1, MovedForm
      <4>3. doc[to] = "absent"
        BY <1>2, <2>1, <4>1 DEF LiveFits, to
      <4> HIDE DEF new, doc
      <4>4. FitsField(def[k], doc[k])
        BY <1>2, <2>1, <4>1 DEF LiveFits, k
      <4>5. new[to] = doc[k]
        BY <2>1, <4>2, <4>3
      <4>6. ASSUME NEW j \in Keys
            PROVE  IF def'[j] = NoField THEN new[j] = "absent" ELSE FitsField(def'[j], new[j])
        <5>1. CASE j \in Keys \ {k, to}
          BY <2>5, <4>1, <4>2, <5>1 DEF LiveFits
        <5>2. CASE j = to
          BY <2>5, <4>4, <4>5, <5>2, <1>2 DEF k
        <5>3. CASE j = k
          BY <2>5, <4>2, <5>3
        <5> QED BY <5>1, <5>2, <5>3
      <4>7. LiveFits(def', new)
        BY <4>6 DEF LiveFits
      <4> QED BY <4>7 DEF new
    <3> QED BY <3>1, <3>2
  <2>7. LifeInv'
    BY <1>2, <2>3 DEF CallsInv, LifeInv, Exists
  <2> QED BY <1>2, <2>2, <2>3, <2>4, <2>5, <2>6, <2>7, CommitKeeps
<1> QED BY <1>1, <1>2 DEF RenameFieldRow

(* A field is deleted, and its key from every copy.                        *)
LEMMA DeleteRowStep ==
  ASSUME CallsInv, NEW a \in Admins, DeleteFieldRow(a) PROVE CallsInv'
<1> DEFINE k == call[a].key
<1>1. CASE Refuse(a)
  BY <1>1, RefuseStep
<1>2. CASE /\ ~dropped /\ def[k] # NoField /\ RoomFor(k) /\ RewriteEntries(k, "")
           /\ def' = [def EXCEPT ![k] = NoField] /\ Committed(a) /\ VouchedRewrite(a)
           /\ UNCHANGED dropped /\ call[a].op = "delete" /\ call[a].stage = "checked"
  <2>1. k \in Keys /\ "" \notin Keys
    BY <1>2, SchemaAssumption DEF CallsInv, CallInv, CallOk
  <2>2. def \in Definitions /\ entry \in [Entries -> Stored] /\ dropped \in BOOLEAN
    BY SchemaForm DEF CallsInv
  <2>3. /\ entry' \in [Entries -> Stored]
        /\ \A e \in Entries : /\ entry'[e].life = entry[e].life
                              /\ entry'[e].published = entry[e].published
                              /\ Exists(e) => /\ entry'[e].working = Moved(entry[e].working, k, "")
                                              /\ entry[e].published =>
                                                   entry'[e].live = Moved(entry[e].live, k, "")
    BY <1>2, <2>1, RewriteForm DEF CallsInv
  <2>4. /\ Stable \/ ~Others(a)
        /\ unvouched' \in [working : SUBSET Entries, live : SUBSET Entries]
        /\ \A e \in Entries : /\ VouchedWorking(e)' => VouchedWorking(e)
                              /\ VouchedLive(e)' => VouchedLive(e)
    BY <1>2, <2>1, RewriteStable
  <2> HIDE DEF k
  <2>5. def' \in Definitions /\ def'[k] = NoField /\ \A j \in Keys \ {k} : def'[j] = def[j]
    BY <1>2, <2>1, <2>2 DEF Definitions
  <2>6. ASSUME NEW doc \in Docs
        PROVE  /\ Valid(def, doc) => Valid(def', Moved(doc, k, ""))
               /\ LiveFits(def, doc) => LiveFits(def', Moved(doc, k, ""))
    <3>1. Moved(doc, k, "")[k] = "absent" /\ \A j \in Keys \ {k} : Moved(doc, k, "")[j] = doc[j]
      BY <2>1 DEF Moved
    <3> QED BY <2>5, <3>1 DEF Valid, LiveFits
  <2>7. FitInv'
    <3> SUFFICES ASSUME NEW e \in Entries
                 PROVE  /\ VouchedWorking(e)' => Valid(def', entry'[e].working)
                        /\ VouchedLive(e)' => LiveFits(def', entry'[e].live)
      BY DEF FitInv, Valid, LiveFits, FitsField
    <3>1. entry[e].working \in Docs /\ entry[e].live \in Docs
      BY <2>2 DEF Stored
    <3> QED BY <2>3, <2>4, <2>6, <3>1 DEF CallsInv, FitInv, VouchedWorking, VouchedLive
  <2>8. LifeInv'
    BY <1>2, <2>3 DEF CallsInv, LifeInv, Exists
  <2> QED BY <1>2, <2>2, <2>3, <2>4, <2>5, <2>7, <2>8, CommitKeeps
<1> QED BY <1>1, <1>2 DEF DeleteFieldRow

(* The type is deleted, and with it all there is.                          *)
LEMMA TypeRowStep ==
  ASSUME CallsInv, NEW a \in Admins, DeleteTypeRow(a) PROVE CallsInv'
<1>1. CASE Refuse(a)
  BY <1>1, RefuseStep
<1>2. CASE /\ dropped' = TRUE /\ Committed(a) /\ UNCHANGED <<def, unvouched>>
           /\ entry' = [e \in Entries |-> [Unborn EXCEPT !.life = IF Exists(e) THEN "gone" ELSE entry[e].life]]
  <2>1. def \in Definitions /\ entry \in [Entries -> Stored] /\ dropped \in BOOLEAN
        /\ unvouched \in [working : SUBSET Entries, live : SUBSET Entries]
    BY SchemaForm DEF CallsInv
  <2>2. Unborn \in Stored /\ Unborn.published = FALSE
    <3>1. 0 \in 0..MaxVersion
      <4>1. MaxVersion \in Nat
        BY SchemaAssumption
      <4> QED BY <4>1
    <3>2. Blank \in Docs
      BY DEF Blank, Docs, Values
    <3> QED BY <3>1, <3>2 DEF Unborn, Stored
  <2>3. ASSUME NEW e \in Entries
        PROVE  entry'[e] \in Stored /\ ~entry'[e].published /\ entry'[e].life # "live"
    <3> DEFINE l == IF Exists(e) THEN "gone" ELSE entry[e].life
    <3>1. l \in {"unborn", "gone"}
      BY <2>1 DEF Exists, Stored
    <3>2. entry'[e] = [Unborn EXCEPT !.life = l]
      BY <1>2
    <3> HIDE DEF l
    <3> QED BY <2>2, <3>1, <3>2 DEF Stored
  <2>4. entry' \in [Entries -> Stored]
    BY <1>2, <2>3
  <2>5. Stable /\ LifeInv' /\ FitInv'
    BY <2>3 DEF Stable, LifeInv, FitInv, VouchedWorking, VouchedLive, Exists
  <2> QED BY <1>2, <2>1, <2>4, <2>5, CommitKeeps
<1> QED BY <1>1, <1>2 DEF DeleteTypeRow
-----------------------------------------------------------------------------
(* Writers of entries: the definition and the calls stay as they are.      *)
LEMMA EditMoves ==
  ASSUME CallsInv, NEW w \in Writers, NEW x \in Edits, EditOk(x), edit' = [edit EXCEPT ![w] = x],
         UNCHANGED <<def, dropped, entry, call, unvouched>>
  PROVE  CallsInv'
<1>1. SchemaTypeOK'
  BY SchemaForm DEF CallsInv, SchemaTypeOK, Edits
<1>2. edit'[w] = x /\ \A v \in Writers \ {w} : edit'[v] = edit[v]
  BY DEF CallsInv, SchemaTypeOK
<1>3. ASSUME NEW v \in Writers PROVE EditOk(edit[v])'
  <2>1. CASE v = w
    BY <1>2, <2>1 DEF EditOk, Valid, FitsField
  <2>2. CASE v # w
    BY <1>2, <2>2 DEF EditOk, Valid, FitsField, CallsInv, EditInv
  <2> QED BY <2>1, <2>2
<1>4. \A e \in Entries : VouchedWorking(e)' = VouchedWorking(e) /\ VouchedLive(e)' = VouchedLive(e)
  BY DEF VouchedWorking, VouchedLive, Exists
<1>5. CallInv'
  BY <1>4 DEF CallsInv, CallInv, CallOk, PatchOk, DropOk, Bears, FitsField
<1>6. LifeInv' /\ FitInv'
  BY <1>4 DEF CallsInv, LifeInv, FitInv, Exists, Valid, LiveFits, FitsField
<1> QED BY <1>1, <1>3, <1>5, <1>6 DEF CallsInv, EditInv

LEMMA EntryMoves ==
  ASSUME CallsInv, UNCHANGED <<def, dropped, call>>, entry' \in [Entries -> Stored],
         edit' \in [Writers -> Edits], EditInv', LifeInv', FitInv',
         unvouched' \in [working : SUBSET Entries, live : SUBSET Entries],
         Stable \/ \A a \in Admins : ~InFlight(a)
  PROVE  CallsInv'
<1>1. SchemaTypeOK'
  BY SchemaForm DEF CallsInv, SchemaTypeOK, Calls, Edits, Stored
<1>2. ASSUME NEW b \in Admins PROVE CallOk(call[b])' /\ PatchOk(call[b])' /\ DropOk(call[b])'
  <2>1. CallOk(call[b]) /\ PatchOk(call[b]) /\ DropOk(call[b])
    BY DEF CallsInv, CallInv
  <2>2. CallOk(call[b])'
    BY <2>1 DEF CallOk
  <2>3. CASE ~InFlight(b)
    BY <2>1, <2>2, <2>3, IdleForm DEF InFlight, CallOk, PatchOk, DropOk, IdleCall
  <2>4. CASE Stable
    BY <2>1, <2>2, <2>4, PatchStays
  <2> QED BY <2>3, <2>4
<1> QED BY <1>1, <1>2 DEF CallsInv, CallInv

LEMMA GiveStep ==
  ASSUME CallsInv, NEW w \in Writers, Give(w) PROVE CallsInv'
BY IdleForm, EditMoves DEF Give, Drop

LEMMA ReadTypeStep ==
  ASSUME CallsInv, NEW w \in Writers, ReadType(w) PROVE CallsInv'
<1> DEFINE x == [IdleEdit EXCEPT !.stage = "typed", !.seen = def]
<1>1. edit[w] \in Edits /\ edit[w] = IdleEdit /\ edit' = [edit EXCEPT ![w] = x] /\ def \in Definitions
  BY SchemaForm DEF ReadType, CallsInv
<1>2. x \in Edits /\ x.stage = "typed" /\ x.seen = def
  BY <1>1, IdleForm DEF Edits
<1> HIDE DEF x
<1>3. EditOk(x)
  BY <1>2 DEF EditOk
<1> QED BY <1>1, <1>2, <1>3, EditMoves DEF ReadType

(* The document fits the definition that was read; it is the one in force  *)
(* unless a schema change came between.                                    *)
LEMMA ComposeEntryStep ==
  ASSUME CallsInv, NEW w \in Writers, NEW e \in Entries, NEW doc \in Docs, ComposeEntry(w, e, doc)
  PROVE  CallsInv'
<1> DEFINE x == [edit[w] EXCEPT !.stage = "valid", !.entry = e, !.doc = doc, !.seen = IdleEdit.seen]
<1>1. edit[w] \in Edits /\ edit \in [Writers -> Edits] /\ EditOk(edit[w])
  BY SchemaForm DEF CallsInv, EditInv
<1>2. edit' = [edit EXCEPT ![w] = x]
  BY <1>1 DEF ComposeEntry
<1>3. x \in Edits /\ x.stage = "valid" /\ x.entry = e /\ x.doc = doc /\ x.crossed = edit[w].crossed
  BY <1>1, IdleForm DEF Edits, IdleEdit
<1> HIDE DEF x
<1>4. EditOk(x)
  BY <1>1, <1>3 DEF EditOk, ComposeEntry
<1> QED BY <1>2, <1>3, <1>4, EditMoves DEF ComposeEntry

LEMMA ComposeUpdateStep ==
  ASSUME CallsInv, NEW w \in Writers, NEW e \in Entries, NEW k \in Keys, NEW v \in Values,
         ComposeUpdate(w, e, k, v)
  PROVE  CallsInv'
<1> DEFINE base == PruneUndefined(entry[e].working, edit[w].seen)
           doc == MergeEntryPayload(base, k, v)
           x == [edit[w] EXCEPT !.stage = "valid", !.entry = e, !.doc = doc,
                                !.base = entry[e].ver, !.seen = IdleEdit.seen]
<1>1. edit[w] \in Edits /\ edit \in [Writers -> Edits] /\ EditOk(edit[w])
      /\ entry[e].working \in Docs /\ entry[e].ver \in 0..MaxVersion
  BY SchemaForm DEF CallsInv, EditInv, Stored
<1>2. base \in Docs
  BY <1>1 DEF PruneUndefined, Docs, Values
<1> HIDE DEF base
<1>3. doc \in Docs
  BY <1>2 DEF MergeEntryPayload, Docs
<1>4. edit' = [edit EXCEPT ![w] = x] /\ Valid(edit[w].seen, doc) /\ edit[w].stage = "typed"
  BY <1>1 DEF ComposeUpdate, base
<1> HIDE DEF doc
<1>5. x \in Edits /\ x.stage = "valid" /\ x.entry = e /\ x.doc = doc /\ x.crossed = edit[w].crossed
  BY <1>1, <1>3, IdleForm DEF Edits, IdleEdit
<1> HIDE DEF x
<1>6. EditOk(x)
  BY <1>1, <1>4, <1>5 DEF EditOk
<1> QED BY <1>4, <1>5, <1>6, EditMoves DEF ComposeUpdate

(* One entry moves; what is no longer vouched for does not matter.         *)
LEMMA OneEntry ==
  ASSUME CallsInv, NEW e \in Entries, NEW r \in Stored, entry' = [entry EXCEPT ![e] = r]
  PROVE  /\ entry' \in [Entries -> Stored] /\ entry'[e] = r
         /\ \A f \in Entries \ {e} : entry'[f] = entry[f]
BY SchemaForm DEF CallsInv

LEMMA WriteEntryStep ==
  ASSUME CallsInv, NEW w \in Writers, WriteEntry(w) PROVE CallsInv'
<1> DEFINE e == edit[w].entry
           x == edit[w]
           r == [entry[e] EXCEPT !.life = "live", !.working = x.doc, !.ver = @ + 1]
           lost == IF Overlapped(w) THEN unvouched.working \cup {e} ELSE unvouched.working \ {e}
<1>1. CASE Give(w)
  BY <1>1, GiveStep
<1>2. CASE /\ x.stage = "valid" /\ ~dropped /\ entry[e].life # "gone" /\ entry[e].ver < MaxVersion
           /\ entry' = [entry EXCEPT ![e].life = "live", ![e].working = x.doc, ![e].ver = @ + 1]
           /\ unvouched' = [unvouched EXCEPT !.working = lost]
           /\ edit' = Drop(w) /\ UNCHANGED <<def, dropped, call>>
  <2>1. e \in Entries /\ (~x.crossed => Valid(def, x.doc)) /\ x.doc \in Docs /\ x.crossed \in BOOLEAN
    BY <1>2, SchemaForm DEF CallsInv, EditInv, EditOk, Edits
  <2>2. entry \in [Entries -> Stored] /\ dropped \in BOOLEAN /\ edit \in [Writers -> Edits]
        /\ unvouched \in [working : SUBSET Entries, live : SUBSET Entries]
    BY SchemaForm DEF CallsInv
  <2>3. lost \in SUBSET Entries /\ (Overlapped(w) => e \in lost)
        /\ \A f \in Entries \ {e} : f \in lost <=> f \in unvouched.working
    BY <2>1, <2>2
  <2>4. Overlapped(w) \/ (~x.crossed /\ \A a \in Admins : ~InFlight(a))
    BY <2>1 DEF Overlapped
  <2>5. entry[e].ver + 1 \in 0..MaxVersion
    <3>1. MaxVersion \in Nat /\ entry[e].ver \in 0..MaxVersion
      BY <2>1, <2>2, SchemaAssumption DEF Stored
    <3> QED BY <1>2, <3>1
  <2>6. r \in Stored /\ r.life = "live" /\ r.working = x.doc /\ r.live = entry[e].live
        /\ r.published = entry[e].published
    BY ZenonT(40), <2>1, <2>2, <2>5 DEF Stored
  <2>7. entry' = [entry EXCEPT ![e] = r]
    BY <1>2, <2>1, <2>2
  <2> HIDE DEF r, lost
  <2>8. /\ entry' \in [Entries -> Stored] /\ entry'[e] = r
        /\ \A f \in Entries \ {e} : entry'[f] = entry[f]
    BY <2>1, <2>6, <2>7, OneEntry
  <2>9. unvouched' \in [working : SUBSET Entries, live : SUBSET Entries]
        /\ unvouched'.working = lost /\ unvouched'.live = unvouched.live
    BY <1>2, <2>2, <2>3
  <2>10. entry[e].published => entry[e].life = "live"
    BY <1>2, <2>1, <2>2 DEF CallsInv, LifeInv, Stored
  <2> HIDE DEF e
  <2>11. \A f \in Entries \ {e} : VouchedWorking(f)' = VouchedWorking(f)
    BY <2>3, <2>8, <2>9 DEF VouchedWorking, Exists
  <2>12. \A f \in Entries : VouchedLive(f)' => VouchedLive(f) /\ entry'[f].live = entry[f].live
    BY <2>6, <2>8, <2>9, <2>10 DEF VouchedLive, Exists
  <2>13. Stable \/ \A a \in Admins : ~InFlight(a)
    <3>1. CASE Overlapped(w)
      BY <2>3, <2>8, <2>9, <2>11, <2>12, <3>1 DEF Stable, VouchedWorking
    <3> QED BY <2>4, <3>1
  <2>14. LifeInv'
    BY <1>2, <2>6, <2>8 DEF CallsInv, LifeInv, Exists
  <2>15. FitInv'
    <3> SUFFICES ASSUME NEW f \in Entries
                 PROVE  /\ VouchedWorking(f)' => Valid(def, entry'[f].working)
                        /\ VouchedLive(f)' => LiveFits(def, entry'[f].live)
      BY <1>2 DEF FitInv, Valid, LiveFits, FitsField
    <3>1. VouchedLive(f)' => LiveFits(def, entry'[f].live)
      BY <2>12 DEF CallsInv, FitInv
    <3>2. CASE f = e
      <4>1. VouchedWorking(f)' => ~Overlapped(w)
        BY <2>3, <2>9, <3>2 DEF VouchedWorking
      <4> QED BY <2>1, <2>4, <2>6, <2>8, <3>1, <3>2, <4>1
    <3>3. CASE f # e
      BY <2>8, <2>11, <3>1, <3>3 DEF CallsInv, FitInv
    <3> QED BY <3>2, <3>3
  <2>16. edit' \in [Writers -> Edits] /\ EditInv'
    <3>1. edit' \in [Writers -> Edits] /\ edit'[w] = IdleEdit /\ \A v \in Writers \ {w} : edit'[v] = edit[v]
      BY <1>2, <2>2, IdleForm DEF Drop
    <3>2. ASSUME NEW v \in Writers PROVE EditOk(edit[v])'
      <4>1. CASE v = w
        BY <3>1, <4>1, IdleForm DEF EditOk, IdleEdit
      <4>2. CASE v # w
        BY <1>2, <3>1, <4>2 DEF EditOk, Valid, FitsField, CallsInv, EditInv
      <4> QED BY <4>1, <4>2
    <3> QED BY <3>1, <3>2 DEF EditInv
  <2> QED BY <1>2, <2>8, <2>9, <2>13, <2>14, <2>15, <2>16, EntryMoves
<1> QED BY <1>1, <1>2 DEF WriteEntry
LEMMA PublishStep ==
  ASSUME CallsInv, NEW e \in Entries, Publish(e) PROVE CallsInv'
<1> DEFINE r == [entry[e] EXCEPT !.published = TRUE, !.live = entry[e].working, !.ver = @ + 1]
           beside == e \in unvouched.working \/ \E a \in Admins : InFlight(a)
           lost == IF beside THEN unvouched.live \cup {e} ELSE unvouched.live \ {e}
<1>1. entry \in [Entries -> Stored] /\ entry[e] \in Stored /\ dropped \in BOOLEAN
      /\ unvouched \in [working : SUBSET Entries, live : SUBSET Entries]
  BY SchemaForm DEF CallsInv
<1>2. lost \in SUBSET Entries /\ (beside => e \in lost)
      /\ \A f \in Entries \ {e} : f \in lost <=> f \in unvouched.live
  BY <1>1
<1>3. entry[e].ver + 1 \in 0..MaxVersion
  <2>1. MaxVersion \in Nat /\ entry[e].ver \in 0..MaxVersion /\ entry[e].ver < MaxVersion
    BY <1>1, SchemaAssumption DEF Stored, Publish
  <2> QED BY <2>1
<1>4. r \in Stored /\ r.life = entry[e].life /\ r.working = entry[e].working /\ r.live = entry[e].working
  BY <1>1, <1>3 DEF Stored
<1>5. entry' = [entry EXCEPT ![e] = r]
  BY <1>1 DEF Publish
<1> HIDE DEF r
<1>6. /\ entry' \in [Entries -> Stored] /\ entry'[e] = r
      /\ \A f \in Entries \ {e} : entry'[f] = entry[f]
  BY <1>4, <1>5, OneEntry
<1>7. unvouched' = [unvouched EXCEPT !.live = lost] /\ UNCHANGED <<def, dropped, call, edit>> /\ Exists(e)
  BY DEF Publish
<1>8. ~beside => e \notin unvouched.working /\ \A a \in Admins : ~InFlight(a)
  OBVIOUS
<1> HIDE DEF lost, beside
<1>9. unvouched' \in [working : SUBSET Entries, live : SUBSET Entries]
      /\ unvouched'.live = lost /\ unvouched'.working = unvouched.working
  BY <1>1, <1>2, <1>7
<1>10. \A f \in Entries : VouchedWorking(f)' = VouchedWorking(f) /\ entry'[f].working = entry[f].working
  BY <1>4, <1>6, <1>9 DEF VouchedWorking, Exists
<1>11. \A f \in Entries \ {e} : VouchedLive(f)' = VouchedLive(f)
  BY <1>2, <1>6, <1>9 DEF VouchedLive, Exists
<1>12. VouchedLive(e)' => ~beside
  BY <1>2, <1>9 DEF VouchedLive
<1>13. Stable \/ \A a \in Admins : ~InFlight(a)
  <2>1. CASE beside
    BY <1>6, <1>10, <1>11, <1>12, <2>1 DEF Stable
  <2> QED BY <1>8, <2>1
<1>14. LifeInv'
  BY <1>4, <1>6, <1>7 DEF CallsInv, LifeInv, Exists
<1>15. FitInv'
  <2> SUFFICES ASSUME NEW f \in Entries
               PROVE  /\ VouchedWorking(f)' => Valid(def, entry'[f].working)
                      /\ VouchedLive(f)' => LiveFits(def, entry'[f].live)
    BY <1>7 DEF FitInv, Valid, LiveFits, FitsField
  <2>1. VouchedWorking(f)' => Valid(def, entry'[f].working)
    BY <1>10 DEF CallsInv, FitInv
  <2>2. CASE f # e
    BY <1>6, <1>11, <2>1, <2>2 DEF CallsInv, FitInv
  <2>3. ASSUME VouchedLive(e)' PROVE LiveFits(def, entry'[e].live)
    <3>1. VouchedWorking(e)
      BY <1>7, <1>8, <1>12, <2>3 DEF VouchedWorking
    <3> QED BY <1>4, <1>6, <3>1 DEF CallsInv, FitInv, Valid, LiveFits
  <2> QED BY <2>1, <2>2, <2>3
<1>16. edit' \in [Writers -> Edits] /\ EditInv'
  BY <1>7, SchemaForm DEF CallsInv, EditInv, EditOk, Valid, FitsField
<1> QED BY <1>6, <1>7, <1>9, <1>13, <1>14, <1>15, <1>16, EntryMoves

(* An entry that is retracted or deleted leaves no live copy.              *)
LEMMA Withdrawn ==
  ASSUME CallsInv, NEW e \in Entries, NEW r \in Stored, entry' = [entry EXCEPT ![e] = r],
         r.published = FALSE, r.life # "live" \/ r.working = entry[e].working, Exists(e), r.life # "unborn",
         UNCHANGED <<def, dropped, call, edit, unvouched>>
  PROVE  CallsInv'
<1>1. /\ entry' \in [Entries -> Stored] /\ entry'[e] = r
      /\ \A f \in Entries \ {e} : entry'[f] = entry[f]
  BY OneEntry
<1>2. Stable
  BY <1>1 DEF Stable, VouchedWorking, VouchedLive, Exists
<1>3. LifeInv' /\ FitInv'
  BY <1>1, <1>2 DEF CallsInv, LifeInv, FitInv, Stable, Exists, Valid, LiveFits, FitsField
<1>4. edit' \in [Writers -> Edits] /\ EditInv'
  BY SchemaForm DEF CallsInv, EditInv, EditOk, Valid, FitsField
<1>5. unvouched' \in [working : SUBSET Entries, live : SUBSET Entries]
  BY SchemaForm DEF CallsInv
<1> QED BY <1>1, <1>2, <1>3, <1>4, <1>5, EntryMoves

LEMMA UnbornForm == Unborn \in Stored /\ Unborn.published = FALSE
<1>1. 0 \in 0..MaxVersion
  <2>1. MaxVersion \in Nat
    BY SchemaAssumption
  <2> QED BY <2>1
<1>2. Blank \in Docs
  BY DEF Blank, Docs, Values
<1> QED BY <1>1, <1>2 DEF Unborn, Stored

LEMMA UnpublishStep ==
  ASSUME CallsInv, NEW e \in Entries, Unpublish(e) PROVE CallsInv'
<1> DEFINE r == [entry[e] EXCEPT !.published = FALSE, !.live = Blank, !.ver = @ + 1]
<1>1. entry \in [Entries -> Stored] /\ entry[e] \in Stored
  BY SchemaForm DEF CallsInv
<1>2. entry[e].ver + 1 \in 0..MaxVersion
  <2>1. MaxVersion \in Nat /\ entry[e].ver \in 0..MaxVersion /\ entry[e].ver < MaxVersion
    BY <1>1, SchemaAssumption DEF Stored, Unpublish
  <2> QED BY <2>1
<1>3. r \in Stored /\ r.published = FALSE /\ r.working = entry[e].working /\ r.life = entry[e].life
  BY <1>1, <1>2, UnbornForm DEF Stored, Unborn
<1>4. entry' = [entry EXCEPT ![e] = r] /\ Exists(e) /\ UNCHANGED <<def, dropped, call, edit, unvouched>>
  BY <1>1 DEF Unpublish
<1> HIDE DEF r
<1>5. r.life # "unborn"
  BY <1>3, <1>4 DEF Exists
<1> QED BY <1>3, <1>4, <1>5, Withdrawn

LEMMA DeleteEntryStep ==
  ASSUME CallsInv, NEW e \in Entries, DeleteEntry(e) PROVE CallsInv'
<1> DEFINE r == [Unborn EXCEPT !.life = "gone"]
<1>1. r \in Stored /\ r.published = FALSE /\ r.life = "gone"
  BY UnbornForm DEF Stored
<1>2. entry' = [entry EXCEPT ![e] = r] /\ Exists(e) /\ UNCHANGED <<def, dropped, call, edit, unvouched>>
  BY DEF DeleteEntry
<1> HIDE DEF r
<1> QED BY <1>1, <1>2, Withdrawn

-----------------------------------------------------------------------------
LEMMA CallsInitially == SchemaInit => CallsInv
<1> SUFFICES ASSUME SchemaInit PROVE CallsInv
  OBVIOUS
<1>1. [required |-> FALSE, strict |-> FALSE] \in Field
  BY DEF Field
<1>2. /\ def \in Definitions /\ dropped \in BOOLEAN /\ entry \in [Entries -> Stored]
      /\ call \in [Admins -> Calls] /\ edit \in [Writers -> Edits]
      /\ unvouched \in [working : SUBSET Entries, live : SUBSET Entries]
  BY <1>1, IdleForm, UnbornForm DEF SchemaInit, Definitions
<1>3. SchemaTypeOK
  BY <1>2, SchemaForm
<1>4. CallInv /\ EditInv
  BY IdleForm DEF SchemaInit, CallInv, EditInv
<1>5. LifeInv /\ FitInv
  BY DEF SchemaInit, LifeInv, FitInv, Unborn, Exists, VouchedWorking, VouchedLive
<1> QED BY <1>3, <1>4, <1>5 DEF CallsInv

LEMMA CallsKept == CallsInv /\ [SchemaNext]_schemaVars => CallsInv'
<1> SUFFICES ASSUME CallsInv, [SchemaNext]_schemaVars PROVE CallsInv'
  OBVIOUS
<1>1. ASSUME UNCHANGED schemaVars PROVE CallsInv'
  <2>1. \A e \in Entries : VouchedWorking(e)' = VouchedWorking(e) /\ VouchedLive(e)' = VouchedLive(e)
    BY <1>1 DEF schemaVars, VouchedWorking, VouchedLive, Exists
  <2>2. SchemaTypeOK'
    BY <1>1 DEF schemaVars, CallsInv, SchemaTypeOK
  <2>3. CallInv'
    BY <1>1, <2>1 DEF schemaVars, CallsInv, CallInv, CallOk, PatchOk, DropOk, Bears, FitsField
  <2>4. EditInv'
    BY <1>1 DEF schemaVars, CallsInv, EditInv, EditOk, Valid, FitsField
  <2>5. LifeInv' /\ FitInv'
    BY <1>1, <2>1 DEF schemaVars, CallsInv, LifeInv, FitInv, Exists, Valid, LiveFits, FitsField
  <2> QED BY <2>2, <2>3, <2>4, <2>5 DEF CallsInv
<1>2. ASSUME NEW a \in Admins, SchemaCall(a) PROVE CallsInv'
  <2>1. ASSUME Write(a) PROVE CallsInv'
    BY <2>1, InsertStep, PatchStep, RenameRowStep, DeleteRowStep, TypeRowStep DEF Write
  <2> QED BY <1>2, <2>1, AddStep, UpdateStep, RenameStep, DeleteStep, DropTypeStep, CheckStep DEF SchemaCall
<1>3. ASSUME EntryStep PROVE CallsInv'
  BY <1>3, ReadTypeStep, ComposeEntryStep, ComposeUpdateStep, WriteEntryStep, PublishStep,
     UnpublishStep, DeleteEntryStep DEF EntryStep
<1> QED BY <1>1, <1>2, <1>3 DEF SchemaNext

(* What each call and each writer holds, and what the guards vouch for, is *)
(* kept by every step of internal/cms/content/service/schema_mutation.go   *)
(* and of the entry writers.                                               *)
THEOREM CallsInvariant == SchemaSpec => []CallsInv
BY CallsInitially, CallsKept, PTL DEF SchemaSpec

(* The definition and the stored documents agree wherever the counts of    *)
(* schema_mutation.go vouch for both.                                      *)
THEOREM SchemaIsSound == SchemaSpec => []SchemaSound
<1>1. CallsInv => SchemaSound
  BY DEF CallsInv, FitInv, SchemaSound, EntriesFit, VouchedWorking, VouchedLive, LiveFits
<1> QED BY <1>1, CallsInvariant, PTL
(* No writer of an entry moves the definition or a call.                   *)
LEMMA EntriesLeaveTheType == EntryStep => UNCHANGED <<def, dropped, call>>
<1>1. ASSUME NEW w \in Writers
      PROVE  /\ ReadType(w) => UNCHANGED <<def, dropped, call>>
             /\ \A e, doc : ComposeEntry(w, e, doc) => UNCHANGED <<def, dropped, call>>
             /\ \A e, k, v : ComposeUpdate(w, e, k, v) => UNCHANGED <<def, dropped, call>>
  BY DEF ReadType, ComposeEntry, ComposeUpdate
<1>2. ASSUME NEW w \in Writers PROVE WriteEntry(w) => UNCHANGED <<def, dropped, call>>
  BY DEF WriteEntry, Give
<1>3. ASSUME NEW e \in Entries
      PROVE  Publish(e) \/ Unpublish(e) \/ DeleteEntry(e) => UNCHANGED <<def, dropped, call>>
  BY DEF Publish, Unpublish, DeleteEntry
<1> QED BY <1>1, <1>2, <1>3 DEF EntryStep

(* Only a committed deletion drops the type, and it has counted no entry   *)
(* a guard vouches for (schema_mutation.go DeleteContentType).             *)
THEOREM DeletionsSeeEntries == SchemaSpec => NoEntryGoesUnseen
<1> DEFINE Seen == dropped' /\ ~dropped => \A e \in Entries : Exists(e) => e \in unvouched.working
<1>1. ASSUME CallsInv, [SchemaNext]_schemaVars PROVE [Seen]_schemaVars
  <2> SUFFICES ASSUME SchemaNext, dropped', ~dropped
               PROVE  \A e \in Entries : Exists(e) => e \in unvouched.working
    BY <1>1
  <2>1. dropped' # dropped
    OBVIOUS
  <2>2. ~EntryStep
    BY <2>1, EntriesLeaveTheType
  <2>3. PICK a \in Admins : SchemaCall(a)
    BY <2>2 DEF SchemaNext
  <2>4. ~Refuse(a) /\ \A c : ~Open(a, c)
    BY <2>1 DEF Refuse, Open
  <2>5. DeleteTypeRow(a)
    BY <2>1, <2>3, <2>4 DEF SchemaCall, AddField, UpdateField, RenameField, DeleteField,
       DeleteContentType, Check, Write, InsertField, UpdateFieldDefinition, RenameFieldRow, DeleteFieldRow
  <2>6. DropOk(call[a]) /\ call[a].op = "drop" /\ call[a].stage = "checked"
    BY <1>1, <2>5 DEF CallsInv, CallInv, DeleteTypeRow
  <2> QED BY <2>6 DEF DropOk, VouchedWorking
<1> QED BY <1>1, CallsInvariant, PTL DEF SchemaSpec, NoEntryGoesUnseen

(* A field keeps its attributes unless a PATCH of it writes them, and a    *)
(* PATCH no other change overtook writes over the field it read            *)
(* (UpdateFieldDefinition stores every column of the definition).          *)
THEOREM PatchesNameTheirFields == SchemaSpec => OnlyWhatThePatchNames
<1> DEFINE Named == \A k \in Keys : def[k] # NoField /\ def'[k] # NoField /\ def'[k] # def[k] =>
                      \E a \in Admins : /\ call[a].stage = "checked"
                                        /\ call[a].op = "update" /\ call[a].key = k
                                        /\ call[a].old = def[k] \/ call[a].crossed
<1>1. ASSUME CallsInv, [SchemaNext]_schemaVars PROVE [Named]_schemaVars
  <2> SUFFICES ASSUME SchemaNext, NEW k \in Keys, def[k] # NoField, def'[k] # NoField, def'[k] # def[k]
               PROVE  \E a \in Admins : /\ call[a].stage = "checked"
                                        /\ call[a].op = "update" /\ call[a].key = k
                                        /\ call[a].old = def[k] \/ call[a].crossed
    BY <1>1
  <2>1. def' # def
    OBVIOUS
  <2>2. ~EntryStep
    BY <2>1, EntriesLeaveTheType
  <2>3. PICK a \in Admins : SchemaCall(a)
    BY <2>2 DEF SchemaNext
  <2>4. ~Refuse(a) /\ \A c : ~Open(a, c)
    BY <2>1 DEF Refuse, Open
  <2>5. Write(a)
    BY <2>1, <2>3, <2>4 DEF SchemaCall, AddField, UpdateField, RenameField, DeleteField,
       DeleteContentType, Check
  <2>6. def \in Definitions /\ CallOk(call[a]) /\ call[a] \in Calls
    BY <1>1, SchemaForm DEF CallsInv, CallInv
  <2>7. ~InsertField(a)
    BY <2>4, <2>6 DEF InsertField, Definitions
  <2>8. ~RenameFieldRow(a)
    <3>1. RenameFieldRow(a) => /\ def[call[a].to] = NoField
                               /\ def' = [def EXCEPT ![call[a].to] = def[call[a].key], ![call[a].key] = NoField]
      BY <2>4 DEF RenameFieldRow
    <3> QED BY <2>6, <3>1 DEF Definitions
  <2>9. ~DeleteFieldRow(a) /\ ~DeleteTypeRow(a)
    <3>1. DeleteFieldRow(a) => def' = [def EXCEPT ![call[a].key] = NoField]
      BY <2>4 DEF DeleteFieldRow
    <3> QED BY <2>1, <2>4, <2>6, <3>1 DEF Definitions, DeleteTypeRow
  <2>10. UpdateFieldDefinition(a)
    BY <2>5, <2>7, <2>8, <2>9 DEF Write
  <2>11. /\ call[a].op = "update" /\ call[a].stage = "checked"
         /\ def' = [def EXCEPT ![call[a].key] = call[a].next]
    BY <2>4, <2>10 DEF UpdateFieldDefinition
  <2>12. call[a].key = k
    BY <2>6, <2>11 DEF Definitions
  <2>13. ~call[a].crossed => call[a].old = def[k]
    BY <2>6, <2>11, <2>12 DEF CallOk
  <2> QED BY <2>6, <2>11, <2>12, <2>13 DEF Calls
<1> QED BY <1>1, CallsInvariant, PTL DEF SchemaSpec, OnlyWhatThePatchNames
-----------------------------------------------------------------------------
(* Artifacts applied as a whole.                                           *)

Filings == [status : {"none", "pending", "approved", "rejected"}, art : Artifacts \cup {BlankSchema},
            prune : BOOLEAN, plan : SUBSET Steps, due : BOOLEAN, applied : Nat]
Transactions == [stage : {"idle", "planned", "executed"}, prop : Proposals \cup {Direct},
                 art : Artifacts \cup {BlankSchema}, steps : SUBSET Steps, moved : BOOLEAN,
                 full : BOOLEAN, stripped : SUBSET Rows]
DocKeys == [live : BOOLEAN, keys : SUBSET TypeKeys]

FilingsForm == /\ schema \in Schemas /\ docs \in [Rows -> DocKeys] /\ raced \in SUBSET Rows
               /\ prop \in [Proposals -> Filings] /\ review \in [Reviews -> Transactions]

(* The entries a plan's counts cover.                                      *)
Covered(e) == Live(e) /\ e \notin raced

(* They hold what the committed schema asks of them, and nothing else.     *)
RowFits(e) == /\ schema.type # NoType /\ docs[e].keys \subseteq FieldsOf(schema.type)
              /\ \A k \in FieldsOf(schema.type) : schema.type[k].required => k \in docs[e].keys
RowsFit == \A e \in Rows : Covered(e) => RowFits(e)

(* What the steps of a plan say of the artifact they come from.            *)
StepOf(c, art) ==
  /\ c.op \in {"add_field", "update_field", "delete_field"} => c.key \in TypeKeys
  /\ c.op \in {"add_field", "update_field"} => Has(art.type, c.key)
  /\ c.op = "delete_field" => ~Has(art.type, c.key)
  /\ c.op = "create_type" => art.type # NoType

(* A required field is planned only over a type with no covered entry.     *)
AddsUnseen(t) ==
  \A s \in t.steps : s.change.op = "add_field" /\ t.art.type[s.change.key].required =>
    \A e \in Rows : ~Covered(e)

(* What the verbs found still holds when the transaction commits.          *)
Executing(t) ==
  /\ \A s \in t.steps : s.change.op = "create_type" => schema.type = NoType
  /\ \A s \in t.steps, e \in Rows : Covered(e) =>
       /\ s.change.op = "update_field" /\ t.art.type[s.change.key].required
            => s.change.key \in docs[e].keys
       /\ s.change.op = "delete_field" /\ s.change.key \in docs[e].keys => e \in t.stripped

(* The steps are among those of the plan that was filed.                   *)
Filed(t) ==
  t.prop # Direct => /\ prop[t.prop].status # "none"
                     /\ t.steps \subseteq Applicable(prop[t.prop].plan)

(* The whole difference, but for deletions nobody asked for.               *)
Whole(t) ==
  t.full /\ ~t.moved => /\ Changes(t.steps) \subseteq DiffSchemas(schema, t.art)
                        /\ \A c \in DiffSchemas(schema, t.art) :
                             IsDestructive(c) \/ c \in Changes(t.steps)

TransactionOk(t) ==
  /\ \A s \in t.steps : StepOf(s.change, t.art)
  /\ AddsUnseen(t) /\ Filed(t) /\ Whole(t)
  /\ t.stage = "executed" => Executing(t)
TransactionsInv == \A r \in Reviews : InReview(r) => TransactionOk(review[r])

LocksInv == \A q, r \in Reviews : q # r => HeldBy(q) \cap HeldBy(r) = {}

FilingsInv == FilingsForm /\ RowsFit /\ TransactionsInv /\ LocksInv /\ AppliedIffApproved

-----------------------------------------------------------------------------
(* DiffSchemas: what each change says of the two schemas.                  *)
AllChanges == [op : ChangeOps, key : TypeKeys \cup {""}, grade : Grades]

LEMMA AddForm ==
  ASSUME NEW k \in TypeKeys, NEW f \in FieldDef, NEW to, NEW c, c = AddFieldChange(k, f, to)
  PROVE  /\ c \in AllChanges /\ c.op = "add_field" /\ c.key = k /\ c.grade \in Grades
         /\ c.grade # "refused" /\ f.required => c.grade = "guarded"
<1> DEFINE g == IF f.kind = "component" /\ ~to.comp THEN "refused"
                ELSE IF f.required THEN "guarded" ELSE "additive"
<1>1. c = Change("add_field", k, g)
  BY DEF AddFieldChange
<1>2. g \in Grades /\ (g # "refused" /\ f.required => g = "guarded")
  BY DEF Grades
<1> HIDE DEF g
<1>3. c.op = "add_field" /\ c.key = k /\ c.grade = g
  BY <1>1 DEF Change
<1>4. c \in AllChanges
  <2>1. "add_field" \in ChangeOps /\ k \in TypeKeys \cup {""}
    BY DEF ChangeOps
  <2>2. c = [op |-> "add_field", key |-> k, grade |-> g]
    BY <1>1 DEF Change
  <2>3. [op |-> "add_field", key |-> k, grade |-> g] \in AllChanges
    BY <1>2, <2>1 DEF AllChanges
  <2> QED BY <2>2, <2>3
<1> QED BY <1>2, <1>3, <1>4

LEMMA FieldForm ==
  ASSUME NEW s \in Schemas, NEW k \in FieldsOf(s.type)
  PROVE  k \in TypeKeys /\ s.type # NoType /\ s.type[k] \in FieldDef /\ s.type[k] # NotDefined
BY DEF Schemas, FieldsOf, Has

Means(c, from, to) ==
  /\ c \in AllChanges /\ c.op \in ChangeOps /\ c.grade \in Grades
  /\ c.op = "add_field" => /\ c.key \in FieldsOf(to.type) \ FieldsOf(from.type)
                           /\ from.type # NoType \/ c.grade = "refused"
                           /\ c.grade # "refused" /\ to.type[c.key].required => c.grade = "guarded"
  /\ c.op = "update_field" => /\ c.key \in FieldsOf(to.type) \cap FieldsOf(from.type)
                              /\ from.type[c.key] # to.type[c.key]
  /\ c.op = "delete_field" => c.key \in FieldsOf(from.type) \ FieldsOf(to.type) /\ to.type # NoType
  /\ c.op = "create_type" => from.type = NoType /\ to.type # NoType
  /\ c.op = "delete_type" => to.type = NoType
  /\ c.op = "create_component" => to.comp /\ ~from.comp
  /\ c.op = "delete_component" => ~to.comp /\ from.comp

LEMMA TypeChangesMean ==
  ASSUME NEW from \in Schemas, NEW to \in Schemas, from.type # NoType, to.type # NoType,
         NEW c \in DiffType(from, to)
  PROVE  Means(c, from, to)
<1> DEFINE Added == {AddFieldChange(k, to.type[k], to) : k \in FieldsOf(to.type) \ FieldsOf(from.type)}
           Updated == UNION {DiffField(k, from.type[k], to.type[k]) :
                               k \in FieldsOf(to.type) \cap FieldsOf(from.type)}
           Removed == {Change("delete_field", k, "guarded") : k \in FieldsOf(from.type) \ FieldsOf(to.type)}
<1>1. CASE c \in Added
  <2>1. PICK k \in FieldsOf(to.type) \ FieldsOf(from.type) : c = AddFieldChange(k, to.type[k], to)
    BY <1>1
  <2>2. k \in TypeKeys /\ to.type[k] \in FieldDef
    BY FieldForm
  <2>3. /\ c \in AllChanges /\ c.op = "add_field" /\ c.key = k /\ c.grade \in Grades
        /\ c.grade # "refused" /\ to.type[k].required => c.grade = "guarded"
    BY <2>1, <2>2, AddForm
  <2> QED BY <2>1, <2>3 DEF Means, ChangeOps
<1>2. CASE c \in Updated
  <2>1. PICK k \in FieldsOf(to.type) \cap FieldsOf(from.type) : c \in DiffField(k, from.type[k], to.type[k])
    BY <1>2
  <2>2. k \in TypeKeys
    BY FieldForm
  <2>3. PICK g \in Grades : c = Change("update_field", k, g) /\ from.type[k] # to.type[k]
    BY <2>1 DEF DiffField, Grades
  <2>4. c \in AllChanges /\ c.op = "update_field" /\ c.key = k /\ c.grade \in Grades
    BY <2>2, <2>3 DEF Change, AllChanges, ChangeOps
  <2> QED BY <2>1, <2>3, <2>4 DEF Means, ChangeOps
<1>3. CASE c \in Removed
  <2>1. PICK k \in FieldsOf(from.type) \ FieldsOf(to.type) : c = Change("delete_field", k, "guarded")
    BY <1>3
  <2>2. k \in TypeKeys
    BY FieldForm
  <2>3. c \in AllChanges /\ c.op = "delete_field" /\ c.key = k /\ c.grade = "guarded"
    BY <2>1, <2>2 DEF Change, AllChanges, ChangeOps, Grades
  <2> QED BY <2>1, <2>3 DEF Means, ChangeOps, Grades
<1>4. DiffType(from, to) = Added \cup Updated \cup Removed
  BY DEF DiffType
<1> HIDE DEF Added, Updated, Removed
<1> QED BY <1>1, <1>2, <1>3, <1>4

LEMMA ChangesMean ==
  ASSUME NEW from \in Schemas, NEW to \in Schemas, NEW c \in DiffSchemas(from, to)
  PROVE  Means(c, from, to)
<1>1. CASE c \in DiffComponents(from, to)
  <2>1. CASE to.comp /\ ~from.comp
    <3>1. c = Change("create_component", "", "additive")
      BY <1>1, <2>1 DEF DiffComponents
    <3>2. c \in AllChanges /\ c.op = "create_component" /\ c.grade \in Grades
      BY <3>1 DEF Change, AllChanges, ChangeOps, Grades
    <3> QED BY <2>1, <3>2 DEF Means, ChangeOps
  <2>2. CASE ~to.comp /\ from.comp
    <3>1. c = Change("delete_component", "", "guarded")
      BY <1>1, <2>2 DEF DiffComponents
    <3>2. c \in AllChanges /\ c.op = "delete_component" /\ c.grade \in Grades
      BY <3>1 DEF Change, AllChanges, ChangeOps, Grades
    <3> QED BY <2>2, <3>2 DEF Means, ChangeOps
  <2> QED BY <1>1, <2>1, <2>2 DEF DiffComponents
<1>2. CASE c \in DiffTypes(from, to)
  <2>1. CASE to.type = NoType
    <3>1. c = Change("delete_type", "", "guarded")
      BY <1>2, <2>1 DEF DiffTypes
    <3>2. c \in AllChanges /\ c.op = "delete_type" /\ c.grade \in Grades
      BY <3>1 DEF Change, AllChanges, ChangeOps, Grades
    <3> QED BY <2>1, <3>2 DEF Means, ChangeOps
  <2>2. CASE to.type # NoType /\ from.type = NoType
    <3>1. CASE c = Change("create_type", "", "additive")
      <4>1. c \in AllChanges /\ c.op = "create_type" /\ c.grade \in Grades
        BY <3>1 DEF Change, AllChanges, ChangeOps, Grades
      <4> QED BY <2>2, <4>1 DEF Means, ChangeOps
    <3>2. CASE c \in {AddFieldChange(k, to.type[k], to) : k \in FieldsOf(to.type)} /\ c.grade = "refused"
      <4>1. PICK k \in FieldsOf(to.type) : c = AddFieldChange(k, to.type[k], to)
        BY <3>2
      <4>2. k \in TypeKeys /\ to.type[k] \in FieldDef /\ k \notin FieldsOf(from.type)
        BY <2>2, FieldForm DEF FieldsOf, Has
      <4>3. c \in AllChanges /\ c.op = "add_field" /\ c.key = k /\ c.grade \in Grades
        BY <4>1, <4>2, AddForm
      <4> QED BY <3>2, <4>1, <4>2, <4>3 DEF Means, ChangeOps
    <3> QED BY <1>2, <2>2, <3>1, <3>2 DEF DiffTypes, CreateTypeChanges
  <2>3. CASE to.type # NoType /\ from.type # NoType
    BY <1>2, <2>3, TypeChangesMean DEF DiffTypes
  <2> QED BY <2>1, <2>2, <2>3
<1> QED BY <1>1, <1>2 DEF DiffSchemas

(* Every difference but a deletion has its change.                         *)
LEMMA ChangesFound ==
  ASSUME NEW from \in Schemas, NEW to \in Schemas
  PROVE  /\ to.comp /\ ~from.comp =>
              \E c \in DiffSchemas(from, to) : c.op = "create_component" /\ ~IsDestructive(c)
         /\ to.type # NoType /\ from.type = NoType =>
              \E c \in DiffSchemas(from, to) : c.op = "create_type" /\ ~IsDestructive(c)
         /\ to.type # NoType /\ from.type # NoType =>
              \A k \in FieldsOf(to.type) :
                k \notin FieldsOf(from.type) \/ from.type[k] # to.type[k] =>
                  \E c \in DiffSchemas(from, to) :
                    c.op \in {"add_field", "update_field"} /\ c.key = k /\ ~IsDestructive(c)
<1>1. ASSUME to.comp, ~from.comp
      PROVE  \E c \in DiffSchemas(from, to) : c.op = "create_component" /\ ~IsDestructive(c)
  <2>1. Change("create_component", "", "additive") \in DiffSchemas(from, to)
    BY <1>1 DEF DiffSchemas, DiffComponents
  <2> QED BY <2>1 DEF Change, IsDestructive
<1>2. ASSUME to.type # NoType, from.type = NoType
      PROVE  \E c \in DiffSchemas(from, to) : c.op = "create_type" /\ ~IsDestructive(c)
  <2>1. Change("create_type", "", "additive") \in DiffSchemas(from, to)
    BY <1>2 DEF DiffSchemas, DiffTypes, CreateTypeChanges
  <2> QED BY <2>1 DEF Change, IsDestructive
<1>3. ASSUME to.type # NoType, from.type # NoType, NEW k \in FieldsOf(to.type),
             k \notin FieldsOf(from.type) \/ from.type[k] # to.type[k]
      PROVE  \E c \in DiffSchemas(from, to) :
               c.op \in {"add_field", "update_field"} /\ c.key = k /\ ~IsDestructive(c)
  <2>1. DiffType(from, to) \subseteq DiffSchemas(from, to)
    BY <1>3 DEF DiffSchemas, DiffTypes
  <2>2. k \in TypeKeys /\ to.type[k] \in FieldDef
    BY FieldForm
  <2>3. CASE k \notin FieldsOf(from.type)
    <3>1. AddFieldChange(k, to.type[k], to) \in DiffType(from, to)
      BY <2>3 DEF DiffType
    <3> QED BY <2>1, <2>2, <3>1, AddForm DEF IsDestructive
  <2>4. CASE k \in FieldsOf(from.type)
    <3>1. from.type[k] \in FieldDef /\ from.type[k] # to.type[k]
      BY <1>3, <2>4, FieldForm
    <3>2. PICK c \in DiffField(k, from.type[k], to.type[k]) : c.op = "update_field" /\ c.key = k
      <4>1. \E g \in Grades : Change("update_field", k, g) \in DiffField(k, from.type[k], to.type[k])
        BY <2>2, <3>1 DEF DiffField, FieldDef, Grades
      <4> QED BY <4>1 DEF Change
    <3>3. c \in DiffType(from, to)
      BY <2>4, <3>2 DEF DiffType
    <3> QED BY <2>1, <3>2, <3>3 DEF IsDestructive
  <2> QED BY <2>3, <2>4
<1> QED BY <1>1, <1>2, <1>3
-----------------------------------------------------------------------------
(* A plan: its counts are numbers, and zero where nothing is in the way.   *)
LEMMA Counting ==
  ASSUME NEW U, IsFiniteSet(U), NEW S \in SUBSET U
  PROVE  Cardinality(S) \in Nat /\ (Cardinality(S) = 0 => S = {})
<1>1. IsFiniteSet(S)
  BY FS_Subset
<1> QED BY <1>1, FS_CardinalityType, FS_EmptySet

LEMMA CountForm ==
  /\ \A k : CountMissing(k) \in Nat /\ (CountMissing(k) = 0 => \A e \in Rows : Live(e) => k \in docs[e].keys)
  /\ \A k : CountHolding(k) \in Nat /\ (CountHolding(k) = 0 => \A e \in Rows : Live(e) => k \notin docs[e].keys)
  /\ CountEntries \in Nat
  /\ \A art : ComponentBlockingCount(art) \in Nat
<1>1. IsFiniteSet(Rows) /\ IsFiniteSet(TypeKeys)
  BY ProposalAssumption
<1>2. ASSUME NEW k
      PROVE  CountMissing(k) \in Nat /\ (CountMissing(k) = 0 => \A e \in Rows : Live(e) => k \in docs[e].keys)
  <2> DEFINE S == {e \in Rows : Live(e) /\ k \notin docs[e].keys}
  <2>1. Cardinality(S) \in Nat /\ (Cardinality(S) = 0 => S = {})
    BY <1>1, Counting
  <2> QED BY <2>1 DEF CountMissing
<1>3. ASSUME NEW k
      PROVE  CountHolding(k) \in Nat /\ (CountHolding(k) = 0 => \A e \in Rows : Live(e) => k \notin docs[e].keys)
  <2> DEFINE S == {e \in Rows : Live(e) /\ k \in docs[e].keys}
  <2>1. Cardinality(S) \in Nat /\ (Cardinality(S) = 0 => S = {})
    BY <1>1, Counting
  <2> QED BY <2>1 DEF CountHolding
<1>4. CountEntries \in Nat
  <2>1. {e \in Rows : Live(e)} \in SUBSET Rows
    OBVIOUS
  <2> QED BY <1>1, <2>1, Counting DEF CountEntries
<1>5. ASSUME NEW art PROVE ComponentBlockingCount(art) \in Nat
  <2>1. {k \in Embeds(schema.type) : ArtifactKeepsReference(art, k)} \in SUBSET TypeKeys
    BY DEF Embeds, FieldsOf
  <2> QED BY <1>1, <2>1, Counting DEF ComponentBlockingCount
<1> QED BY <1>2, <1>3, <1>4, <1>5

LEMMA BlockingForm ==
  ASSUME NEW c, NEW art
  PROVE  /\ BlockingCount(c, art) \in Nat
         /\ c.op \in {"add_field", "update_field"} => BlockingCount(c, art) = CountMissing(c.key)
BY CountForm DEF BlockingCount

LEMMA StepForm ==
  ASSUME NEW c \in AllChanges, NEW art, NEW prune, NEW s, s = PlanStep(c, art, prune)
  PROVE  /\ s \in Steps /\ s.change = c
         /\ s.fate = "apply" => /\ c.grade # "refused"
                                /\ c.grade = "guarded" => BlockingCount(c, art) = 0
         /\ s.fate = "apply" \/ s.fate \in {"refused", "blocked"} \/ IsDestructive(c)
<1> DEFINE n == IF c.grade = "guarded" THEN BlockingCount(c, art) ELSE 0
           m == IF IsDestructive(c) /\ ~prune THEN 0 ELSE n
           f == IF c.grade = "refused" THEN "refused"
                ELSE IF IsDestructive(c) /\ ~prune THEN "skipped"
                ELSE IF n > 0 THEN "blocked" ELSE "apply"
<1>1. n \in Nat /\ m \in Nat /\ (c.grade = "guarded" => n = BlockingCount(c, art))
  BY BlockingForm
<1>2. s = [change |-> c, entries |-> m, fate |-> f]
  BY DEF PlanStep
<1> HIDE DEF n, m
<1>3. f \in {"refused", "skipped", "blocked", "apply"}
      /\ (f = "apply" => c.grade # "refused" /\ n = 0)
      /\ (f = "skipped" => IsDestructive(c))
  BY <1>1
<1> HIDE DEF f
<1>4. s.change = c /\ s.fate = f
  BY <1>2
<1>5. s \in Steps
  <2>1. Steps = [change : AllChanges, entries : Nat, fate : {"refused", "skipped", "blocked", "apply"}]
    BY DEF Steps, AllChanges
  <2> QED BY <1>1, <1>2, <1>3, <2>1
<1> QED BY <1>1, <1>3, <1>4, <1>5

LEMMA Submitted == \A art \in Artifacts \cup {BlankSchema} : art \in Schemas
<1>1. BlankSchema \in Schemas
  BY DEF BlankSchema, Schemas
<1> QED BY <1>1, ProposalAssumption

LEMMA PlanForm ==
  ASSUME schema \in Schemas, NEW art \in Artifacts \cup {BlankSchema}, NEW prune
  PROVE  /\ PlanScoped(art, prune) \subseteq Steps
         /\ \A s \in PlanScoped(art, prune) : /\ Means(s.change, schema, art)
                                              /\ s.change \in DiffSchemas(schema, art)
         /\ \A s \in Applicable(PlanScoped(art, prune)) :
              /\ s.change.grade # "refused"
              /\ s.change.grade = "guarded" => BlockingCount(s.change, art) = 0
         /\ CanApply(PlanScoped(art, prune)) =>
              \A c \in DiffSchemas(schema, art) :
                IsDestructive(c) \/ c \in Changes(Applicable(PlanScoped(art, prune)))
<1> DEFINE plan == PlanScoped(art, prune)
<1>1. art \in Schemas
  BY Submitted
<1>2. ASSUME NEW s \in plan
      PROVE  /\ s \in Steps /\ Means(s.change, schema, art) /\ s.change \in DiffSchemas(schema, art)
             /\ s.fate = "apply" => /\ s.change.grade # "refused"
                                    /\ s.change.grade = "guarded" => BlockingCount(s.change, art) = 0
  <2>1. PICK c \in DiffSchemas(schema, art) : s = PlanStep(c, art, prune)
    BY DEF PlanScoped
  <2>2. Means(c, schema, art) /\ c \in AllChanges
    BY <1>1, ChangesMean DEF Means
  <2> QED BY <2>1, <2>2, StepForm
<1>3. ASSUME CanApply(plan), NEW c \in DiffSchemas(schema, art)
      PROVE  IsDestructive(c) \/ c \in Changes(Applicable(plan))
  <2> DEFINE s == PlanStep(c, art, prune)
  <2>1. s \in plan
    BY DEF PlanScoped
  <2>2. c \in AllChanges
    BY <1>1, ChangesMean DEF Means
  <2>3. s.change = c /\ (s.fate = "apply" \/ s.fate \in {"refused", "blocked"} \/ IsDestructive(c))
    BY <2>2, StepForm
  <2> HIDE DEF s, plan
  <2>4. s.fate \notin {"refused", "blocked"}
    BY <1>3, <2>1 DEF CanApply
  <2> QED BY <2>1, <2>3, <2>4 DEF Changes, Applicable
<1> QED BY <1>2, <1>3 DEF Applicable
-----------------------------------------------------------------------------
(* A transaction moves, and nothing that is committed does.                *)
LEMMA BlankReview == NoReview(BlankSchema) \in Transactions /\ NoReview(BlankSchema).stage = "idle"
BY DEF NoReview, Transactions

LEMMA ReviewMoves ==
  ASSUME FilingsInv, NEW r \in Reviews, NEW t \in Transactions, review' = [review EXCEPT ![r] = t],
         UNCHANGED <<schema, docs, prop, raced>>, t.stage # "idle" => TransactionOk(t),
         t.stage = "executed" => \A q \in Reviews \ {r} : Locks(t.steps, t.art) \cap HeldBy(q) = {}
  PROVE  FilingsInv'
<1>1. review \in [Reviews -> Transactions]
  BY DEF FilingsInv, FilingsForm
<1>2. review' \in [Reviews -> Transactions] /\ review'[r] = t /\ \A q \in Reviews \ {r} : review'[q] = review[q]
  BY <1>1
<1>3. FilingsForm' /\ AppliedIffApproved'
  BY <1>2 DEF FilingsInv, FilingsForm, AppliedIffApproved, DocKeys
<1>4. \A e \in Rows : Covered(e)' = Covered(e)
  BY DEF Covered, Live
<1>5. RowsFit'
  BY <1>4 DEF FilingsInv, RowsFit, RowFits
<1>6. ASSUME NEW q \in Reviews, InReview(q)' PROVE TransactionOk(review[q])'
  <2>1. TransactionOk(review'[q])
    BY <1>2, <1>6 DEF FilingsInv, TransactionsInv, InReview
  <2> QED BY <1>4, <2>1 DEF TransactionOk, AddsUnseen, Filed, Whole, Executing
<1>7. LocksInv'
  <2>1. /\ HeldBy(r)' = IF t.stage = "executed" THEN Locks(t.steps, t.art) ELSE {}
        /\ \A q \in Reviews \ {r} : HeldBy(q)' = HeldBy(q)
    BY <1>2 DEF HeldBy, Executed, Locks
  <2>2. \A q \in Reviews \ {r} : HeldBy(r)' \cap HeldBy(q) = {}
    BY <2>1
  <2> QED BY <2>1, <2>2 DEF FilingsInv, LocksInv
<1> QED BY <1>3, <1>5, <1>6, <1>7 DEF FilingsInv, TransactionsInv

LEMMA RollbackStep ==
  ASSUME FilingsInv, NEW r \in Reviews, Rollback(r) PROVE FilingsInv'
BY BlankReview, ReviewMoves DEF Rollback

LEMMA BeginStep ==
  ASSUME FilingsInv, NEW r \in Reviews, NEW p \in Proposals \cup {Direct},
         NEW art \in Artifacts \cup {BlankSchema}, NEW prune, NEW chosen,
         Begin(r, p, art, PlanScoped(art, prune), chosen),
         p # Direct => prop[p].status # "none" /\ prop[p].plan = PlanScoped(art, prune)
  PROVE  FilingsInv'
<1> DEFINE plan == PlanScoped(art, prune)
           full == CanApply(plan) /\ chosen = Applicable(plan)
           t == [stage |-> "planned", prop |-> p, art |-> art, steps |-> chosen,
                 moved |-> FALSE, full |-> full, stripped |-> {}]
<1>1. schema \in Schemas /\ art \in Schemas
  BY Submitted DEF FilingsInv, FilingsForm
<1>2. chosen \subseteq Applicable(plan) /\ Applicable(plan) \subseteq plan
  BY DEF Begin, ResolveStepSelection, Applicable
<1>3. plan \subseteq Steps
  BY <1>1, PlanForm
<1>4. full \in BOOLEAN
  OBVIOUS
<1>5. review' = [review EXCEPT ![r] = t] /\ UNCHANGED <<schema, docs, prop, raced>>
  BY DEF Begin
<1>6. ASSUME NEW s \in chosen
      PROVE  /\ Means(s.change, schema, art) /\ s.change \in DiffSchemas(schema, art)
             /\ s.change.grade # "refused"
             /\ s.change.grade = "guarded" => BlockingCount(s.change, art) = 0
  BY <1>1, <1>2, PlanForm
<1>7. full => \A c \in DiffSchemas(schema, art) : IsDestructive(c) \/ c \in Changes(chosen)
  BY <1>1, PlanForm
<1>8. p # Direct => prop[p].status # "none" /\ prop[p].plan = plan
  OBVIOUS
<1> HIDE DEF plan, full
<1>9. /\ t.stage = "planned" /\ t.prop = p /\ t.art = art /\ t.steps = chosen /\ t.full = full
      /\ t \in Transactions
  BY <1>2, <1>3, <1>4 DEF Transactions
<1> HIDE DEF t
<1>10. ASSUME NEW s \in chosen PROVE StepOf(s.change, art)
  <2>1. Means(s.change, schema, art)
    BY <1>6
  <2> QED BY <2>1 DEF Means, StepOf, FieldsOf, AllChanges
<1>11. AddsUnseen(t)
  <2> SUFFICES ASSUME NEW s \in chosen, s.change.op = "add_field", art.type[s.change.key].required,
                      NEW e \in Rows, Covered(e)
               PROVE  FALSE
    BY <1>9 DEF AddsUnseen
  <2> DEFINE c == s.change
  <2>1. Means(c, schema, art) /\ c.grade # "refused" /\ (c.grade = "guarded" => BlockingCount(c, art) = 0)
    BY <1>6
  <2>2. c.grade = "guarded" /\ c.key \notin FieldsOf(schema.type)
    BY <2>1 DEF Means
  <2>3. CountMissing(c.key) = 0
    BY <2>1, <2>2, BlockingForm
  <2>4. c.key \in docs[e].keys
    BY <2>3, CountForm DEF Covered
  <2>5. docs[e].keys \subseteq FieldsOf(schema.type)
    BY DEF FilingsInv, RowsFit, RowFits
  <2> QED BY <2>2, <2>4, <2>5
<1>12. Filed(t)
  BY <1>2, <1>8, <1>9 DEF Filed
<1>13. Whole(t)
  BY <1>6, <1>7, <1>9 DEF Whole, Changes
<1>14. TransactionOk(t)
  BY <1>9, <1>10, <1>11, <1>12, <1>13 DEF TransactionOk
<1> QED BY <1>5, <1>9, <1>14, ReviewMoves

LEMMA ApproveStep ==
  ASSUME FilingsInv, NEW r \in Reviews, NEW p \in Proposals, NEW chosen,
         ApproveSchemaProposal(r, p, chosen)
  PROVE  FilingsInv'
<1>1. prop[p].art \in Artifacts \cup {BlankSchema}
  BY DEF FilingsInv, FilingsForm, Filings
<1>2. prop[p].status # "none" /\ prop[p].plan = PlanScoped(prop[p].art, prop[p].prune)
  BY DEF ApproveSchemaProposal, PlanMatches
<1> QED BY <1>1, <1>2, BeginStep DEF ApproveSchemaProposal

LEMMA ApplyStep ==
  ASSUME FilingsInv, NEW r \in Reviews, NEW art \in Artifacts, NEW prune, ApplySchema(r, art, prune)
  PROVE  FilingsInv'
BY BeginStep DEF ApplySchema

(* The verbs find what the plan counted; the locks keep it so.             *)
LEMMA ExecuteStep ==
  ASSUME FilingsInv, NEW r \in Reviews, Execute(r) PROVE FilingsInv'
<1> DEFINE t == review[r]
           gone == {e \in Rows : Live(e) /\ docs[e].keys \cap Touched(t.steps, "delete_field") # {}}
           u == [t EXCEPT !.stage = "executed", !.stripped = gone]
<1>1. CASE Rollback(r)
  BY <1>1, RollbackStep
<1>2. CASE ~Rollback(r)
  <2>1. /\ t.stage = "planned" /\ Locks(t.steps, t.art) \cap Held = {} /\ Executes(t.steps, t.art)
        /\ UNCHANGED <<schema, docs, prop, raced>>
    BY <1>2 DEF Execute
  <2>2. review \in [Reviews -> Transactions] /\ t \in Transactions /\ TransactionOk(t) /\ schema \in Schemas
    BY <2>1 DEF FilingsInv, FilingsForm, TransactionsInv, InReview
  <2>3. review' = [review EXCEPT ![r] = u]
    BY <1>2, <2>2 DEF Execute
  <2>4. gone \in SUBSET Rows
    OBVIOUS
  <2>5. \A e \in Rows, s \in t.steps : Live(e) /\ s.change.op = "delete_field" /\ s.change.key \in docs[e].keys
                                         => e \in gone
    BY DEF Touched
  <2> HIDE DEF gone
  <2>6. /\ u \in Transactions /\ u.stage = "executed" /\ u.stripped = gone /\ u.steps = t.steps
        /\ u.art = t.art /\ u.prop = t.prop /\ u.full = t.full /\ u.moved = t.moved
    BY <2>2, <2>4 DEF Transactions
  <2> HIDE DEF u, t
  <2>7. Executing(u)
    <3>1. ASSUME NEW s \in t.steps, s.change.op = "create_type" PROVE schema.type = NoType
      BY <2>1, <3>1 DEF Executes, VerbSucceeds
    <3>2. ASSUME NEW s \in t.steps, NEW e \in Rows, Covered(e), s.change.op = "update_field",
                 t.art.type[s.change.key].required
          PROVE  s.change.key \in docs[e].keys
      <4> DEFINE k == s.change.key
      <4>1. /\ Has(schema.type, k)
            /\ t.art.type[k].required /\ ~schema.type[k].required => CountMissing(k) = 0
        BY <2>1, <3>2 DEF Executes, VerbSucceeds
      <4>2. k \in TypeKeys
        BY <2>2, <3>2 DEF TransactionOk, StepOf
      <4>3. CASE schema.type[k].required
        BY <3>2, <4>1, <4>2, <4>3 DEF FilingsInv, RowsFit, RowFits, FieldsOf
      <4>4. CASE ~schema.type[k].required
        BY <3>2, <4>1, <4>4, CountForm DEF Covered
      <4> QED BY <4>3, <4>4
    <3>3. \A s \in t.steps, e \in Rows : Covered(e) /\ s.change.op = "delete_field"
            /\ s.change.key \in docs[e].keys => e \in gone
      BY <2>5 DEF Covered, t
    <3> QED BY <2>6, <3>1, <3>2, <3>3 DEF Executing
  <2>8. TransactionOk(u)
    BY <2>2, <2>6, <2>7 DEF TransactionOk, AddsUnseen, Filed, Whole
  <2>9. \A q \in Reviews \ {r} : Locks(u.steps, u.art) \cap HeldBy(q) = {}
    BY <2>1, <2>6 DEF Held
  <2> QED BY <2>1, <2>3, <2>6, <2>8, <2>9, ReviewMoves
<1> QED BY <1>1, <1>2
-----------------------------------------------------------------------------
(* A proposal moves; what was filed with it stays.                         *)
LEMMA FilingMoves ==
  ASSUME FilingsInv, NEW p \in Proposals, NEW f \in Filings, prop' = [prop EXCEPT ![p] = f],
         UNCHANGED <<schema, docs, review, raced>>, f.applied = IF f.status = "approved" THEN 1 ELSE 0,
         prop[p].status # "none" => f.status # "none" /\ f.plan = prop[p].plan
  PROVE  FilingsInv'
<1>1. prop' \in [Proposals -> Filings] /\ prop'[p] = f /\ \A q \in Proposals \ {p} : prop'[q] = prop[q]
  BY DEF FilingsInv, FilingsForm
<1>2. FilingsForm' /\ AppliedIffApproved'
  BY <1>1 DEF FilingsInv, FilingsForm, AppliedIffApproved, DocKeys
<1>3. \A e \in Rows : Covered(e)' = Covered(e)
  BY DEF Covered, Live
<1>4. RowsFit'
  BY <1>3 DEF FilingsInv, RowsFit, RowFits
<1>5. ASSUME NEW q \in Reviews, InReview(q)' PROVE TransactionOk(review[q])'
  <2>1. TransactionOk(review[q]) /\ review[q].prop \in Proposals \cup {Direct}
    BY <1>5 DEF FilingsInv, FilingsForm, Transactions, TransactionsInv, InReview
  <2>2. Filed(review[q])'
    BY <1>1, <2>1 DEF TransactionOk, Filed
  <2> QED BY <1>3, <2>1, <2>2 DEF TransactionOk, AddsUnseen, Whole, Executing
<1>6. LocksInv'
  BY DEF FilingsInv, LocksInv, HeldBy, Executed, Locks
<1> QED BY <1>2, <1>4, <1>5, <1>6 DEF FilingsInv, TransactionsInv

LEMMA BlankFiling == NoProposal \in Filings /\ NoProposal.applied = 0
BY DEF NoProposal, Filings

LEMMA ProposeStep ==
  ASSUME FilingsInv, NEW p \in Proposals, NEW art \in Artifacts, NEW prune \in Prunes,
         ProposeSchema(p, art, prune)
  PROVE  FilingsInv'
<1> DEFINE plan == PlanScoped(art, prune)
           f == [NoProposal EXCEPT !.status = "pending", !.art = art, !.prune = prune, !.plan = plan]
<1>1. plan \subseteq Steps /\ prune \in BOOLEAN
  BY PlanForm, ProposalAssumption DEF FilingsInv, FilingsForm
<1>2. prop' = [prop EXCEPT ![p] = f] /\ UNCHANGED <<schema, docs, review, raced>> /\ prop[p].status = "none"
  BY DEF ProposeSchema
<1> HIDE DEF plan
<1>3. f \in Filings /\ f.status = "pending" /\ f.applied = 0
  BY <1>1, BlankFiling DEF Filings
<1> HIDE DEF f
<1> QED BY <1>2, <1>3, FilingMoves

LEMMA ExpireStep ==
  ASSUME FilingsInv, NEW p \in Proposals, Expire(p) PROVE FilingsInv'
<1> DEFINE f == [prop[p] EXCEPT !.due = TRUE]
<1>1. prop \in [Proposals -> Filings] /\ prop[p] \in Filings
      /\ prop[p].applied = IF prop[p].status = "approved" THEN 1 ELSE 0
  BY DEF FilingsInv, FilingsForm, AppliedIffApproved
<1>2. prop' = [prop EXCEPT ![p] = f] /\ UNCHANGED <<schema, docs, review, raced>>
  BY <1>1 DEF Expire
<1>3. f \in Filings /\ f.status = prop[p].status /\ f.plan = prop[p].plan /\ f.applied = prop[p].applied
  BY <1>1 DEF Filings
<1> HIDE DEF f
<1> QED BY <1>1, <1>2, <1>3, FilingMoves

LEMMA RejectStep ==
  ASSUME FilingsInv, NEW p \in Proposals, RejectSchemaProposal(p) PROVE FilingsInv'
<1> DEFINE f == [prop[p] EXCEPT !.status = "rejected"]
<1>1. prop \in [Proposals -> Filings] /\ prop[p] \in Filings /\ prop[p].status = "pending"
      /\ prop[p].applied = 0
  BY DEF FilingsInv, FilingsForm, AppliedIffApproved, RejectSchemaProposal
<1>2. prop' = [prop EXCEPT ![p] = f] /\ UNCHANGED <<schema, docs, review, raced>>
  BY <1>1 DEF RejectSchemaProposal
<1>3. f \in Filings /\ f.status = "rejected" /\ f.plan = prop[p].plan /\ f.applied = 0
  BY <1>1 DEF Filings
<1> HIDE DEF f
<1> QED BY <1>1, <1>2, <1>3, FilingMoves

-----------------------------------------------------------------------------
(* Whoever else moves the schema marks every open transaction.             *)
LEMMA SchemaMovedForm ==
  ASSUME FilingsForm
  PROVE  /\ SchemaMoved \in [Reviews -> Transactions]
         /\ \A r \in Reviews :
              /\ SchemaMoved[r].stage = review[r].stage /\ SchemaMoved[r].prop = review[r].prop
              /\ SchemaMoved[r].art = review[r].art /\ SchemaMoved[r].steps = review[r].steps
              /\ SchemaMoved[r].stripped = review[r].stripped /\ SchemaMoved[r].full = review[r].full
              /\ InReview(r) => SchemaMoved[r].moved
<1>1. ASSUME NEW r \in Reviews
      PROVE  /\ SchemaMoved[r] \in Transactions
             /\ SchemaMoved[r].stage = review[r].stage /\ SchemaMoved[r].prop = review[r].prop
             /\ SchemaMoved[r].art = review[r].art /\ SchemaMoved[r].steps = review[r].steps
             /\ SchemaMoved[r].stripped = review[r].stripped /\ SchemaMoved[r].full = review[r].full
             /\ InReview(r) => SchemaMoved[r].moved
  <2>1. InReview(r) \in BOOLEAN /\ review[r] \in Transactions
    BY DEF InReview, FilingsForm
  <2>2. SchemaMoved[r] = [review[r] EXCEPT !.moved = InReview(r)]
    BY DEF SchemaMoved
  <2> HIDE DEF InReview
  <2> QED BY <2>1, <2>2 DEF Transactions
<1>2. SchemaMoved \in [Reviews -> Transactions]
  BY <1>1 DEF SchemaMoved
<1> QED BY <1>1, <1>2

(* A step that holds no lock on the type leaves it alone.                  *)
TypeOps == {"add_field", "update_field", "delete_field", "create_type", "delete_type"}

LEMMA Unlocked ==
  ASSUME NEW t \in Transactions, "type" \notin Locks(t.steps, t.art)
  PROVE  \A s \in t.steps : s.change.op \notin TypeOps
BY DEF Locks, TypeOps

(* One field of the type, set outside any transaction that holds its row.  *)
LEMMA SetFieldStep ==
  ASSUME FilingsInv, NEW k \in TypeKeys, NEW f \in FieldDef \cup {NotDefined}, SetField(k, f), RowsFit'
  PROVE  FilingsInv'
<1>1. /\ "type" \notin Held /\ schema.type # NoType /\ schema' = [schema EXCEPT !.type[k] = f]
      /\ review' = SchemaMoved /\ UNCHANGED <<docs, prop, raced>>
  BY DEF SetField
<1>2. FilingsForm
  BY DEF FilingsInv
<1>3. schema' \in Schemas
  BY <1>1, <1>2 DEF FilingsForm, Schemas
<1>4. FilingsForm' /\ AppliedIffApproved'
  BY <1>1, <1>2, <1>3, SchemaMovedForm DEF FilingsInv, FilingsForm, AppliedIffApproved, DocKeys
<1>5. \A e \in Rows : Covered(e)' = Covered(e)
  BY <1>1 DEF Covered, Live
<1>6. ASSUME NEW q \in Reviews, InReview(q)' PROVE TransactionOk(review[q])'
  <2>1. InReview(q) /\ review[q] \in Transactions /\ TransactionOk(review[q])
    BY <1>1, <1>2, <1>6, SchemaMovedForm DEF FilingsInv, FilingsForm, TransactionsInv, InReview
  <2>2. /\ review'[q].stage = review[q].stage /\ review'[q].prop = review[q].prop
        /\ review'[q].art = review[q].art /\ review'[q].steps = review[q].steps
        /\ review'[q].moved
    BY <1>1, <1>2, <2>1, SchemaMovedForm
  <2>3. Filed(review[q])' /\ Whole(review[q])' /\ AddsUnseen(review[q])'
    BY <1>1, <1>5, <2>1, <2>2 DEF TransactionOk, Filed, Whole, AddsUnseen
  <2>4. review[q].stage = "executed" => \A s \in review[q].steps : s.change.op \notin TypeOps
    BY <1>1, <2>1, Unlocked DEF Held, HeldBy, Executed
  <2>5. review'[q].stage = "executed" => Executing(review[q])'
    BY <2>2, <2>4 DEF Executing, TypeOps
  <2> QED BY <2>1, <2>2, <2>3, <2>5 DEF TransactionOk
<1>7. LocksInv'
  <2>1. \A q \in Reviews : HeldBy(q)' = HeldBy(q)
    BY <1>1, <1>2, SchemaMovedForm DEF HeldBy, Executed, Locks
  <2> QED BY <2>1 DEF FilingsInv, LocksInv
<1> QED BY <1>4, <1>6, <1>7 DEF FilingsInv, TransactionsInv
LEMMA SetFieldFits ==
  ASSUME FilingsInv, NEW k \in TypeKeys, NEW f \in FieldDef \cup {NotDefined}, SetField(k, f),
         \A e \in Rows : Covered(e) => /\ f = NotDefined => k \notin docs[e].keys
                                       /\ f \in FieldDef /\ f.required => k \in docs[e].keys
  PROVE  FilingsInv'
<1>1. schema.type \in [TypeKeys -> FieldDef \cup {NotDefined}] /\ schema \in Schemas
  BY DEF FilingsInv, FilingsForm, Schemas, SetField
<1>2. schema'.type = [schema.type EXCEPT ![k] = f] /\ UNCHANGED <<docs, raced>>
  BY <1>1 DEF SetField, Schemas
<1>3. /\ schema'.type \in [TypeKeys -> FieldDef \cup {NotDefined}] /\ schema'.type[k] = f
      /\ \A j \in TypeKeys \ {k} : schema'.type[j] = schema.type[j]
  BY <1>1, <1>2
<1>4. schema'.type # NoType /\ schema.type # NoType /\ NotDefined \notin FieldDef
  BY <1>1, <1>3, ProposalAssumption
<1>5. ASSUME NEW e \in Rows, Covered(e) PROVE RowFits(e)'
  <2>1. RowFits(e) /\ docs'[e].keys = docs[e].keys
    BY <1>2, <1>5 DEF FilingsInv, RowsFit
  <2>2. docs[e].keys \subseteq FieldsOf(schema'.type)
    BY <1>3, <1>4, <1>5, <2>1 DEF RowFits, FieldsOf, Has
  <2>3. \A j \in FieldsOf(schema'.type) : schema'.type[j].required => j \in docs[e].keys
    BY <1>3, <1>4, <1>5, <2>1 DEF RowFits, FieldsOf, Has
  <2> QED BY <1>4, <2>1, <2>2, <2>3 DEF RowFits
<1>6. RowsFit'
  BY <1>2, <1>5 DEF RowsFit, Covered, Live
<1> QED BY <1>6, SetFieldStep

LEMMA AddOneStep ==
  ASSUME FilingsInv, NEW k \in TypeKeys, AddOneField(k) PROVE FilingsInv'
<1> DEFINE f == [kind |-> "text", required |-> FALSE]
<1>1. f \in FieldDef /\ ~f.required /\ NotDefined \notin FieldDef
  BY ProposalAssumption DEF FieldDef
<1>2. SetField(k, f)
  BY DEF AddOneField
<1> HIDE DEF f
<1> QED BY <1>1, <1>2, SetFieldFits

LEMMA RequireStep ==
  ASSUME FilingsInv, NEW k \in TypeKeys, RequireField(k) PROVE FilingsInv'
<1> DEFINE f == [schema.type[k] EXCEPT !.required = TRUE]
<1>1. schema.type[k] \in FieldDef /\ NotDefined \notin FieldDef
  BY FieldForm, ProposalAssumption DEF FilingsInv, FilingsForm, RequireField, FieldsOf
<1>2. f \in FieldDef
  BY <1>1 DEF FieldDef
<1>3. SetField(k, f) /\ CountMissing(k) = 0
  BY DEF RequireField
<1> HIDE DEF f
<1>4. \A e \in Rows : Covered(e) => k \in docs[e].keys
  BY <1>3, CountForm DEF Covered
<1> QED BY <1>1, <1>2, <1>3, <1>4, SetFieldFits

LEMMA RelaxStep ==
  ASSUME FilingsInv, NEW k \in TypeKeys, RelaxField(k) PROVE FilingsInv'
<1> DEFINE f == [schema.type[k] EXCEPT !.required = FALSE]
<1>1. schema.type[k] \in FieldDef /\ NotDefined \notin FieldDef
  BY FieldForm, ProposalAssumption DEF FilingsInv, FilingsForm, RelaxField, FieldsOf
<1>2. f \in FieldDef /\ ~f.required
  BY <1>1 DEF FieldDef
<1>3. SetField(k, f)
  BY DEF RelaxField
<1> HIDE DEF f
<1> QED BY <1>1, <1>2, <1>3, SetFieldFits

LEMMA DeleteOneStep ==
  ASSUME FilingsInv, NEW k \in TypeKeys, DeleteOneField(k) PROVE FilingsInv'
<1>1. \A e \in Rows : Covered(e) => k \notin docs[e].keys
  BY CountForm DEF Covered, DeleteOneField
<1>2. NotDefined \notin FieldDef
  BY ProposalAssumption
<1> QED BY <1>1, <1>2, SetFieldFits DEF DeleteOneField

(* An entry written beside a transaction is no longer covered.             *)
LEMMA WriteRowStep ==
  ASSUME FilingsInv, NEW e \in Rows, NEW held \in SUBSET TypeKeys, WriteRow(e, held) PROVE FilingsInv'
<1> DEFINE beside == \E r \in Reviews : InReview(r)
<1>1. /\ schema.type # NoType /\ held \subseteq FieldsOf(schema.type)
      /\ \A k \in FieldsOf(schema.type) : schema.type[k].required => k \in held
      /\ docs' = [docs EXCEPT ![e] = [live |-> TRUE, keys |-> held]]
      /\ raced' = IF beside THEN raced \cup {e} ELSE raced \ {e}
      /\ UNCHANGED <<schema, prop, review>>
  BY DEF WriteRow
<1>2. FilingsForm
  BY DEF FilingsInv
<1>3. /\ docs' \in [Rows -> DocKeys] /\ docs'[e].keys = held
      /\ \A f \in Rows \ {e} : docs'[f] = docs[f]
  BY <1>1, <1>2 DEF FilingsForm, DocKeys
<1>4. FilingsForm' /\ AppliedIffApproved'
  BY <1>1, <1>2, <1>3 DEF FilingsInv, FilingsForm, AppliedIffApproved
<1>5. \A f \in Rows \ {e} : Covered(f)' = Covered(f)
  BY <1>1, <1>3 DEF Covered, Live
<1>6. beside => ~Covered(e)'
  BY <1>1 DEF Covered
<1> HIDE DEF beside
<1>7. RowsFit'
  <2> SUFFICES ASSUME NEW f \in Rows, Covered(f)' PROVE RowFits(f)'
    BY DEF RowsFit
  <2>1. CASE f = e
    BY <1>1, <1>3, <2>1 DEF RowFits
  <2>2. CASE f # e
    BY <1>1, <1>3, <1>5, <2>2 DEF FilingsInv, RowsFit, RowFits
  <2> QED BY <2>1, <2>2
<1>8. ASSUME NEW q \in Reviews, InReview(q)' PROVE TransactionOk(review[q])'
  <2>1. InReview(q) /\ TransactionOk(review[q])
    BY <1>1, <1>8 DEF FilingsInv, TransactionsInv, InReview
  <2>2. \A f \in Rows : Covered(f)' => Covered(f) /\ docs'[f] = docs[f]
    BY <1>3, <1>5, <1>6, <2>1 DEF beside
  <2> QED BY <1>1, <2>1, <2>2 DEF TransactionOk, AddsUnseen, Filed, Whole, Executing
<1>9. LocksInv'
  BY <1>1 DEF FilingsInv, LocksInv, HeldBy, Executed, Locks
<1> QED BY <1>4, <1>7, <1>8, <1>9 DEF FilingsInv, TransactionsInv

-----------------------------------------------------------------------------
(* A transaction commits.                                                  *)
LEMMA ResultForm ==
  ASSUME schema \in Schemas, NEW t \in Transactions, \A s \in t.steps : StepOf(s.change, t.art)
  PROVE  /\ Result(t.steps, t.art) \in Schemas
         /\ Does(t.steps, "delete_type") => Result(t.steps, t.art).type = NoType
         /\ ~Does(t.steps, "delete_type") /\ Does(t.steps, "create_type") =>
              Result(t.steps, t.art).type = t.art.type
         /\ ~Does(t.steps, "delete_type") /\ ~Does(t.steps, "create_type") =>
              /\ schema.type = NoType => Result(t.steps, t.art).type = NoType
              /\ schema.type # NoType =>
                   /\ Result(t.steps, t.art).type # NoType
                   /\ \A k \in TypeKeys : Result(t.steps, t.art).type[k] =
                        IF k \in Touched(t.steps, "delete_field") THEN NotDefined
                        ELSE IF k \in Touched(t.steps, "add_field") \cup Touched(t.steps, "update_field")
                        THEN t.art.type[k] ELSE schema.type[k]
<1> DEFINE new == Result(t.steps, t.art)
           table == [k \in TypeKeys |->
                      IF k \in Touched(t.steps, "delete_field") THEN NotDefined
                      ELSE IF k \in Touched(t.steps, "add_field") \cup Touched(t.steps, "update_field")
                      THEN t.art.type[k] ELSE schema.type[k]]
           comp == IF Does(t.steps, "create_component") THEN TRUE
                   ELSE IF Does(t.steps, "delete_component") THEN FALSE ELSE schema.comp
<1>1. t.art \in Schemas
  BY Submitted DEF Transactions
<1>2. comp \in BOOLEAN
  BY DEF Schemas
<1>3. ASSUME schema.type # NoType PROVE table \in [TypeKeys -> FieldDef \cup {NotDefined}]
  <2> SUFFICES ASSUME NEW k \in TypeKeys, k \notin Touched(t.steps, "delete_field")
               PROVE  /\ k \in Touched(t.steps, "add_field") \cup Touched(t.steps, "update_field")
                           => t.art.type[k] \in FieldDef \cup {NotDefined}
                      /\ schema.type[k] \in FieldDef \cup {NotDefined}
    OBVIOUS
  <2>1. schema.type[k] \in FieldDef \cup {NotDefined}
    BY <1>3 DEF Schemas
  <2>2. ASSUME k \in Touched(t.steps, "add_field") \cup Touched(t.steps, "update_field")
        PROVE  t.art.type[k] \in FieldDef \cup {NotDefined}
    <3>1. Has(t.art.type, k)
      BY <2>2 DEF Touched, StepOf
    <3> QED BY <1>1, <3>1 DEF Has, Schemas
  <2> QED BY <2>1, <2>2
<1>4. schema.type # NoType => table # NoType
  BY <1>3, ProposalAssumption
<1>5. new = [type |-> IF Does(t.steps, "delete_type") THEN NoType
                      ELSE IF Does(t.steps, "create_type") THEN t.art.type
                      ELSE IF schema.type = NoType THEN NoType ELSE table,
             comp |-> comp]
  BY DEF Result
<1>6. \A k \in TypeKeys : table[k] =
        IF k \in Touched(t.steps, "delete_field") THEN NotDefined
        ELSE IF k \in Touched(t.steps, "add_field") \cup Touched(t.steps, "update_field")
        THEN t.art.type[k] ELSE schema.type[k]
  OBVIOUS
<1> HIDE DEF new, table, comp
<1>7. /\ new.comp = comp
      /\ new.type = IF Does(t.steps, "delete_type") THEN NoType
                    ELSE IF Does(t.steps, "create_type") THEN t.art.type
                    ELSE IF schema.type = NoType THEN NoType ELSE table
  BY <1>5
<1>8. new.type \in {NoType} \cup [TypeKeys -> FieldDef \cup {NotDefined}]
  BY <1>1, <1>3, <1>7 DEF Schemas
<1>9. new \in Schemas
  BY <1>2, <1>5, <1>7, <1>8 DEF Schemas
<1> QED BY <1>4, <1>6, <1>7, <1>9 DEF new
(* The steps that are executed, with the decision on their proposal.       *)
Committing(r) ==
  LET t == review[r] IN
  /\ r \in Reviews /\ t.stage = "executed" /\ StillPending(t.prop)
  /\ schema' = Result(t.steps, t.art)
  /\ docs' = [e \in Rows |->
       IF Does(t.steps, "delete_type") THEN NoEntry
       ELSE IF e \in t.stripped
       THEN [docs[e] EXCEPT !.keys = @ \ Touched(t.steps, "delete_field")]
       ELSE docs[e]]
  /\ prop' = IF t.prop = Direct THEN prop
             ELSE [prop EXCEPT ![t.prop].status = "approved", ![t.prop].applied = @ + 1]
  /\ review' = [(IF schema' = schema THEN review ELSE SchemaMoved)
                  EXCEPT ![r] = NoReview(BlankSchema)]
  /\ UNCHANGED raced

LEMMA CommitReviews ==
  ASSUME FilingsForm, NEW r \in Reviews, Committing(r)
  PROVE  /\ review' \in [Reviews -> Transactions] /\ review'[r].stage = "idle"
         /\ \A q \in Reviews \ {r} :
              /\ review'[q].stage = review[q].stage /\ review'[q].prop = review[q].prop
              /\ review'[q].art = review[q].art /\ review'[q].steps = review[q].steps
              /\ review'[q].stripped = review[q].stripped /\ review'[q].full = review[q].full
              /\ \/ schema' = schema /\ review'[q].moved = review[q].moved
                 \/ InReview(q) => review'[q].moved
<1> DEFINE base == IF schema' = schema THEN review ELSE SchemaMoved
<1>1. /\ base \in [Reviews -> Transactions]
      /\ \A q \in Reviews :
           /\ base[q].stage = review[q].stage /\ base[q].prop = review[q].prop
           /\ base[q].art = review[q].art /\ base[q].steps = review[q].steps
           /\ base[q].stripped = review[q].stripped /\ base[q].full = review[q].full
           /\ \/ schema' = schema /\ base[q].moved = review[q].moved
              \/ InReview(q) => base[q].moved
  <2>1. CASE schema' = schema
    BY <2>1 DEF FilingsForm
  <2>2. CASE schema' # schema
    BY <2>2, SchemaMovedForm
  <2> QED BY <2>1, <2>2
<1>2. review' = [base EXCEPT ![r] = NoReview(BlankSchema)]
  BY DEF Committing
<1> HIDE DEF base
<1> QED BY <1>1, <1>2, BlankReview

LEMMA CommitFilings ==
  ASSUME FilingsInv, NEW r \in Reviews, Committing(r)
  PROVE  /\ prop' \in [Proposals -> Filings] /\ AppliedIffApproved'
         /\ \A p \in Proposals : /\ prop'[p].plan = prop[p].plan
                                 /\ prop[p].status # "none" => prop'[p].status # "none"
<1> DEFINE p == review[r].prop
           n == prop[p].applied + 1
           f == [prop[p] EXCEPT !.status = "approved", !.applied = n]
<1>1. prop \in [Proposals -> Filings] /\ p \in Proposals \cup {Direct} /\ AppliedIffApproved
  BY DEF FilingsInv, FilingsForm, Transactions
<1>2. CASE p = Direct
  BY <1>1, <1>2 DEF Committing, AppliedIffApproved
<1>3. CASE p # Direct
  <2>1. p \in Proposals /\ prop[p] \in Filings /\ prop[p].status = "pending" /\ prop[p].applied = 0
    BY <1>1, <1>3 DEF Committing, StillPending, AppliedIffApproved
  <2>2. prop' = [prop EXCEPT ![p] = f]
    BY <1>1, <1>3, <2>1 DEF Committing
  <2> HIDE DEF p
  <2>0. n = 1 /\ n \in Nat
    BY <2>1
  <2> HIDE DEF n
  <2>3. f \in Filings /\ f.status = "approved" /\ f.applied = 1 /\ f.plan = prop[p].plan
    BY <2>0, <2>1 DEF Filings
  <2> HIDE DEF f
  <2>4. prop' \in [Proposals -> Filings] /\ prop'[p] = f /\ \A q \in Proposals \ {p} : prop'[q] = prop[q]
    BY <1>1, <2>1, <2>2, <2>3
  <2> QED BY <1>1, <2>3, <2>4 DEF AppliedIffApproved
<1> QED BY <1>2, <1>3

LEMMA CommitRows ==
  ASSUME FilingsForm, NEW r \in Reviews, Committing(r)
  PROVE  /\ docs' \in [Rows -> DocKeys]
         /\ \A e \in Rows :
              /\ Does(review[r].steps, "delete_type") => ~docs'[e].live
              /\ ~Does(review[r].steps, "delete_type") =>
                   /\ docs'[e].live = docs[e].live
                   /\ docs'[e].keys = IF e \in review[r].stripped
                                      THEN docs[e].keys \ Touched(review[r].steps, "delete_field")
                                      ELSE docs[e].keys
<1> DEFINE t == review[r]
           lost == Touched(t.steps, "delete_field")
           drop == Does(t.steps, "delete_type")
<1>1. docs' = [e \in Rows |-> IF drop THEN NoEntry
                              ELSE IF e \in t.stripped THEN [docs[e] EXCEPT !.keys = @ \ lost] ELSE docs[e]]
  BY DEF Committing
<1>2. NoEntry \in DocKeys /\ ~NoEntry.live /\ docs \in [Rows -> DocKeys]
  BY DEF NoEntry, DocKeys, FilingsForm
<1> HIDE DEF t, lost, drop
<1>3. ASSUME NEW e \in Rows
      PROVE  /\ docs'[e] \in DocKeys
             /\ drop => ~docs'[e].live
             /\ ~drop => /\ docs'[e].live = docs[e].live
                         /\ docs'[e].keys = IF e \in t.stripped THEN docs[e].keys \ lost ELSE docs[e].keys
  <2>1. docs[e] \in DocKeys
    BY <1>2
  <2>2. CASE drop
    BY <1>1, <1>2, <2>2
  <2>3. CASE ~drop /\ e \in t.stripped
    <3>1. docs'[e] = [docs[e] EXCEPT !.keys = docs[e].keys \ lost]
      BY <1>1, <2>3
    <3> QED BY <2>1, <2>3, <3>1 DEF DocKeys
  <2>4. CASE ~drop /\ e \notin t.stripped
    <3>1. docs'[e] = docs[e]
      BY <1>1, <2>4
    <3> QED BY <2>1, <2>4, <3>1
  <2> QED BY <2>2, <2>3, <2>4
<1>4. docs' \in [Rows -> DocKeys]
  BY <1>1, <1>3
<1> QED BY <1>3, <1>4 DEF t, lost, drop
(* What the plan counted is what the commit needs: every covered entry     *)
(* holds the fields the new schema requires, and none that it lost.        *)
LEMMA CommitFits ==
  ASSUME FilingsInv, NEW r \in Reviews, Committing(r)
  PROVE  RowsFit' /\ \A e \in Rows : Covered(e)' => Covered(e)
<1> DEFINE t == review[r]
           lost == Touched(t.steps, "delete_field")
           set == Touched(t.steps, "add_field") \cup Touched(t.steps, "update_field")
<1>1. t \in Transactions /\ TransactionOk(t) /\ Executing(t) /\ schema \in Schemas /\ t.art \in Schemas
  BY Submitted DEF FilingsInv, FilingsForm, TransactionsInv, InReview, TransactionOk, Committing, Transactions
<1>2. \A s \in t.steps : StepOf(s.change, t.art)
  BY <1>1 DEF TransactionOk
<1>3. schema' = Result(t.steps, t.art) /\ raced' = raced
  BY DEF Committing
<1>4. ASSUME NEW e \in Rows, Covered(e)'
      PROVE  /\ ~Does(t.steps, "delete_type") /\ Covered(e)
             /\ docs'[e].keys = IF e \in t.stripped THEN docs[e].keys \ lost ELSE docs[e].keys
  BY <1>3, <1>4, CommitRows DEF FilingsInv, Covered, Live
<1>5. ASSUME NEW e \in Rows, Covered(e)' PROVE RowFits(e)'
  <2>1. Covered(e) /\ RowFits(e) /\ ~Does(t.steps, "delete_type")
        /\ docs'[e].keys = IF e \in t.stripped THEN docs[e].keys \ lost ELSE docs[e].keys
    BY <1>4, <1>5 DEF FilingsInv, RowsFit
  <2>2. schema.type # NoType
    BY <2>1 DEF RowFits
  <2>3. ~Does(t.steps, "create_type")
    BY <1>1, <2>2 DEF Executing, Does
  <2>4. /\ schema'.type # NoType
        /\ \A k \in TypeKeys : schema'.type[k] =
             IF k \in lost THEN NotDefined ELSE IF k \in set THEN t.art.type[k] ELSE schema.type[k]
    BY <1>1, <1>2, <1>3, <2>1, <2>2, <2>3, ResultForm
  <2>5. \A k \in set : k \in TypeKeys /\ Has(t.art.type, k) /\ k \notin lost
    BY <1>2 DEF Touched, StepOf
  <2>6. \A k \in docs[e].keys : k \in lost => e \in t.stripped
    BY <1>1, <2>1 DEF Executing, Touched
  <2>7. docs'[e].keys \subseteq docs[e].keys \ lost /\ docs[e].keys \ lost \subseteq docs'[e].keys
    BY <2>1, <2>6
  <2>8. \A k \in set : t.art.type[k].required => k \in docs[e].keys
    <3>1. \A k \in Touched(t.steps, "add_field") : ~t.art.type[k].required
      BY <1>1, <2>1 DEF TransactionOk, AddsUnseen, Touched
    <3>2. \A k \in Touched(t.steps, "update_field") : t.art.type[k].required => k \in docs[e].keys
      BY <1>1, <2>1 DEF Executing, Touched
    <3> QED BY <3>1, <3>2
  <2> HIDE DEF t, lost, set
  <2>9. docs[e].keys \subseteq FieldsOf(schema.type)
        /\ \A k \in FieldsOf(schema.type) : schema.type[k].required => k \in docs[e].keys
    BY <2>1 DEF RowFits
  <2>10. docs'[e].keys \subseteq FieldsOf(schema'.type)
    <3> SUFFICES ASSUME NEW k \in docs[e].keys, k \notin lost PROVE k \in FieldsOf(schema'.type)
      BY <2>7
    <3>1. k \in TypeKeys /\ schema.type[k] # NotDefined
      BY <2>9 DEF FieldsOf, Has
    <3>2. schema'.type[k] # NotDefined
      BY <2>4, <2>5, <3>1 DEF Has
    <3> QED BY <2>4, <3>1, <3>2 DEF FieldsOf, Has
  <2>11. ASSUME NEW k \in FieldsOf(schema'.type), schema'.type[k].required PROVE k \in docs'[e].keys
    <3>1. k \in TypeKeys /\ schema'.type[k] # NotDefined /\ k \notin lost
      BY <2>4, <2>11 DEF FieldsOf, Has
    <3>2. CASE k \in set
      BY <2>4, <2>7, <2>8, <2>11, <3>1, <3>2
    <3>3. CASE k \notin set
      <4>1. schema'.type[k] = schema.type[k]
        BY <2>4, <3>1, <3>3
      <4>2. k \in FieldsOf(schema.type)
        BY <2>2, <3>1, <4>1 DEF FieldsOf, Has
      <4> QED BY <2>7, <2>9, <2>11, <3>1, <4>1, <4>2
    <3> QED BY <3>2, <3>3
  <2> QED BY <2>4, <2>10, <2>11 DEF RowFits
<1> QED BY <1>4, <1>5 DEF RowsFit

(* A transaction that holds no lock on the type leaves it and its entries. *)
LEMMA CommitApart ==
  ASSUME FilingsInv, NEW r \in Reviews, Committing(r),
         "type" \notin Locks(review[r].steps, review[r].art)
  PROVE  /\ schema'.type = schema.type
         /\ \A e \in Rows : docs'[e].live = docs[e].live /\ docs'[e].keys = docs[e].keys
<1> DEFINE t == review[r]
<1>1. t \in Transactions /\ schema \in Schemas /\ \A s \in t.steps : StepOf(s.change, t.art)
  BY DEF FilingsInv, FilingsForm, TransactionsInv, InReview, TransactionOk, Committing
<1>2. \A s \in t.steps : s.change.op \notin TypeOps
  BY <1>1, Unlocked
<1>3. /\ ~Does(t.steps, "delete_type") /\ ~Does(t.steps, "create_type")
      /\ Touched(t.steps, "delete_field") = {} /\ Touched(t.steps, "add_field") = {}
      /\ Touched(t.steps, "update_field") = {}
  BY <1>2 DEF Does, Touched, TypeOps
<1>4. \A e \in Rows : docs'[e].live = docs[e].live /\ docs'[e].keys = docs[e].keys
  BY <1>3, CommitRows DEF FilingsInv
<1>5. schema' = Result(t.steps, t.art)
  BY DEF Committing
<1>6. Result(t.steps, t.art) \in Schemas
  BY <1>1, ResultForm
<1>7. CASE schema.type = NoType
  BY <1>1, <1>3, <1>4, <1>5, <1>7, ResultForm
<1>8. CASE schema.type # NoType
  <2>1. schema'.type # NoType /\ \A k \in TypeKeys : schema'.type[k] = schema.type[k]
    BY <1>1, <1>3, <1>5, <1>8, ResultForm
  <2>2. /\ schema.type \in [TypeKeys -> FieldDef \cup {NotDefined}]
        /\ schema'.type \in [TypeKeys -> FieldDef \cup {NotDefined}]
    BY <1>1, <1>5, <1>6, <1>8, <2>1 DEF Schemas
  <2> QED BY <1>4, <2>1, <2>2
<1> QED BY <1>4, <1>7, <1>8

LEMMA CommittingStep ==
  ASSUME FilingsInv, NEW r \in Reviews, Committing(r) PROVE FilingsInv'
<1> DEFINE t == review[r]
<1>1. FilingsForm /\ t \in Transactions /\ TransactionOk(t) /\ t.stage = "executed" /\ schema \in Schemas
  BY DEF FilingsInv, FilingsForm, TransactionsInv, InReview, Committing
<1>2. schema' \in Schemas /\ raced' = raced
  BY <1>1, ResultForm DEF TransactionOk, Committing
<1>3. FilingsForm' /\ AppliedIffApproved'
  BY <1>1, <1>2, CommitReviews, CommitFilings, CommitRows DEF FilingsForm, DocKeys
<1>4. RowsFit' /\ \A e \in Rows : Covered(e)' => Covered(e)
  BY CommitFits
<1>5. ASSUME NEW q \in Reviews, InReview(q)' PROVE TransactionOk(review[q])'
  <2>1. q # r
    BY <1>1, <1>5, CommitReviews DEF InReview
  <2>2. /\ review'[q].stage = review[q].stage /\ review'[q].prop = review[q].prop
        /\ review'[q].art = review[q].art /\ review'[q].steps = review[q].steps
        /\ review'[q].stripped = review[q].stripped /\ review'[q].full = review[q].full
        /\ \/ schema' = schema /\ review'[q].moved = review[q].moved
           \/ InReview(q) => review'[q].moved
    BY <1>1, <2>1, CommitReviews
  <2>3. InReview(q) /\ TransactionOk(review[q]) /\ review[q] \in Transactions
    BY <1>1, <1>5, <2>2 DEF FilingsInv, FilingsForm, TransactionsInv, InReview
  <2>4. AddsUnseen(review[q])'
    BY <1>4, <2>2, <2>3 DEF TransactionOk, AddsUnseen
  <2>5. Filed(review[q])'
    <3>1. review[q].prop \in Proposals \cup {Direct}
      BY <2>3 DEF Transactions
    <3> QED BY <2>2, <2>3, <3>1, CommitFilings DEF TransactionOk, Filed
  <2>6. Whole(review[q])'
    BY <2>2, <2>3 DEF TransactionOk, Whole
  <2>7. ASSUME review'[q].stage = "executed" PROVE Executing(review[q])'
    <3>1. Executing(review[q]) /\ Executed(q) /\ Executed(r)
      BY <1>1, <2>2, <2>3, <2>7 DEF TransactionOk, Executed
    <3>2. CASE "type" \notin Locks(review[q].steps, review[q].art)
      <4>1. \A s \in review[q].steps : s.change.op \notin TypeOps
        BY <2>3, <3>2, Unlocked
      <4> QED BY <2>2, <4>1 DEF Executing, TypeOps
    <3>3. CASE "type" \in Locks(review[q].steps, review[q].art)
      <4>1. "type" \notin Locks(t.steps, t.art)
        <5>1. HeldBy(q) \cap HeldBy(r) = {}
          BY <2>1 DEF FilingsInv, LocksInv
        <5> QED BY <3>1, <3>3, <5>1 DEF HeldBy
      <4>2. schema'.type = schema.type /\ \A e \in Rows : docs'[e].keys = docs[e].keys
        BY <4>1, CommitApart
      <4> QED BY <1>4, <2>2, <3>1, <4>2 DEF Executing
    <3> QED BY <3>2, <3>3
  <2> QED BY <2>2, <2>3, <2>4, <2>5, <2>6, <2>7 DEF TransactionOk
<1>6. LocksInv'
  <2>1. HeldBy(r)' = {} /\ \A q \in Reviews \ {r} : HeldBy(q)' = HeldBy(q)
    BY ZenonT(40), <1>1, CommitReviews DEF HeldBy, Executed, Locks
  <2> QED BY <2>1 DEF FilingsInv, LocksInv
<1> QED BY <1>3, <1>4, <1>5, <1>6 DEF FilingsInv, TransactionsInv

LEMMA CommitStep ==
  ASSUME FilingsInv, NEW r \in Reviews, Commit(r) PROVE FilingsInv'
<1>1. Rollback(r) \/ Committing(r)
  BY DEF Commit, Committing
<1> QED BY <1>1, RollbackStep, CommittingStep
-----------------------------------------------------------------------------
LEMMA FilingsInitially == ProposalInit => FilingsInv
<1> SUFFICES ASSUME ProposalInit PROVE FilingsInv
  OBVIOUS
<1>1. schema \in Schemas /\ docs \in [Rows -> DocKeys] /\ raced = {}
      /\ prop \in [Proposals -> Filings] /\ review \in [Reviews -> Transactions]
  BY Submitted, BlankFiling, BlankReview DEF ProposalInit, NoEntry, DocKeys
<1>2. \A r \in Reviews : ~InReview(r) /\ ~Executed(r)
  BY BlankReview DEF ProposalInit, InReview, Executed
<1>3. RowsFit
  BY DEF ProposalInit, RowsFit, Covered, Live, NoEntry
<1>4. AppliedIffApproved
  BY BlankFiling DEF ProposalInit, AppliedIffApproved, NoProposal
<1> QED BY <1>1, <1>2, <1>3, <1>4 DEF FilingsInv, FilingsForm, TransactionsInv, LocksInv, HeldBy

LEMMA FilingsKept == FilingsInv /\ [ProposalNext]_proposalVars => FilingsInv'
<1> SUFFICES ASSUME FilingsInv, [ProposalNext]_proposalVars PROVE FilingsInv'
  OBVIOUS
<1>1. ASSUME UNCHANGED proposalVars PROVE FilingsInv'
  <2>1. UNCHANGED <<schema, docs, prop, review, raced>>
    BY <1>1 DEF proposalVars
  <2>2. FilingsForm' /\ AppliedIffApproved'
    BY <2>1 DEF FilingsInv, FilingsForm, AppliedIffApproved, DocKeys
  <2>3. \A e \in Rows : Covered(e)' = Covered(e)
    BY <2>1 DEF Covered, Live
  <2>4. RowsFit'
    BY <2>1, <2>3 DEF FilingsInv, RowsFit, RowFits
  <2>5. ASSUME NEW q \in Reviews, InReview(q)' PROVE TransactionOk(review[q])'
    <3>1. TransactionOk(review[q])
      BY <2>1, <2>5 DEF FilingsInv, TransactionsInv, InReview
    <3> QED BY <2>1, <2>3, <3>1 DEF TransactionOk, AddsUnseen, Filed, Whole, Executing
  <2>6. LocksInv'
    BY <2>1 DEF FilingsInv, LocksInv, HeldBy, Executed, Locks
  <2> QED BY <2>2, <2>4, <2>5, <2>6 DEF FilingsInv, TransactionsInv
<1>2. ASSUME NEW p \in Proposals, ProposalStep(p) PROVE FilingsInv'
  BY <1>2, ProposeStep, ExpireStep, RejectStep DEF ProposalStep
<1>3. ASSUME NEW r \in Reviews, ReviewStep(r) PROVE FilingsInv'
  BY <1>3, ApproveStep, ApplyStep, ExecuteStep, CommitStep DEF ReviewStep
<1>4. ASSUME OtherStep PROVE FilingsInv'
  BY <1>4, AddOneStep, RequireStep, RelaxStep, DeleteOneStep, WriteRowStep DEF OtherStep
<1> QED BY <1>1, <1>2, <1>3, <1>4 DEF ProposalNext

(* What a plan counted holds until its transaction commits, however many   *)
(* are open (schema_apply.go execute, schema_proposal.go).                 *)
THEOREM FilingsInvariant == ProposalSpec => []FilingsInv
BY FilingsInitially, FilingsKept, PTL DEF ProposalSpec

(* A proposal is executed exactly when it is approved, and no execution    *)
(* takes a required field from under an entry its plan counted             *)
(* (schema_proposal.go ApproveSchemaProposal).                             *)
THEOREM ProposalsAreSound == ProposalSpec => []ProposalsSound
<1>1. FilingsInv => ProposalsSound
  <2> SUFFICES ASSUME FilingsInv PROVE ProposalsSound
    OBVIOUS
  <2>1. ProposalTypeOK
    BY DEF FilingsInv, FilingsForm, ProposalTypeOK, Filings, Transactions, DocKeys
  <2>2. EntriesKeepTheirFields
    BY DEF FilingsInv, RowsFit, RowFits, Covered, EntriesKeepTheirFields
  <2> QED BY <2>1, <2>2 DEF FilingsInv, ProposalsSound
<1> QED BY <1>1, FilingsInvariant, PTL

(* Only its own commit ends a transaction that has executed.               *)
LEMMA OnlyItsCommit ==
  ASSUME FilingsInv, ProposalNext, NEW r \in Reviews, Executed(r), review'[r].stage = "idle"
  PROVE  Commit(r)
<1>1. FilingsForm /\ review \in [Reviews -> Transactions] /\ review[r].stage = "executed"
  BY DEF FilingsInv, FilingsForm, Executed
<1>2. ~(UNCHANGED review) /\ review' # SchemaMoved
  BY <1>1, SchemaMovedForm
<1>3. ASSUME NEW p \in Proposals, ProposalStep(p) PROVE FALSE
  BY <1>2, <1>3 DEF ProposalStep, ProposeSchema, Expire, RejectSchemaProposal
<1>4. ~OtherStep
  BY <1>2 DEF OtherStep, AddOneField, RequireField, RelaxField, DeleteOneField, SetField, WriteRow
<1>5. ASSUME NEW q \in Reviews, ReviewStep(q) PROVE Commit(r)
  <2>1. ASSUME NEW t, review' = [review EXCEPT ![q] = t] PROVE q = r
    BY <1>1, <2>1
  <2>2. ASSUME NEW p, NEW art, NEW plan, NEW chosen, Begin(q, p, art, plan, chosen) PROVE FALSE
    BY <1>1, <2>1, <2>2 DEF Begin, InReview
  <2>3. ~Execute(q)
    <3> SUFFICES ASSUME Execute(q) PROVE FALSE
      OBVIOUS
    <3>1. review[q].stage = "planned" /\ q # r
      BY <1>1 DEF Execute
    <3> QED BY <1>1, <3>1 DEF Execute, Rollback
  <2>4. ASSUME Commit(q) PROVE q = r
    <3>1. Rollback(q) \/ Committing(q)
      BY <2>4 DEF Commit, Committing
    <3>2. Rollback(q) => q = r
      BY <2>1 DEF Rollback
    <3>3. Committing(q) => q = r
      BY <1>1, CommitReviews
    <3> QED BY <3>1, <3>2, <3>3
  <2> QED BY <1>5, <2>2, <2>3, <2>4 DEF ReviewStep, ApproveSchemaProposal, ApplySchema
<1> QED BY <1>3, <1>4, <1>5 DEF ProposalNext

(* An approval changes no field, and not the component, that the plan      *)
(* filed with the proposal does not change (schema_proposal.go             *)
(* ApproveSchemaProposal compares the two plans).                          *)
THEOREM ApprovalsFollowTheirPlan == ProposalSpec => OnlyWhatWasReviewed
<1> DEFINE Followed ==
      \A r \in Reviews : Commits(r) =>
        LET reviewed == Changes(Applicable(prop[review[r].prop].plan)) IN
        /\ \A k \in TypeKeys : FieldOf(schema', k) # FieldOf(schema, k) =>
             \E c \in reviewed : c.key = k \/ c.op \in {"create_type", "delete_type"}
        /\ schema'.comp # schema.comp =>
             \E c \in reviewed : c.op \in {"create_component", "delete_component"}
<1>1. ASSUME FilingsInv, [ProposalNext]_proposalVars PROVE [Followed]_proposalVars
  <2> SUFFICES ASSUME ProposalNext, NEW r \in Reviews, Commits(r)
               PROVE  LET reviewed == Changes(Applicable(prop[review[r].prop].plan)) IN
                      /\ \A k \in TypeKeys : FieldOf(schema', k) # FieldOf(schema, k) =>
                           \E c \in reviewed : c.key = k \/ c.op \in {"create_type", "delete_type"}
                      /\ schema'.comp # schema.comp =>
                           \E c \in reviewed : c.op \in {"create_component", "delete_component"}
    BY <1>1
  <2> DEFINE t == review[r]
             reviewed == Changes(Applicable(prop[t.prop].plan))
  <2>1. Commit(r) /\ t.prop # Direct /\ prop'[t.prop].applied = prop[t.prop].applied + 1
    BY <1>1, OnlyItsCommit DEF Commits
  <2>2. t \in Transactions /\ TransactionOk(t) /\ schema \in Schemas
    BY <1>1, <2>1 DEF FilingsInv, FilingsForm, TransactionsInv, InReview, Commit
  <2>3. prop[t.prop].applied \in Nat
    BY <1>1, <2>1, <2>2 DEF FilingsInv, FilingsForm, Filings, Transactions
  <2>4. schema' = Result(t.steps, t.art)
    BY <2>1, <2>3 DEF Commit, Rollback
  <2>5. \A s \in t.steps : s.change \in reviewed
    BY <2>1, <2>2 DEF TransactionOk, Filed, Changes
  <2>6. \A s \in t.steps : StepOf(s.change, t.art)
    BY <2>2 DEF TransactionOk
  <2> HIDE DEF reviewed, t
  <2>7. ASSUME NEW k \in TypeKeys, FieldOf(schema', k) # FieldOf(schema, k)
        PROVE  \E c \in reviewed : c.key = k \/ c.op \in {"create_type", "delete_type"}
    <3>1. CASE Does(t.steps, "create_type") \/ Does(t.steps, "delete_type")
      BY <2>5, <3>1 DEF Does
    <3>2. CASE ~Does(t.steps, "create_type") /\ ~Does(t.steps, "delete_type")
      <4>1. schema.type # NoType
        BY <2>2, <2>4, <2>6, <2>7, <3>2, ResultForm DEF FieldOf
      <4>2. schema'.type[k] # schema.type[k]
        BY <2>2, <2>4, <2>6, <2>7, <3>2, <4>1, ResultForm DEF FieldOf
      <4>3. k \in Touched(t.steps, "delete_field") \cup Touched(t.steps, "add_field")
                    \cup Touched(t.steps, "update_field")
        BY <2>2, <2>4, <2>6, <3>2, <4>1, <4>2, ResultForm
      <4> QED BY <2>5, <4>3 DEF Touched
    <3> QED BY <3>1, <3>2
  <2>8. ASSUME schema'.comp # schema.comp
        PROVE  \E c \in reviewed : c.op \in {"create_component", "delete_component"}
    <3>1. Does(t.steps, "create_component") \/ Does(t.steps, "delete_component")
      BY <2>4, <2>8 DEF Result
    <3> QED BY <2>5, <3>1 DEF Does
  <2> QED BY <2>7, <2>8 DEF reviewed, t
<1> QED BY <1>1, FilingsInvariant, PTL DEF ProposalSpec, OnlyWhatWasReviewed
(* The whole difference, executed, reaches the artifact.                   *)
LEMMA Reaches ==
  ASSUME schema \in Schemas, NEW t \in Transactions, TransactionOk(t), t.full, ~t.moved
  PROVE  LET new == Result(t.steps, t.art) IN
         \A c \in DiffSchemas(new, t.art) : IsDestructive(c)
<1> DEFINE art == t.art
           new == Result(t.steps, t.art)
<1>1. art \in Schemas /\ \A s \in t.steps : StepOf(s.change, art)
  BY Submitted DEF Transactions, TransactionOk
<1>2. new \in Schemas
  BY <1>1, ResultForm
<1>3. \A s \in t.steps : Means(s.change, schema, art)
  BY <1>1, ChangesMean DEF TransactionOk, Whole, Changes
<1>4. \A c \in DiffSchemas(schema, art) : ~IsDestructive(c) => \E s \in t.steps : s.change = c
  BY DEF TransactionOk, Whole, Changes
<1>5. art.comp => new.comp
  <2> SUFFICES ASSUME art.comp PROVE new.comp
    OBVIOUS
  <2>1. ~Does(t.steps, "delete_component")
    BY <1>3 DEF Does, Means
  <2>2. ~schema.comp => Does(t.steps, "create_component")
    BY <1>1, <1>4, ChangesFound DEF Does
  <2> QED BY <2>1, <2>2 DEF Result
<1>6. ASSUME art.type # NoType
      PROVE  new.type # NoType /\ \A k \in FieldsOf(art.type) : new.type[k] = art.type[k]
  <2>1. ~Does(t.steps, "delete_type")
    BY <1>3, <1>6 DEF Does, Means
  <2>2. CASE schema.type = NoType
    <3>1. Does(t.steps, "create_type")
      BY <1>1, <1>4, <1>6, <2>2, ChangesFound DEF Does
    <3> QED BY <1>1, <1>6, <2>1, <3>1, ResultForm
  <2>3. CASE schema.type # NoType
    <3>1. ~Does(t.steps, "create_type")
      BY <1>3, <2>3 DEF Does, Means
    <3>2. /\ new.type # NoType
          /\ \A k \in TypeKeys : new.type[k] =
               IF k \in Touched(t.steps, "delete_field") THEN NotDefined
               ELSE IF k \in Touched(t.steps, "add_field") \cup Touched(t.steps, "update_field")
               THEN art.type[k] ELSE schema.type[k]
      BY <1>1, <2>1, <2>3, <3>1, ResultForm
    <3>3. ASSUME NEW k \in FieldsOf(art.type) PROVE new.type[k] = art.type[k]
      <4>1. k \in TypeKeys
        BY DEF FieldsOf
      <4>2. k \notin Touched(t.steps, "delete_field")
        BY <1>3, <3>3 DEF Touched, Means
      <4>3. k \notin Touched(t.steps, "add_field") \cup Touched(t.steps, "update_field")
              => schema.type[k] = art.type[k]
        <5> SUFFICES ASSUME schema.type[k] # art.type[k]
                     PROVE  k \in Touched(t.steps, "add_field") \cup Touched(t.steps, "update_field")
          OBVIOUS
        <5>1. PICK c \in DiffSchemas(schema, art) :
                c.op \in {"add_field", "update_field"} /\ c.key = k /\ ~IsDestructive(c)
          BY <1>1, <1>6, <2>3, ChangesFound
        <5>2. PICK s \in t.steps : s.change = c
          BY <1>4, <5>1
        <5> QED BY <5>1, <5>2 DEF Touched
      <4> HIDE DEF new, art
      <4> QED BY <3>2, <4>1, <4>2, <4>3
    <3> QED BY <3>2, <3>3
  <2> QED BY <2>2, <2>3
<1> HIDE DEF new, art
<1>7. ASSUME NEW c \in DiffSchemas(new, art) PROVE IsDestructive(c)
  <2>1. Means(c, new, art)
    BY <1>1, <1>2, ChangesMean
  <2>2. c.op # "create_component" /\ c.op # "create_type"
    BY <1>5, <1>6, <2>1 DEF Means
  <2>3. ASSUME c.op \in {"add_field", "update_field"} PROVE FALSE
    <3>1. c.key \in FieldsOf(art.type) /\ (c.key \in FieldsOf(new.type) => new.type[c.key] # art.type[c.key])
      BY <2>1, <2>3 DEF Means
    <3>2. art.type # NoType /\ art.type[c.key] # NotDefined /\ c.key \in TypeKeys
      BY <3>1 DEF FieldsOf, Has
    <3>3. new.type # NoType /\ new.type[c.key] = art.type[c.key]
      BY <1>6, <3>1, <3>2
    <3>4. c.key \in FieldsOf(new.type)
      BY <3>2, <3>3 DEF FieldsOf, Has
    <3> QED BY <3>1, <3>3, <3>4
  <2> QED BY <2>1, <2>2, <2>3 DEF Means, ChangeOps, IsDestructive
<1> QED BY <1>7 DEF new, art

(* A plan executed whole leaves the artifact and the schema differing only *)
(* by deletions that were not asked for, unless the schema moved under its *)
(* transaction (schema_apply.go execute).                                  *)
THEOREM WholePlansReachTheirArtifact == ProposalSpec => AppliedInFull
<1> DEFINE Full ==
      \A r \in Reviews :
        Executed(r) /\ review[r].full /\ review'[r].stage = "idle"
          /\ schema' # schema /\ ~review[r].moved =>
        \A c \in DiffSchemas(schema', review[r].art) : IsDestructive(c)
<1>1. ASSUME FilingsInv, [ProposalNext]_proposalVars PROVE [Full]_proposalVars
  <2> SUFFICES ASSUME ProposalNext, NEW r \in Reviews, Executed(r), review[r].full,
                      review'[r].stage = "idle", schema' # schema, ~review[r].moved
               PROVE  \A c \in DiffSchemas(schema', review[r].art) : IsDestructive(c)
    BY <1>1
  <2>1. Commit(r)
    BY <1>1, OnlyItsCommit
  <2>2. schema' = Result(review[r].steps, review[r].art)
    BY <2>1 DEF Commit, Rollback
  <2>3. review[r] \in Transactions /\ TransactionOk(review[r]) /\ schema \in Schemas
    BY <1>1, <2>1 DEF FilingsInv, FilingsForm, TransactionsInv, InReview, Commit
  <2> QED BY <2>2, <2>3, Reaches
<1> QED BY <1>1, FilingsInvariant, PTL DEF ProposalSpec, AppliedInFull

=============================================================================
