--------------------------- MODULE SchemaProposals --------------------------
(***************************************************************************)
(* A schema artifact is compared with the live schema (DiffSchemas), each  *)
(* step of the difference is checked against the entries (planScoped), and *)
(* the steps are executed in one transaction: at once by ApplySchema, or   *)
(* later, from a proposal an agent filed, by whoever approves it.          *)
(*                                                                         *)
(* The transaction reads what others have committed, and reads the fields  *)
(* on a connection of its own pool: it never sees the field rows it has    *)
(* itself written.  One content type and one component stand for all.      *)
(***************************************************************************)
EXTENDS Integers, FiniteSets

CONSTANTS
  TypeKeys,  \* field keys of the type
  Rows,      \* entries of the type
  Artifacts, \* the artifacts submitted
  Prunes,    \* whether deletions are asked for
  Proposals, \* proposal ids
  Reviews,   \* requests that apply, approve or reject
  NotDefined, \* the key is not defined
  NoType,    \* the type is not defined
  Direct     \* stands for the proposal of an ApplySchema

(* A field is text, or embeds the component.                               *)
FieldDef == [kind : {"text", "component"}, required : BOOLEAN]
Schemas == [type : {NoType} \cup [TypeKeys -> FieldDef \cup {NotDefined}], comp : BOOLEAN]

ASSUME ProposalAssumption ==
  /\ IsFiniteSet(TypeKeys) /\ IsFiniteSet(Rows)
  /\ Artifacts \subseteq Schemas /\ Prunes \subseteq BOOLEAN
  /\ Direct \notin Proposals
  /\ NotDefined \notin FieldDef
  /\ NoType \notin [TypeKeys -> FieldDef \cup {NotDefined}]

VARIABLES
  schema, \* the committed schema
  docs,   \* the keys each entry holds
  prop,   \* schema_proposals
  review, \* the open transactions
  raced   \* history: entries written while one was open

proposalVars == <<schema, docs, prop, review, raced>>

-----------------------------------------------------------------------------
(* DiffSchemas.                                                            *)

Has(t, k) == t # NoType /\ t[k] # NotDefined
FieldsOf(t) == {k \in TypeKeys : Has(t, k)}
Embeds(t) == {k \in FieldsOf(t) : t[k].kind = "component"}

Change(op, k, grade) == [op |-> op, key |-> k, grade |-> grade]

AddFieldChange(k, f, to) ==
  Change("add_field", k,
         IF f.kind = "component" /\ ~to.comp THEN "refused"
         ELSE IF f.required THEN "guarded" ELSE "additive")

(* The immutable properties are refused, and nothing else is said then.    *)
DiffField(k, from, to) ==
  IF from.kind # to.kind THEN {Change("update_field", k, "refused")}
  ELSE IF to.required /\ ~from.required THEN {Change("update_field", k, "guarded")}
  ELSE IF from.required /\ ~to.required THEN {Change("update_field", k, "additive")}
  ELSE {}

DiffType(from, to) ==
  {AddFieldChange(k, to.type[k], to) : k \in FieldsOf(to.type) \ FieldsOf(from.type)}
  \cup (UNION {DiffField(k, from.type[k], to.type[k]) :
                 k \in FieldsOf(to.type) \cap FieldsOf(from.type)})
  \cup {Change("delete_field", k, "guarded") : k \in FieldsOf(from.type) \ FieldsOf(to.type)}

CreateTypeChanges(to) ==
  {Change("create_type", "", "additive")}
  \cup {c \in {AddFieldChange(k, to.type[k], to) : k \in FieldsOf(to.type)} :
          c.grade = "refused"}

DiffTypes(from, to) ==
  IF to.type = NoType
  THEN IF from.type = NoType THEN {} ELSE {Change("delete_type", "", "guarded")}
  ELSE IF from.type = NoType THEN CreateTypeChanges(to) ELSE DiffType(from, to)

DiffComponents(from, to) ==
  IF to.comp /\ ~from.comp THEN {Change("create_component", "", "additive")}
  ELSE IF from.comp /\ ~to.comp THEN {Change("delete_component", "", "guarded")}
  ELSE {}

DiffSchemas(from, to) == DiffComponents(from, to) \cup DiffTypes(from, to)

-----------------------------------------------------------------------------
(* planScoped.                                                             *)

NoEntry == [live |-> FALSE, keys |-> {}]
Live(e) == docs[e].live
(* Mutant: an entry that holds nothing is not counted.                     *)
CountMissingOfSome(k) ==
  Cardinality({e \in Rows : docs[e].keys # {} /\ k \notin docs[e].keys})
CountMissing(k) == Cardinality({e \in Rows : Live(e) /\ k \notin docs[e].keys})
CountHolding(k) == Cardinality({e \in Rows : Live(e) /\ k \in docs[e].keys})
CountEntries == Cardinality({e \in Rows : Live(e)})

IsDestructive(c) == c.op \in {"delete_field", "delete_type", "delete_component"}

(* A reference that the same artifact removes does not hold a component.   *)
ArtifactKeepsReference(art, k) == Has(art.type, k)

ComponentBlockingCount(art) ==
  Cardinality({k \in Embeds(schema.type) : ArtifactKeepsReference(art, k)})

BlockingCount(c, art) ==
  CASE c.op \in {"add_field", "update_field"} -> CountMissing(c.key)
    [] c.op = "delete_field"     -> CountHolding(c.key)
    [] c.op = "delete_type"      -> CountEntries
    [] c.op = "delete_component" -> ComponentBlockingCount(art)
    [] OTHER -> 0

(* Each step with what becomes of it: only a step to "apply" is executed.  *)
PlanStep(c, art, prune) ==
  LET n == IF c.grade = "guarded" THEN BlockingCount(c, art) ELSE 0 IN
  [change |-> c,
   entries |-> IF IsDestructive(c) /\ ~prune THEN 0 ELSE n,
   fate |-> IF c.grade = "refused" THEN "refused"
            ELSE IF IsDestructive(c) /\ ~prune THEN "skipped"
            ELSE IF n > 0 THEN "blocked" ELSE "apply"]

PlanScoped(art, prune) == {PlanStep(c, art, prune) : c \in DiffSchemas(schema, art)}

Applicable(plan) == {s \in plan : s.fate = "apply"}
CanApply(plan) == \A s \in plan : s.fate \notin {"refused", "blocked"}
Changes(steps) == {s.change : s \in steps}
Touched(steps, op) == {s.change.key : s \in {x \in steps : x.change.op = op}}
Does(steps, op) == \E s \in steps : s.change.op = op

-----------------------------------------------------------------------------
(* execute: the verbs, in the transaction.                                 *)

(* Mutant: an update sets what the plan tightened, never what it relaxed.  *)
ResultTightened(steps, art) ==
  [type |-> IF Does(steps, "delete_type") THEN NoType
            ELSE IF Does(steps, "create_type") THEN art.type
            ELSE IF schema.type = NoType THEN NoType
            ELSE [k \in TypeKeys |->
                    IF k \in Touched(steps, "delete_field") THEN NotDefined
                    ELSE IF \/ k \in Touched(steps, "add_field")
                            \/ k \in Touched(steps, "update_field") /\ art.type[k].required
                    THEN art.type[k] ELSE schema.type[k]],
   comp |-> IF Does(steps, "create_component") THEN TRUE
            ELSE IF Does(steps, "delete_component") THEN FALSE ELSE schema.comp]

(* What the transaction leaves, where every verb it runs succeeds.         *)
Result(steps, art) ==
  [type |-> IF Does(steps, "delete_type") THEN NoType
            ELSE IF Does(steps, "create_type") THEN art.type
            ELSE IF schema.type = NoType THEN NoType
            ELSE [k \in TypeKeys |->
                    IF k \in Touched(steps, "delete_field") THEN NotDefined
                    ELSE IF k \in Touched(steps, "add_field") \cup Touched(steps, "update_field")
                    THEN art.type[k] ELSE schema.type[k]],
   comp |-> IF Does(steps, "create_component") THEN TRUE
            ELSE IF Does(steps, "delete_component") THEN FALSE ELSE schema.comp]

(* The component a step names is read in the transaction; the fields of    *)
(* the type as they are committed.                                         *)
ComponentThere(steps) == schema.comp \/ Does(steps, "create_component")

VerbSucceeds(c, steps, art) ==
  CASE c.op = "create_component" -> ~schema.comp
    [] c.op = "create_type" ->
         /\ schema.type = NoType /\ FieldsOf(art.type) # {}
         /\ Embeds(art.type) # {} => ComponentThere(steps)
    [] c.op = "add_field" ->
         /\ schema.type # NoType /\ ~Has(schema.type, c.key)
         /\ art.type[c.key].kind = "component" => ComponentThere(steps)
    [] c.op = "update_field" ->
         /\ Has(schema.type, c.key)
         /\ art.type[c.key].required /\ ~schema.type[c.key].required
              => CountMissing(c.key) = 0
    [] c.op = "delete_field" ->
         Has(schema.type, c.key) /\ Cardinality(FieldsOf(schema.type)) # 1
    [] c.op = "delete_type" -> schema.type # NoType /\ CountEntries = 0
    [] c.op = "delete_component" -> schema.comp /\ Embeds(Result(steps, art).type) = {}

Executes(steps, art) == \A s \in steps : VerbSucceeds(s.change, steps, art)

-----------------------------------------------------------------------------
(* Rows the transaction holds until it ends: every field verb touches the  *)
(* row of its type, and a reference share-locks its component.             *)
Locks(steps, art) ==
  (IF \E s \in steps : s.change.op \notin {"create_component", "delete_component"}
   THEN {"type"} ELSE {})
  \cup (IF \/ Does(steps, "create_component") \/ Does(steps, "delete_component")
           \/ art.type # NoType /\ Embeds(art.type) # {}
        THEN {"comp"} ELSE {})

Executed(r) == review[r].stage = "executed"
HeldBy(r) == IF Executed(r) THEN Locks(review[r].steps, review[r].art) ELSE {}
Held == UNION {HeldBy(r) : r \in Reviews}
InReview(r) == review[r].stage # "idle"

NoReview(s) == [stage |-> "idle", prop |-> Direct, art |-> s, steps |-> {},
                moved |-> FALSE, full |-> FALSE, stripped |-> {}]

(* Whoever is planning or executing holds a plan of an older schema.       *)
SchemaMoved == [r \in Reviews |-> [review[r] EXCEPT !.moved = InReview(r)]]

BlankSchema == [type |-> NoType, comp |-> FALSE]
NoProposal == [status |-> "none", art |-> BlankSchema, prune |-> FALSE, plan |-> {},
               due |-> FALSE, applied |-> 0]

ProposalInit ==
  /\ schema \in Artifacts \cup {BlankSchema}
  /\ Embeds(schema.type) # {} => schema.comp
  /\ schema.type # NoType => FieldsOf(schema.type) # {}
  /\ docs = [e \in Rows |-> NoEntry]
  /\ prop = [p \in Proposals |-> NoProposal]
  /\ review = [r \in Reviews |-> NoReview(BlankSchema)]
  /\ raced = {}

-----------------------------------------------------------------------------
(* Proposals.                                                              *)

(* The plan an approver would get is stored with the artifact.             *)
ProposeSchema(p, art, prune) ==
  /\ prop[p].status = "none"
  /\ prop' = [prop EXCEPT ![p] = [NoProposal EXCEPT
                !.status = "pending", !.art = art, !.prune = prune,
                !.plan = PlanScoped(art, prune)]]
  /\ UNCHANGED <<schema, docs, review, raced>>

(* Mutant: the status the reader is shown is the one stored.               *)
ExpireStored(p) ==
  /\ prop[p].status = "pending" /\ ~prop[p].due
  /\ prop' = [prop EXCEPT ![p].due = TRUE, ![p].status = "expired"]
  /\ UNCHANGED <<schema, docs, review, raced>>

(* proposalTTL passes.                                                     *)
Expire(p) ==
  /\ prop[p].status = "pending" /\ ~prop[p].due
  /\ prop' = [prop EXCEPT ![p].due = TRUE]
  /\ UNCHANGED <<schema, docs, review, raced>>

Expired(p) == prop[p].status = "pending" /\ prop[p].due

(* Mutant: what was reviewed is not compared with what would be done.      *)
AnyPlan(p) == TRUE

PlanMatches(p) == prop[p].plan = PlanScoped(prop[p].art, prop[p].prune)

(* All the steps, where nothing stands in the way, or some that can be.    *)
ResolveStepSelection(plan, chosen) ==
  \/ CanApply(plan) /\ chosen = Applicable(plan)
  \/ chosen # {} /\ chosen \subseteq Applicable(plan)

Begin(r, p, art, plan, chosen) ==
  /\ ~InReview(r)
  /\ ResolveStepSelection(plan, chosen)
  /\ review' = [review EXCEPT ![r] =
       [stage |-> "planned", prop |-> p, art |-> art, steps |-> chosen,
        moved |-> FALSE, full |-> CanApply(plan) /\ chosen = Applicable(plan),
        stripped |-> {}]]
  /\ UNCHANGED <<schema, docs, prop, raced>>

ApproveSchemaProposal(r, p, chosen) ==
  /\ prop[p].status = "pending" /\ ~Expired(p)
  /\ PlanMatches(p)
  /\ Begin(r, p, prop[p].art, PlanScoped(prop[p].art, prop[p].prune), chosen)

ApplySchema(r, art, prune) ==
  LET plan == PlanScoped(art, prune) IN
  CanApply(plan) /\ Begin(r, Direct, art, plan, Applicable(plan))

Rollback(r) ==
  /\ review' = [review EXCEPT ![r] = NoReview(BlankSchema)]
  /\ UNCHANGED <<schema, docs, prop, raced>>

Execute(r) ==
  LET t == review[r] IN
  /\ t.stage = "planned"
  /\ Locks(t.steps, t.art) \cap Held = {}
  /\ IF ~Executes(t.steps, t.art) THEN Rollback(r)
     ELSE /\ review' = [review EXCEPT ![r].stage = "executed",
               ![r].stripped = {e \in Rows : Live(e) /\
                                  docs[e].keys \cap Touched(t.steps, "delete_field") # {}}]
          /\ UNCHANGED <<schema, docs, prop, raced>>

(* Mutant: the decision overwrites whatever was decided.                   *)
NeverDecided(p) == TRUE

(* DecideSchemaProposal matches a row only while it is pending.            *)
StillPending(p) == p = Direct \/ prop[p].status = "pending"

(* The decision is part of the transaction that applies the steps.         *)
Commit(r) ==
  LET t == review[r] IN
  /\ t.stage = "executed"
  /\ IF ~StillPending(t.prop) THEN Rollback(r)
     ELSE /\ schema' = Result(t.steps, t.art)
          /\ docs' = [e \in Rows |->
               IF Does(t.steps, "delete_type") THEN NoEntry
               ELSE IF e \in t.stripped
               THEN [docs[e] EXCEPT !.keys = @ \ Touched(t.steps, "delete_field")]
               ELSE docs[e]]
          /\ prop' = IF t.prop = Direct THEN prop
                     ELSE [prop EXCEPT ![t.prop].status = "approved",
                                       ![t.prop].applied = @ + 1]
          /\ review' = [(IF schema' = schema THEN review ELSE SchemaMoved)
                          EXCEPT ![r] = NoReview(BlankSchema)]
          /\ UNCHANGED raced

RejectSchemaProposal(p) ==
  /\ prop[p].status = "pending" /\ ~Expired(p)
  /\ prop' = [prop EXCEPT ![p].status = "rejected"]
  /\ UNCHANGED <<schema, docs, review, raced>>

-----------------------------------------------------------------------------
(* What others do meanwhile, each in a transaction of its own.             *)

SetField(k, f) ==
  /\ "type" \notin Held /\ schema.type # NoType
  /\ schema' = [schema EXCEPT !.type[k] = f]
  /\ review' = SchemaMoved
  /\ UNCHANGED <<docs, prop, raced>>

AddOneField(k) ==
  ~Has(schema.type, k) /\ SetField(k, [kind |-> "text", required |-> FALSE])

RequireField(k) ==
  /\ Has(schema.type, k) /\ ~schema.type[k].required /\ CountMissing(k) = 0
  /\ SetField(k, [schema.type[k] EXCEPT !.required = TRUE])

RelaxField(k) ==
  Has(schema.type, k) /\ schema.type[k].required
    /\ SetField(k, [schema.type[k] EXCEPT !.required = FALSE])

DeleteOneField(k) ==
  /\ Has(schema.type, k) /\ Cardinality(FieldsOf(schema.type)) # 1
  /\ CountHolding(k) = 0
  /\ SetField(k, NotDefined)

WriteRow(e, held) ==
  /\ schema.type # NoType
  /\ \A r \in Reviews : e \notin review[r].stripped
  /\ held \subseteq FieldsOf(schema.type)
  /\ \A k \in FieldsOf(schema.type) : schema.type[k].required => k \in held
  /\ docs' = [docs EXCEPT ![e] = [live |-> TRUE, keys |-> held]]
  /\ raced' = IF \E r \in Reviews : InReview(r) THEN raced \cup {e} ELSE raced \ {e}
  /\ UNCHANGED <<schema, prop, review>>

OtherStep ==
  \/ \E k \in TypeKeys : AddOneField(k) \/ RequireField(k) \/ RelaxField(k) \/ DeleteOneField(k)
  \/ \E e \in Rows, held \in SUBSET TypeKeys : WriteRow(e, held)

ReviewStep(r) ==
  \/ \E p \in Proposals :
       prop[p].status = "pending"
         /\ \E chosen \in SUBSET PlanScoped(prop[p].art, prop[p].prune) :
              ApproveSchemaProposal(r, p, chosen)
  \/ \E art \in Artifacts, prune \in Prunes : ApplySchema(r, art, prune)
  \/ Execute(r)
  \/ Commit(r)

ProposalStep(p) ==
  \/ \E art \in Artifacts, prune \in Prunes : ProposeSchema(p, art, prune)
  \/ Expire(p)
  \/ RejectSchemaProposal(p)

ProposalNext ==
  \/ \E p \in Proposals : ProposalStep(p)
  \/ \E r \in Reviews : ReviewStep(r)
  \/ OtherStep

ProposalSpec == ProposalInit /\ [][ProposalNext]_proposalVars

-----------------------------------------------------------------------------
ChangeOps == {"add_field", "update_field", "delete_field", "create_type", "delete_type",
              "create_component", "delete_component"}
Grades == {"refused", "guarded", "additive"}
Steps == [change : [op : ChangeOps, key : TypeKeys \cup {""}, grade : Grades],
          entries : Nat, fate : {"refused", "skipped", "blocked", "apply"}]

(* Type invariant of the schema, its entries, proposals and transactions.  *)
ProposalTypeOK ==
  /\ schema \in Schemas
  /\ docs \in [Rows -> [live : BOOLEAN, keys : SUBSET TypeKeys]]
  /\ \A p \in Proposals :
       /\ prop[p].status \in {"none", "pending", "approved", "rejected"}
       /\ prop[p].art \in Artifacts \cup {BlankSchema}
       /\ prop[p].plan \subseteq Steps
       /\ prop[p].applied \in Nat
  /\ \A r \in Reviews :
       /\ review[r].stage \in {"idle", "planned", "executed"}
       /\ review[r].prop \in Proposals \cup {Direct}
       /\ review[r].steps \subseteq Steps
       /\ review[r].stripped \subseteq Rows
  /\ raced \subseteq Rows

(* A proposal changes the schema once if it is approved and never if not,  *)
(* however many people decide on it at once.                               *)
AppliedIffApproved ==
  \A p \in Proposals : prop[p].applied = (IF prop[p].status = "approved" THEN 1 ELSE 0)

Commits(r) == Executed(r) /\ review'[r].stage = "idle" /\ review[r].prop # Direct
              /\ prop'[review[r].prop].applied = prop[review[r].prop].applied + 1

FieldOf(s, k) == IF s.type = NoType THEN NotDefined ELSE s.type[k]

(* An approval changes only what the plan its proposer filed said: every   *)
(* field, and the component, that it changes has a step in that plan.      *)
OnlyWhatWasReviewed ==
  [][\A r \in Reviews : Commits(r) =>
       LET reviewed == Changes(Applicable(prop[review[r].prop].plan)) IN
       /\ \A k \in TypeKeys : FieldOf(schema', k) # FieldOf(schema, k) =>
            \E c \in reviewed : c.key = k \/ c.op \in {"create_type", "delete_type"}
       /\ schema'.comp # schema.comp =>
            \E c \in reviewed : c.op \in {"create_component", "delete_component"}]_proposalVars

(* Whole or nothing: where the schema did not move under the transaction,  *)
(* comparing it with the artifact again leaves only the deletions the      *)
(* absence of prune skipped.                                               *)
AppliedInFull ==
  [][\A r \in Reviews :
       Executed(r) /\ review[r].full /\ review'[r].stage = "idle"
         /\ schema' # schema /\ ~review[r].moved =>
       \A c \in DiffSchemas(schema', review[r].art) : IsDestructive(c)]_proposalVars

(* An entry lacks a required field only if it was written while a plan was *)
(* being applied: the plan's counts cover every other.                     *)
EntriesKeepTheirFields ==
  schema.type # NoType => \A e \in Rows :
    Live(e) /\ e \notin raced =>
      \A k \in FieldsOf(schema.type) : schema.type[k].required => k \in docs[e].keys

(* A proposal was executed exactly when it is approved, and no execution takes a
   field from under the entries (schema_proposal.go ApproveSchemaProposal). *)
ProposalsSound == ProposalTypeOK /\ AppliedIffApproved /\ EntriesKeepTheirFields

=============================================================================
