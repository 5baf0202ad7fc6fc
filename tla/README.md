# A formal model of saas-forge

saas-forge is a multi-tenant headless CMS: a Go modular monolith over PostgreSQL, with
edge applications in front of it.  This directory holds TLA+ modules translated from its
source, TLC configurations that model-check them on small instances, and theorems that
TLAPS proves for instances of every size.  `PROJECT.json` maps each definition to the
lines it stands for and lists runs, mutants, hazards, findings and theorems.

Nearly everything that can go wrong in this program goes wrong in the database: the
server keeps almost no state in memory, transactions run at READ COMMITTED, and
correctness rests on row locks, conditional updates, unique keys and on what each
statement's snapshot shows.  The models are therefore written at the grain of
**statements**: a request or a worker is a small program counter, each SQL statement (or
group of statements that nothing can come between) is one action, and locks that outlive
a statement are variables.

## 1  The system's parts

| part | state | operations | what is hard | what makes it correct | module |
|---|---|---|---|---|---|
| outbox (`internal/pkg/outbox`), webhook registry | `integration_outbox` rows; active endpoints | enqueue, reclaim, claim a batch, deliver to every endpoint, settle; register, delete | several replicas, batches that outlive the claim, shutdown in mid-batch, crashes, endpoints that come and go | a done event was heard by everyone it was owed to; retries are bounded; nothing is left behind | `Outbox` |
| entry lifecycle (`content_service.go`, `postgres_repository.go`) | an entry: version, working copy, snapshot, status; publish ledger; events | save, publish, unpublish, delete, bulk rewrites by schema changes | optimistic versions, two counters, events keyed by version | no lost update; the shelf moves only with a recorded release; no event is swallowed | `EntryRelease` |
| scheduler (`scheduler/worker.go`) | `entry_schedules` | file, cancel, claim, execute, go stale, fail, notify | a claim held over a read and a write on another row; deadlock with editors; crash after the effect | only what was approved is released, once; every due schedule settles; the requester is told the truth | `EntryRelease` |
| tenant membership (`internal/tenant`) | members, invites | change role, remove, invite, accept, revoke | locking SELECTs over stale snapshots, locks in a varying order | the tenant keeps an owner; owners are made by owners; nobody joins uninvited | `Membership` |
| unique values (migration 000040) | reservations, the field's flag | every write of an entry; switching the attribute | a statement reads the flag another transaction is changing; undecided keys | reservations follow the entries; no value is held twice | `UniqueValues` |
| schema changes (`schema_mutation.go`) | a type's fields and its stored entries | add, update, rename, delete a field; delete the type | counts and change are separate transactions; a PATCH writes back columns it read earlier | stored documents fit the definition wherever a guard vouched for them | `SchemaChange` |
| schema proposals, artifacts (`schema_proposal.go`, `artifact_apply.go`) | proposals; the schema as a whole | propose, approve in full or in part, reject, expire, apply | the plan is recomputed in the applying transaction, beside other writers | what is applied is what was reviewed; decided once; all or nothing | `SchemaProposals` |
| components, dynamic zones (`component.go`) | components, the fields that use them, items inside entries | create, rename, delete, sub-fields, zone lists | a write goes by a name and referrers read earlier; no foreign key on a zone's list | zones name components that exist, items fit them | `SchemaComponents` |
| media assets, variants (`media.go`, `mediatransform`) | assets, variant rows, objects in a store | reserve, complete, enqueue, render, delete, sweep | two stores without a common transaction; retries; deletion during a rendering | no row without bytes; claims exclude; attempts bounded; renderings settle | `MediaVariants` |
| accounts, sessions, agent credentials (`internal/user`, `internal/iam`) | users, refresh tokens, credentials, events | register, login, refresh, switch tenant, profile, delete; issue, revoke | lookup and revocation are separate; events after the commit | a token is redeemed once; a deletion is announced; versions order the events | `Accounts` |
| requests on entries: idempotent creates, links, review decisions | idempotency records, link tables, decisions | create under a key, update and its links, publish, delete, send back | three transactions for one update; check-then-insert | one entry per key; replays tell the truth; links follow the payload | `EntryRequests` |
| authorization, roles, permission lists | platform roles, tokens, lists of a type | grant, take, sign in, PATCH of the lists | two authorizers and an SQL clause must agree; stale tokens | they agree; a refusal names who may; confinement hides nothing | `Access` |
| revision history, activity log | revisions, releases, lines | save, release, compare, restore, attribute | a restore compares an older read; a line is written after the write, or lost | the memory agrees with the entry; a restore does what was shown | `EntryHistory` |
| reads with relations, queue, search, preview (`populate.go`) | entries and who may see them | get, list, expand | a walk level by level beside writers; cycles; budgets | a read shows what its caller could be served, whole | `EntryReads` |
| delivery listing (`cursor.go`) | a cursor | next page | entries move between pages | every settled entry is listed exactly once | `Paging` |
| delivery usage counter | counts in memory, daily buckets | record, drain, flush | failed and ambiguous flushes, crashes | no read counted twice, lost only with a process | `DeliveryUsage` |
| migration ledger (`cmd/migrate`) | `schema_migrations` | verify, up, adopt | several processes and builds; death between migrations | each migration once, in order; the ledger tells the truth | `MigrateLedger` |
| webhook consumer example | log of deliveries, mirrored copy | receive, refresh, drop | repeated, late and reordered deliveries | one act per delivery; the mirror follows the edge | `WebhookMirror` |

How they meet.  A write of an entry runs `withTenant`: update the row, refresh its unique
values, append a revision, mark schedules stale or superseded, insert an outbox row, commit;
links and the activity line come in transactions of their own.  The scheduler's worker calls
the same write (`SetEntryPublishState`).  The outbox worker reads what those transactions
committed, and the endpoints registered by then; the consumer example is what one of those
endpoints may do with it.  Schema changes rewrite the entries they count, and every read
and write of an entry goes by the definition it read.  Membership and roles decide who may
call what.  All workers of a process share one context (`cmd/server/main.go`), cancelled at
shutdown; several replicas of the process may run.

Not modelled: rate limits (one mutex, nothing interleaves), notifications other than those
of schedules and dead events (best-effort inserts), platform operations (single statements
on tables of their own), process wiring, shared stateless packages, the edge applications,
the SDK, templates and deployment files.  `PROJECT.json` gives the reason for each.

## 2  Modules

Three modules state what a part promises, without its machinery: `EventDelivery` (delivery,
implemented by `Outbox`), `ScheduledRelease` (release, implemented by `EntryRelease`) and `Team`
(the roster of a tenant, implemented by `Membership`).  `Outbox`, `EntryRelease`, `Membership`,
`UniqueValues`, `SchemaChange`, `SchemaProposals`, `SchemaComponents`, `MediaVariants`,
`Accounts`, `Access`, `EntryRequests`, `EntryHistory`, `EntryReads`, `Paging`,
`DeliveryUsage`, `MigrateLedger` and `WebhookMirror` model one part each.  An `MC` module
instantiates one or several of them for TLC: `MCSchema` puts schema calls beside
proposals, `MCOutbox` reads beside deliveries, and `MCServices` the small components beside
one another.  Eight modules hold the
proofs: `OutboxProofs`, `EntryReleaseProofs`, `MembershipProofs`, `UniqueValuesProofs`,
`SchemaProofs`, `ContentProofs` (components, media and reads), `AccountsProofs` and
`ServicesProofs` (`Access`, `EntryRequests`, `MigrateLedger`, `WebhookMirror`,
`EntryHistory`, `Paging`, `DeliveryUsage`).

Every module has one type invariant.  The invariant a run checks is the conjunction of
named parts (`RowsSound`, `SchedulesSound`, `TeamSound`, ...), each of which is stated and
commented on its own.  Definitions whose comment begins with "Mutant" are defective
variants of the definition below them; no specification uses them.  With the variant put in
place of the original, TLC reports the property violated, which shows that each property
can fail.

**Outbox.**  A row is numbered in `created_at` order.  `phase[w]` follows `Worker.tick`:
`poll` (ReclaimStale), `claim` (ClaimPending with SKIP LOCKED), `batch`, `send` (the fan-out
over the endpoints read at that moment), `fail`, `notify`.  There is no clock: `Age` makes
a claim older than the threshold, also when its worker is alive.  `heard`, `owed`,
`refused`, `reclaimed` and `notices` are history variables.  An endpoint may have processed
an event although the worker saw an error, and MarkDone may commit although the worker saw
an error.  `EventDelivery` says what writers and subscribers are promised: an event is open,
done or dead; done only when everyone owed has heard it, dead only when its tries are spent,
heard only by those it is for.  `KeepsPromise` maps `pending` and `processing` to open and
forgets claims, batches and workers.

**EntryRelease.**  `entry` is the row with its two versions, working copy and snapshot;
`sched` the schedules.  An editor reads the row, takes its lock in the conditional UPDATE
(`LockForWrite`, or `WriteConflict`), selects and locks the schedules it must close, and
commits with its revision and event.  A sweeper claims one due schedule, reads the entry in
the same transaction, and finishes it as stale, executes it, or fails; a failure is marked
in a second transaction after the first rolled back.  `RewriteEntries` rewrites snapshots
in bulk without being version-checked.  `ScheduledRelease` has no versions, locks, transactions
or replicas: every request and every run of a schedule takes effect in one step or not at all, a
scheduled publish only while nothing has touched what was approved.  `TakesEffectAtOnce` maps the row's
working copy and snapshot, the schedules' states and the notices to it; a schedule is *intact*
while the version it was pinned at is current (`Intact`), and so versions disappear from the promise.

**Membership.**  A request holds a stage, its caller, its target, and the owners it is
locking one after another in `user_id` order.  Each lock re-reads the row, as READ COMMITTED
does after a wait; the set comes from the statement's snapshot.  `Team` has no stages, locks
or snapshots: a request *wishes*, a manager's say is checked when it is made and, unless an owner made it,
once more, and each change takes effect in one step, under the rules as they stand in that step.
`ChangesAtOnce` maps the members and invites as they are, and a request to its wish (`WishOf`).  What the
code leaves to chance is stated there in the open: the say of a caller may be out of date at the
commit, the count of owners and the state of an invite may not.

**UniqueValues.**  A writer's transaction is: the entry's row, the pre-check, DELETE of its
reservations, INSERT of the new ones, the foreign keys, commit; a PATCH's is the same over
all entries, after a count in a transaction of its own.  Uncommitted rows are private, but
the primary key waits for them.  `crossed` remembers entries whose last write overlapped a
PATCH: of these the code guarantees nothing, and of all others the properties say what the
reservations must be.

**SchemaChange.**  A call reads the type, counts the entries its change would break, and
writes, in three transactions; a writer reads the type, composes and validates a document,
and writes it.  `unvouched` remembers the copies that were written beside a call, which no
count has seen.

**SchemaProposals.**  A schema is one type and one component; comparing two of them
(`DiffSchemas`) yields a set of changes, ordered by the phase in which they run.  A review
recomputes the plan inside its transaction, compares it with what was filed (`PlanMatches`),
executes step by step under row locks, and commits or rolls back.  `moved` and `raced`
remember who else wrote meanwhile.

**SchemaComponents.**  As `SchemaChange`, for a component that a field embeds by id or lists
by name.  A deletion is followed statement by statement where that matters: its transaction
asks the zones again (`AskZonesAgain`, a SELECT that locks nothing), then deletes
(`DeleteComponentRow`), and a zone may be written in between.  `torn` remembers what a call
that was overtaken has touched; a deletion counts as overtaken from its second look on.  The
type's read and the transactions of the other calls (renaming a component or a sub-field,
deleting a sub-field, changing a zone) are one step each, although they are several
statements: whoever commits between two of them is taken to have come before the first.  The
call is overtaken either way, and of what an overtaken call has written the properties say nothing.

**MediaVariants.**  One asset, its rows and the object store, which no transaction covers.
A claim is a row lock that the worker holds while it renders; a deletion selects keys,
deletes rows and then objects.  `late` remembers a deletion whose references were counted
before an entry came to name the asset: that entry loses it.

**Accounts.**  One account: its row with `status_version`, memberships, tokens in a row of
inheritance, events in commit order.  `twice` remembers tokens that two requests found live.

**EntryRequests, Access, EntryHistory, EntryReads, Paging, DeliveryUsage, MigrateLedger,
WebhookMirror.**  Each follows its file statement by statement; the head comment of each
module says what a payload, a list, a page or a build is abstracted to.

## 3  Runs

| run | bounds | shows |
|---|---|---|
| `outbox` | scenes: a content event with two endpoints, or a user event beside one without handler, with two replicas, one fault, budget 2; or a read of two articles and a profile in two worlds, by five callers along three roads for six sets of paths, with one write beside it | at-least-once delivery, retry budget, exclusive claims, true dead-letter notices, the delivery promise; every committed event settles; what is read could be served, is named by what stands above it, and is whole; every road agrees with GET |
| `release` | scenes: two editors and one schedule, or one editor and two; two replicas, two payloads, three writes, one fault | what is released, recorded and told; unique event keys; no lost update; the shelf follows the ledger; every request and schedule takes effect at once or not at all; every due schedule settles |
| `release_counter` (violated) | one editor, five writes | finding 1 |
| `members` | scenes: three members and two requests, or two users, three requests and an invite | an owner remains, counted owners are locked, owners are made by owners, nobody joins uninvited, every change is valid in the step that commits it, every request ends |
| `unique_ledger` | two entries, two values, two writers, one PATCH at a time; `Bounded` | types; reservations are derived; values are unique |
| `schema` | focus `calls`: two calls, one writer, two keys, one entry; focus `artifacts`: two reviews, one proposal, artifacts over two keys and a component; `Shallow` | documents fit; a PATCH changes what it names; no entry goes unseen; a proposal is applied once or not at all, as reviewed, in full |
| `schema_components` | two components, names and calls, one writer; `Calm` | zones name components unless written in a deletion's gap, items fit, no value is lost |
| `media` | one asset, one preset, two replicas, two requests, one fault | bytes behind every row, exclusive claims, references survive, renderings settle |
| `media_keys` (violated) | one replica, one request | finding 2 |
| `accounts` | one account, two requests, one agent, three tokens, one fault; `Focus` | sessions, rotation, profile, announcements |
| `services` | focus: one of seven components at a time; `Bounded` | migrations, requests, counts, mirror, pages, lists, history and restores |
| `reads_unexpanded` (violated) | two articles and a profile | finding 3 |

A *scene* or a *focus* is a variable of the MC module chosen in the initial state.  It
keeps out the arrival of a request, never a step of one under way, so that one run covers
several small worlds without their product.  State constraints (`Bounded`, `Shallow`, `Calm`, `Focus`)
bound the same way for counts of simultaneous requests or histories: TLC checks the states
at the border and does not go beyond them.  Only runs without liveness properties have one.
In `outbox` the workers have nothing to deliver where a reader reads, so the fairness assumed
of them promises nothing there; a decision on an earlier version of an entry is among the
initial states only where all three entries are published (`SendBack` makes the others).

Why the bounds are enough to be interesting: each hazard is a race of two actors over one
or two rows, with at most one more actor who changes what they read.  Two replicas, two
editors or three requests give every pairwise order and a third party; one fault is enough for a
crash at any statement.  Bounded counters (`MaxWrites`, `MaxFaults`, `N`, `MaxSchedules`,
...) are guards of the steps that spend them and never of a step that the system must be
able to take.  `CHECK_DEADLOCK FALSE` stands where a bounded supply of requests lets the
system come to rest; `Outbox` and `UniqueValues` always have a step and are checked for deadlock.

Fairness.  `EveryEventSettles` assumes that a worker's next step is taken (its ticker keeps firing,
each call has a timeout, a crashed process is restarted) and that claims get old; nothing is
assumed about the outcome of a delivery.  `DueSettles` assumes that statements end, that
the poll loop ticks, that time passes, and that the database resolves deadlocks; nobody is
obliged to file a request.  `CallsEnd` assumes that a goroutine that has started a request
goes on and that the database breaks deadlocks.  `RenderingsSettle` assumes that the worker
ticks, that requests under way go on and that backoffs end.  All of these are weak.  Nothing is
assumed of whether the charge for a failed rendering (`MarkRetry`) meets its rows: it claims them
with `FOR UPDATE SKIP LOCKED` (`media_variant_repository.go:213`), so rows that another
replica has claimed meanwhile are passed by, uncharged, and nobody queues for them.  Two replicas
that keep overtaking each other so could retry for ever; the property names that behaviour
(charges that find rows claimed, infinitely often) and excludes it, as it does endless enqueueing.

What the properties leave open.  Where the code guarantees nothing, a history variable or a
flag says so and the property speaks of everything else.  These cases are reachable in the
models and no property calls them wrong:

| exempt | what may happen there |
|---|---|
| `crossed` (UniqueValues) | a save overlapping the PATCH that makes a field unique leaves its value unreserved |
| `unvouched`, `crossed` (SchemaChange) | an entry written beside a schema call does not fit; two PATCHes of a field undo each other |
| `torn` (SchemaComponents) | a zone names a missing component, an item does not fit |
| `late` (MediaVariants) | an entry names an asset that is deleted |
| charges passed by (MediaVariants) | two replicas render one asset again and again, and no attempt is charged |
| `twice` (Accounts) | two sessions from one token, presented twice at once |
| `stale` (Accounts) | a profile write that read before another write undoes it |
| `disturbed` (EntryRequests) | the links of one update beside the payload of another |
| `mixed` (WebhookMirror) | an older answer overwrites a newer copy |
| `unsure` (EntryHistory) | a byline names an earlier or another writer |
| `twice` (DeliveryUsage) | reads whose statement was reported as failed are counted twice |

## 4  Proofs

Constants are arbitrary in every theorem: any number of replicas, endpoints, editors,
schedules, users, requests, invites, entries, types' fields, components, renditions, tokens,
deliveries, pages and faults.  The assumptions are the named `ASSUME`s of the modules
(`OutboxAssumption`, `ReleaseAssumption`, `SchemaAssumption`, ...).  They say that bounds are
naturals, that markers such as `NoField` or `Nobody` are not values, and that the sets whose
elements the code counts (`Keys`, `SubKeys`, `Presets`, `Rows`, `Ids`, `Nodes`) are finite.  Three have
content: a tenant is provisioned with an owner (`ProvisionedWithOwner`), an agent or service
is never a chief (`HistoryAssumption`), and every build begins with the same first migration
(`MigrateAssumption`).  TLC evaluates all of them on the runs.

Each proof has the same shape: an inductive invariant, which TLC checked on the run's
instance before it was proved; pointwise lemmas that say what an action leaves of each
variable; one lemma per action or per group of actions with the same effect; and the checked
properties as consequences.  `tlapm` proves every leaf; nothing is assumed.

* **Outbox** (`OutboxProofs`).  `IInv` is `TypeOK`, `HandInv` (what a worker holds in each
  phase), `AddressInv` (lists name registered endpoints only), `FanoutInv` (an endpoint that is
  owed the event and has not heard it is still on somebody's list), `BudgetInv` (a claimable row has
  retries left, and each worker about to fail a row can overstep by one), `ClaimInv` (sharing a
  row needs a reclaim) and `NoticeInv`.  `DoneMeansHeard` is not inductive without
  `FanoutInv`: the fan-out reads the endpoints once and marks the row done much later.
  `Refinement` proves `KeepsPromise` from it, step by step: a done mark is an acceptance because of
  `FanoutInv`, a delivery reaches an addressee because of `AddressInv`, a notice is due
  because of `NoticeInv`.
* **EntryRelease** (`EntryReleaseProofs`).  `Consistent` proves `TypeOK`, `LockInv` (who holds
  which lock at which statement), `VersionInv` (a copy that carries the current version is the
  current copy, and a pending publish pinned at the current version was filed for the current
  body) and `FreshInv` (what a transaction compared still holds while it has the lock).  On
  top of it `LedgerInv`, `NoticeInv`, `EventInv` and `PastInv` (no release is newer than the entry)
  are inductive, and the action properties follow: `NoLostUpdate`, and
  `ShelfFollowsLedger`, which needs `PastInv` because a release is identified by its version.
  `ReleaseIsApproved` needs `VersionInv`: versions are compared, bodies are meant.
  `ReleaseRefinement` proves `TakesEffectAtOnce`, one lemma per group of steps (`SaveStep`,
  `DecideStep`, `FireStep`, `StaleDrop`, `TellStep`, ...; the steps that change nothing the promise
  speaks of are `SilentStep`).  The row lock held since the comparison makes an editor's commit the
  step at which its request takes effect (`WritersHold`); that a schedule which runs is still
  intact, and shows the body it was filed for, is `FreshInv` with `VersionInv`; that a notice says what has
  become of its schedule is `NoticeInv`.
* **Membership** (`MembershipProofs`).  `TypeOK`, `RequestInv` (what each stage carries),
  `CountInv`, `CountIsLocked`, `InviteInv`, `SeatInv`.  `AlwaysAnOwner` follows because a
  demotion commits only when two owners have been counted, both are locked until then, and
  one of them stays.  `TeamRefinement` proves `ChangesAtOnce` with `WishInv` (what a wish may
  hold between two stages) beside these: a commit is a change of the roster because the count it
  rests on is locked (`ChangeStep`), an acceptance because the invite's lock has kept it open
  and the primary key its user out (`InviteSteps`); what is refused, fails or dies in a
  deadlock is a wish withdrawn (`WithdrawStep`), and the waiting for locks is invisible.
  `MembersAreInvited` and `InvitesCloseOnce` say in the module's own terms what `Team` implies of
  joining and of closed invites; the runs check the promise, and the theorems state both.
* **UniqueValues** (`UniqueValuesProofs`).  `TypeOK`, `LockInv`, `PrivateInv` (which private
  rows a stage can have), `WriteInv` (a write that no PATCH overlaps has given up all the entry's
  rows and takes those it will hold), `PatchInv` (of entries that are not crossed, a PATCH has seen every
  row and value), `LedgerDerived`, `KeyInv`.  `LedgerDerived` alone is not inductive: a
  statement fixes its rows long before the commit, so what it saw must be shown to be still
  so.  `KeyInv` puts the primary key where the database puts it, over uncommitted rows and undecided deletions.
* **SchemaChange** (`SchemaProofs`, `CallsInvariant`).  `CallInv` carries, from each guard to
  the write it justifies, what the guard has established of the type and of the entries
  (`PatchOk`, `DropOk`); `EditInv` that a document fits the definition its writer read; `FitInv`
  that every vouched copy fits.  The counts and the write are separate transactions, so the
  facts hold only until somebody else commits, and `unvouched` says for which copies they do not.
* **SchemaProposals** (`SchemaProofs`, `FilingsInvariant`).  `RowsFit`, and for each open review
  `TransactionsInv`: the steps executed are a prefix of the filed plan, the schema seen is what it
  was when the plan was recomputed (held by the locks of `LocksInv`), and what remains is the rest of the
  difference.  `AppliedInFull` follows when the last step is done; `OnlyWhatWasReviewed` at each.
* **SchemaComponents** (`ContentProofs`, `ComponentInv`).  A call that nobody has overtaken still
  knows the component and the referrers it read (`KnowsType`), since every write overtakes all calls and
  drafts under way, and it knows each copy that was not written beside it
  (`KnowsItem`); a deletion that has asked the zones again knows only their answer
  (`KnowsZones`).  `ItemsFit` is not inductive without either: the write goes by a name that was
  read earlier.  `ItsOwn` is the lemma everything rests on: by uniqueness of
  names, an item that fits is the component's exactly when the call takes it for one.
* **MediaVariants** (`ContentProofs`, `MediaInv`).  `WorkInv` (a rendering with an outcome is
  in the store before its row says so), `LockInv`, `GoneInv` (rows go before objects),
  `SourceInv`, `CountInv` (a deletion that no reference overtook finds none).
* **EntryReads** (`ContentProofs`, `ReadsInv`).  While a request is under way `could` and `could_not` hold all
  that can and cannot be served (`Watches`), so a row that a level reads is in the one and a
  target that has no node is in the other.  `LevelOk` is said of the levels that were
  expanded and of those that wait: the rows stand where the level does, every level above it was
  expanded, and its path holds their rows (`Hangs`); that no two levels share
  a place (`TodoOk`, `LevelsOk`) keeps a level that is expanded now from being above one
  that was.  GET asks a published entry for no snapshot: that it has one is part of `StoreInv`.
* **Accounts** (`AccountsProofs`, `AccountsInv`).  `FormInv`, `StartInv`, `VersionInv` and `DeletionInv`
  (events in step with the row), `SessionInv`, `ProfileInv`, and for rotation `LineInv`: outside
  `twice` a token is in one hand, so its line of descent has one live end.
* **Access** (`AccessInv`), **EntryRequests** (`RequestsInv`), **MigrateLedger** (`MigrateInv`),
  **WebhookMirror** (`MirrorInv`), **EntryHistory** (`HistoryInv`), **Paging** (`PagesInv`), all in
  `ServicesProofs`.  Access: tokens lag behind roles only where a role was granted since
  (`TokensInv`), and a PATCH of the lists writes what its reader saw (`PatchInv`).  Requests:
  a key's record names an entry that exists or once did (`KeyInv`, `GoneInv`), a reviewer's version is one it
  saw (`SeenInv`), links follow the payload where no two updates overlapped (`LinkInv`).
  Migrations: a row means its objects are there (`TruthInv`), on an adopted database and on one
  that is not (`Adopted`, `Unadopted`).  Mirror: an id is acted on once while the log remembers
  it (`OnceInv`); acts that did not overlap came in order, the last one having read what the edge
  serves (`SerialInv`, `LastInv`).  History: what a restore has compared is still what it will write
  unless the entry has moved, in which case it is refused; the byline is the writer's because every call's
  line is written between its begin and the next (`AfterInv`, `AuthorsInv`).  Paging:
  an entry that has not moved was listed once if it matches and lies behind the cursor; the order of
  the listing is a strict total order of matching entries (`AheadOrder`), which carries the step from page to page.
* **DeliveryUsage** (`ServicesProofs`, `UsageInv`).  `CountsSound` is inductive as it stands; what needs a
  proof is the sum over the replicas, a fold.  `SumsExist` shows that the recursion the fold
  is defined by has a solution, and `SumsDiffer` that two counts which differ at one
  replica have sums which differ by as much, each by the least counterexample, since the
  library's induction rules cannot be instantiated here.

Only model-checked, and why:

* the liveness properties `EveryEventSettles`, `DueSettles`, `RenderingsSettle` and `CallsEnd`:
  fairness and ENABLED are beyond this prover;
* that the models terminate or stop only where they may: TLC's deadlock check.

## 5  Findings

1. `release_counter`: **`published_version` can stand still while the snapshot moves.**  A
   schema change bumps it alone (`postgres_repository.go:975`), and a later publish sets it from
   `version` (`:938` says that it only moves forward with the snapshot).
2. `media_keys`: **an object may stay for ever.**  `DeleteMediaAsset` reads the keys before it deletes
   the rows (`postgres_repository.go:3025`); a rendering committed in between leaves an object
   whose key nobody has returned, against the comment at 3019-3022.
3. `reads_unexpanded`: **an entry met again below itself may miss relations.**  It is not
   expanded there because its subtree "was already computed" (`populate.go:477`, `:365`), but
   where it stood above fewer relations may have been asked for.

Seen while modelling, and not made runs of:

* outbox: a deployment spends retries of the rows left in a batch (`outbox/worker.go:141`,
  against `outbox/postgres_repository.go:93`); MarkDone of a reclaimed row is unguarded, so `failed` is not terminal;
* scheduler: the version check that protects a publish also fails a takedown that a save
  has overtaken (`scheduler/worker.go:318`, against `schedule_repository.go:429` "must not fail closed");
* membership: two member changes can deadlock (`tenant/repository/postgres_repository.go:460`,
  against `:448` "never deadlocks, just serializes"); the database aborts one;
* unique values: a save that overlaps the PATCH that makes its field unique leaves its value
  unreserved (`postgres_repository.go:805`, against `migrations/000040:37`);
* links: two overlapping updates of one entry can leave the links of the older payload
  (`content_service.go:1544`, against 1540-1541);
* decisions: sending one version back twice hides it, a decision on the version before un-hides it
  (`content_service.go:1517`, `review_decision.go:183` and `:196`); a decision taken between the
  reading and the update of an entry sends no notice;
* schema: a proposal may leave a type without fields (`postgres_repository.go:408-410`,
  `schema_mutation.go:558`); two PATCHes of a field write back each other's columns, as do two of a type's lists;
* components: a zone that is written between the deletion's second look at the zones and its
  DELETE names a component that no longer exists, the case the second look is there to exclude
  (`postgres_components.go:195-203`); the look moves into the transaction but locks nothing,
  so the window is narrower and not closed;
* artifacts: what is compared is read before the lock (`artifact_apply.go` 395-411);
* media: the sweep's recheck does not close the window between counting and deleting
  (`media_sweep.go:74-76` "TOCTOU is closed by rechecking"): an entry that names the asset after the
  recheck loses it; a row may be tried more often than three times (`worker.go:191`), since attempts that find it
  claimed elsewhere are not charged; `worker.go:224-232` cannot be reached; Enqueue and Delete may deadlock over the order
  of rows; an upload that was posted but never completed has bytes although its reservation is said to have none;
* accounts: a profile update that read before a deletion writes `active` back; a deletion
  leaves agents of the account active (`000035_agent_credentials.up.sql:37-39`); a replayed
  registration fails on the index of e-mails first, so `user_service.go:115` is unreachable;
  ARCHITECTURE.md §5 and :160 say otherwise of both kinds of event;
* history: a lost line leaves an earlier writer's byline; `keepKeys` without changed keys
  keeps all (`publish_revision.go` 432-437); the time of a line is that of the request's begin, so overlapping writes are
  attributed to the wrong writer or to nobody; `validate.go:270-286` never finds anything to prune;
* reads: confinement to one's own entries is not asked of referrers, totals count what is then
  hidden, and an agent's whitelist is not asked of the types that it expands;
* consumer example: the answer to an older refresh that is stored after a takedown keeps
  being served (`mirror.go:57` says otherwise).

## 6  Limits and plan

The map covers about a fifth of the implementation.  What it leaves out is mostly HTTP
handlers, DTO conversion, SQL text whose effect is one assignment, generated GraphQL code and
the edge applications.  Left out of the modelled parts: notifications other than those of schedules
and dead events; form expiry of uploads; signatures of webhooks; offset paging; relinking of
media by component writes and the tightening of a sub-field's other attributes; fields of more than one type
using a component (the guards treat referrers one by one); migrations that arrive out of order;
claims of `adopt` that are false or incomplete; adoption of a fresh database beside `up`,
of which the code checks only that the database is empty.

Next, in this order: an abstract promise for the sessions of `Accounts` and for the renderings of
`MediaVariants`, as there is for delivery, release and the roster; the agents' whitelist in
a read, stated and proved as it is enforced; then the parts of the content service that are still
left out.
