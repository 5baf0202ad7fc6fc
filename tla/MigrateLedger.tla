--------------------------- MODULE MigrateLedger ---------------------------
(***************************************************************************)
(* The migration ledger (internal/platform/migrate, cmd/migrate): several  *)
(* processes run `migrate up', `migrate adopt' or boot a server against    *)
(* one database.  A build carries its migration files; a file is known by  *)
(* its version and its checksum.  A database may predate the ledger: it    *)
(* holds the objects of some migrations and no row that says so.           *)
(*                                                                         *)
(* Every statement that Inspect makes is a step of its own, and so is      *)
(* every migration, whose DDL and ledger row share one transaction.        *)
(***************************************************************************)
EXTENDS Naturals, FiniteSets

CONSTANTS Operators,     \* processes that run a command or boot
          Builds,        \* the builds they may be of
          Disk,          \* [Builds -> [versions -> checksum]]: the files of a build
          Legacy,        \* versions a database without a ledger may have reached
          MaxCommands    \* bound: commands started

ASSUME MigrateAssumption ==
    /\ \A b \in Builds : DOMAIN Disk[b] # {} /\ DOMAIN Disk[b] \subseteq Nat \ {0}
    /\ \A c \in Builds : \E first \in DOMAIN Disk[c] :   \* every build has the first migration
          \A b \in Builds : first \in DOMAIN Disk[b] /\ \A v \in DOMAIN Disk[b] : first <= v
    /\ Legacy \subseteq Nat
    /\ MaxCommands \in Nat

Versions == UNION {DOMAIN Disk[b] : b \in Builds}

VARIABLES tables,     \* [Versions -> Nat]: how many times its objects were made
          hasLedger,  \* the table schema_migrations exists
          recorded,   \* the rows of the table: a partial function to checksums
          proc,       \* the processes
          started     \* commands started so far

migrateVars == <<tables, hasLedger, recorded, proc, started>>

Idle == [stage |-> "idle"]

MigrateTypeOK ==
    /\ tables \in [Versions -> Nat]
    /\ hasLedger \in BOOLEAN
    /\ DOMAIN recorded \subseteq Versions
    /\ recorded # << >> => hasLedger
    /\ started \in 0 .. MaxCommands
    /\ \A p \in Operators : proc[p].stage \in
          {"idle", "create", "probe", "count", "read", "decide", "apply", "done", "serving", "failed"}

MigrateInit ==
    /\ \E reached \in Legacy : tables = [v \in Versions |-> IF v <= reached THEN 1 ELSE 0]
    /\ hasLedger = FALSE
    /\ recorded = << >>
    /\ proc = [p \in Operators |-> Idle]
    /\ started = 0

(* The state of one process: what Inspect has read so far. *)
Fresh(cmd, b, to) ==
    [stage |-> IF cmd = "adopt" THEN "create" ELSE "probe", cmd |-> cmd, build |-> b, to |-> to,
     hasLedger |-> FALSE, empty |-> TRUE, applied |-> << >>]

EmptyDatabase == \A v \in Versions : tables[v] = 0

Oldest(vs) == CHOOSE v \in vs : \A w \in vs : v <= w

(* The claim of `adopt --to': the database cannot supply it, and the human
   who knows the database does, with a build that has its files: what is
   claimed was made, and what was made is claimed.  Or it is the reflex of
   adopting a fresh database. *)
Claims(b) ==
    {v \in DOMAIN Disk[b] :
        IF EmptyDatabase THEN v = Oldest(Versions)
        ELSE /\ \A w \in DOMAIN Disk[b] : w <= v => tables[w] > 0
             /\ \A w \in Versions : tables[w] > 0 => w \in DOMAIN Disk[b] /\ w <= v}

Start(p) ==
    /\ proc[p].stage \in {"idle", "done", "failed", "serving"}
    /\ started < MaxCommands
    /\ started' = started + 1
    /\ \E b \in Builds, cmd \in {"up", "adopt", "boot"} :
          \E to \in IF cmd = "adopt" THEN Claims(b) ELSE {0} :
             proc' = [proc EXCEPT ![p] = Fresh(cmd, b, to)]
    /\ UNCHANGED <<tables, hasLedger, recorded>>

Enter(p, stage) == proc' = [proc EXCEPT ![p].stage = stage]

(* Mutant of CreateLedger: adopt inspects and writes without the table. *)
CreateNoLedger(p) ==
    /\ proc[p].stage = "create"
    /\ Enter(p, "probe")
    /\ UNCHANGED <<tables, hasLedger, recorded, started>>

(* createLedger: CREATE TABLE IF NOT EXISTS.  Adopt runs it before it
   inspects, Up after it has seen the state. *)
CreateLedger(p) ==
    /\ proc[p].stage = "create"
    /\ hasLedger' = TRUE
    /\ Enter(p, "probe")
    /\ UNCHANGED <<tables, recorded, started>>

ProbeLedger(p) ==
    /\ proc[p].stage = "probe"
    /\ proc' = [proc EXCEPT ![p].stage = "count", ![p].hasLedger = hasLedger]
    /\ UNCHANGED <<tables, hasLedger, recorded, started>>

CountTables(p) ==
    /\ proc[p].stage = "count"
    /\ proc' = [proc EXCEPT ![p].empty = EmptyDatabase,
                            ![p].stage = IF proc[p].hasLedger THEN "read" ELSE "decide"]
    /\ UNCHANGED <<tables, hasLedger, recorded, started>>

ReadLedger(p) ==
    /\ proc[p].stage = "read"
    /\ proc' = [proc EXCEPT ![p].applied = recorded, ![p].stage = "decide"]
    /\ UNCHANGED <<tables, hasLedger, recorded, started>>

Missing(p)    == DOMAIN Disk[proc[p].build] \ DOMAIN proc[p].applied
Mismatched(p) == {v \in DOMAIN Disk[proc[p].build] \cap DOMAIN proc[p].applied :
                     proc[p].applied[v] # Disk[proc[p].build][v]}

Recorded(files) == [v \in DOMAIN recorded \cup DOMAIN files |->
                       IF v \in DOMAIN recorded THEN recorded[v] ELSE files[v]]

(* Mutant of VerifyBoot: a missing migration is no reason to refuse. *)
VerifyChecksumsOnly(p) ==
    /\ proc[p].stage = "decide" /\ proc[p].cmd = "boot"
    /\ Enter(p, IF proc[p].hasLedger /\ Mismatched(p) = {} THEN "serving" ELSE "failed")
    /\ UNCHANGED <<tables, hasLedger, recorded, started>>

(* Verify, the gate at boot: it writes nothing, and a row without a file is
   no refusal. *)
VerifyBoot(p) ==
    /\ proc[p].stage = "decide" /\ proc[p].cmd = "boot"
    /\ Enter(p, IF proc[p].hasLedger /\ Missing(p) = {} /\ Mismatched(p) = {}
               THEN "serving" ELSE "failed")
    /\ UNCHANGED <<tables, hasLedger, recorded, started>>

(* Mutant of Unaccounted: only a missing ledger makes a database unadopted. *)
UnaccountedByTable(p) == ~proc[p].empty /\ ~proc[p].hasLedger

(* Up refuses a database whose tables no row accounts for, before it creates
   the ledger, and one whose history disagrees with the files, after. *)
Unaccounted(p) == ~proc[p].empty /\ DOMAIN proc[p].applied = {}

DecideUp(p) ==
    /\ proc[p].stage = "decide" /\ proc[p].cmd = "up"
    /\ hasLedger' = (hasLedger \/ ~Unaccounted(p))
    /\ Enter(p, IF Unaccounted(p) \/ Mismatched(p) # {} THEN "failed" ELSE "apply")
    /\ UNCHANGED <<tables, recorded, started>>

(* The files Up has still to apply, oldest first, by what it read. *)
Pending(p) == Missing(p)

UpFinishes(p) ==
    /\ proc[p].stage = "apply" /\ Pending(p) = {}
    /\ Enter(p, "done")
    /\ UNCHANGED <<tables, hasLedger, recorded, started>>

(* applyOne: one transaction.  Objects that exist already make the DDL fail,
   or do not (CREATE IF NOT EXISTS, an UPDATE of rows); a row that exists
   already makes the insert fail.  Either failure leaves nothing. *)
ApplyOne(p) ==
    /\ proc[p].stage = "apply" /\ Pending(p) # {}
    /\ LET v == Oldest(Pending(p))
           b == proc[p].build
       IN \/ /\ v \notin DOMAIN recorded
             /\ tables' = [tables EXCEPT ![v] = @ + 1]
             /\ recorded' = Recorded([w \in {v} |-> Disk[b][w]])
             /\ proc' = [proc EXCEPT ![p].applied =
                            [w \in DOMAIN @ \cup {v} |-> IF w = v THEN Disk[b][v] ELSE @[w]]]
          \/ /\ Enter(p, "failed")     \* the DDL, the row or the commit failed
             /\ UNCHANGED <<tables, recorded>>
    /\ UNCHANGED <<hasLedger, started>>

(* Mutant of NothingToAdopt: the guard against a fresh database is missing. *)
AdoptAnything(p) == FALSE

(* Adopt records every file up to the claim in one transaction and executes
   none; a row that is there already stays. *)
NothingToAdopt(p) == proc[p].empty /\ DOMAIN proc[p].applied = {}

DecideAdopt(p) ==
    /\ proc[p].stage = "decide" /\ proc[p].cmd = "adopt"
    /\ LET b     == proc[p].build
           claim == {v \in DOMAIN Disk[b] : v <= proc[p].to}
       IN IF NothingToAdopt(p)
          THEN Enter(p, "failed") /\ UNCHANGED recorded
          ELSE /\ recorded' = Recorded([v \in claim |-> Disk[b][v]])
               /\ Enter(p, "done")
    /\ UNCHANGED <<tables, hasLedger, started>>

(* A process dies, or a statement of it fails, between two statements. *)
Die(p) ==
    /\ proc[p].stage # "idle"
    /\ proc' = [proc EXCEPT ![p] = Idle]
    /\ UNCHANGED <<tables, hasLedger, recorded, started>>

MigrateStep(p) ==
    \/ Start(p) \/ CreateLedger(p) \/ ProbeLedger(p) \/ CountTables(p) \/ ReadLedger(p)
    \/ VerifyBoot(p) \/ DecideUp(p) \/ UpFinishes(p) \/ ApplyOne(p) \/ DecideAdopt(p) \/ Die(p)

MigrateNext == \E p \in Operators : MigrateStep(p)

MigrateSpec == MigrateInit /\ [][MigrateNext]_migrateVars
-----------------------------------------------------------------------------
(* No migration's DDL takes effect twice, whatever two processes decided from
   the ledger each had read: the second insert of the row undoes the objects
   made before it in the same transaction (ledger.go applyOne). *)
NoneRunsTwice == \A v \in Versions : tables[v] <= 1

(* A row means that the database has the objects of that migration: neither a
   crash between two migrations, nor a failed one, nor an adoption leaves a
   ledger that claims a history which never ran (ledger.go Up, Adopt). *)
LedgerTellsTheTruth == \A v \in DOMAIN recorded : tables[v] > 0

(* A finished `up' and a server that passed the gate know their database:
   every file of their build is recorded, by the checksum they carry, and
   stays so whatever other builds do afterwards (ledger.go Up, Verify). *)
KnowTheirDatabase ==
    \A p \in Operators :
       \/ proc[p].stage = "serving"
       \/ proc[p].stage = "done" /\ proc[p].cmd = "up"
       => \A v \in DOMAIN Disk[proc[p].build] :
             v \in DOMAIN recorded /\ recorded[v] = Disk[proc[p].build][v]

(* The ledger and the objects of the database tell the same history, and who has
   finished relies on it (ledger.go Up, Adopt, Verify). *)
MigrationsSound == MigrateTypeOK /\ NoneRunsTwice /\ LedgerTellsTheTruth /\ KnowTheirDatabase

=============================================================================
