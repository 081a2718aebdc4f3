----------------------------- MODULE Migrations -----------------------------
(***************************************************************************)
(* infra/postgres/migrate.js: runs of the migration script against one     *)
(* database, which may be fresh or from before schema_migrations existed.  *)
(* A migration file is its number in the sorted order of the file names.   *)
(*                                                                         *)
(* An action is what a run does between two awaits, and a run may end at   *)
(* any of them: with an error or killed. Several runs may overlap, nothing *)
(* locks them out, and new files are shipped while the database lives on.  *)
(***************************************************************************)
EXTENDS Naturals, FiniteSetsExt

CONSTANTS
    LastFile,        \* bound: the files there will ever be
    MarkerFile,      \* the file that creates the table tenants
    Runs,            \* bound: runs of the script
    AdoptedInTime,   \* a database from before the tracking gets a first tracked run before
                     \* another file is shipped
    FirstAlone       \* nobody starts a run beside another one while nothing is recorded

ASSUME FilesAssumption ==
    /\ LastFile \in Nat /\ MarkerFile \in 1..LastFile
    /\ AdoptedInTime \in BOOLEAN /\ FirstAlone \in BOOLEAN

Files == 1..LastFile

NoFile == 0

VARIABLES
    original,     \* the files that were run, untracked, before the first run of the script
    disk,         \* how many files there are on disk
    schema,       \* the files whose SQL is in effect
    tracked,      \* the rows of schema_migrations
    step,         \* where a run stands
    filesOnDisk,  \* what it read of the directory, of schema_migrations,
    applied,
    backfill,     \* and what it has still to record and to apply
    toApply,
    open          \* the file whose SQL its open transaction has run

runVars == <<step, filesOnDisk, applied, backfill, toApply, open>>
vars == <<original, disk, schema, tracked, step, filesOnDisk, applied, backfill, toApply, open>>

Steps == {"idle", "read", "plan", "backfill", "apply", "record", "commit", "done", "failed"}

Going(r) == step[r] \notin {"idle", "done", "failed"}

Init ==
    /\ disk \in 1..LastFile
    /\ original \in {0} \cup MarkerFile..disk
    /\ schema = 1..original
    /\ tracked = {}
    /\ step = [r \in Runs |-> "idle"]
    /\ filesOnDisk = [r \in Runs |-> {}]
    /\ applied = [r \in Runs |-> {}]
    /\ backfill = [r \in Runs |-> {}]
    /\ toApply = [r \in Runs |-> {}]
    /\ open = [r \in Runs |-> NoFile]

-----------------------------------------------------------------------------
(* A run of the script *)

\* Nothing recorded and the table tenants there: every file on disk counts as applied.
PlanMigrations(onDisk, alreadyApplied, markerTableExists) ==
    LET adopted == IF alreadyApplied = {} /\ markerTableExists THEN onDisk ELSE {}
    IN  [backfill |-> adopted, toApply |-> onDisk \ (alreadyApplied \cup adopted)]

\* Reads the directory and connects.
Start(r) ==
    /\ step[r] = "idle"
    /\ tracked = {} =>
          /\ FirstAlone => \A q \in Runs : ~Going(q)
          /\ AdoptedInTime => original \in {0, disk}
    /\ step' = [step EXCEPT ![r] = "read"]
    /\ filesOnDisk' = [filesOnDisk EXCEPT ![r] = 1..disk]
    /\ UNCHANGED <<original, disk, schema, tracked, applied, backfill, toApply, open>>

\* CREATE TABLE IF NOT EXISTS, SELECT filename FROM schema_migrations.
ReadTracked(r) ==
    /\ step[r] = "read"
    /\ step' = [step EXCEPT ![r] = "plan"]
    /\ applied' = [applied EXCEPT ![r] = tracked]
    /\ UNCHANGED <<original, disk, schema, tracked, filesOnDisk, backfill, toApply, open>>

\* to_regclass('public.tenants') is a statement of its own.
Plan(r) ==
    /\ step[r] = "plan"
    /\ LET plan == PlanMigrations(filesOnDisk[r], applied[r], MarkerFile \in schema)
       IN  /\ backfill' = [backfill EXCEPT ![r] = plan.backfill]
           /\ toApply' = [toApply EXCEPT ![r] = plan.toApply]
    /\ step' = [step EXCEPT ![r] = "backfill"]
    /\ UNCHANGED <<original, disk, schema, tracked, filesOnDisk, applied, open>>

NextFile(files) == Min(files)

\* One INSERT ... ON CONFLICT DO NOTHING for each file, committed at once.
Backfill(r) ==
    /\ step[r] = "backfill" /\ backfill[r] # {}
    /\ tracked' = tracked \cup {NextFile(backfill[r])}
    /\ backfill' = [backfill EXCEPT ![r] = @ \ {NextFile(@)}]
    /\ UNCHANGED <<original, disk, schema, step, filesOnDisk, applied, toApply, open>>

Backfilled(r) ==
    /\ step[r] = "backfill" /\ backfill[r] = {}
    /\ step' = [step EXCEPT ![r] = "apply"]
    /\ UNCHANGED <<original, disk, schema, tracked, filesOnDisk, applied, backfill, toApply, open>>

\* BEGIN and the SQL of the next file. A file whose objects exist already fails, and one that
\* another transaction has run waits for the end of that transaction.
RunSql(r) ==
    /\ step[r] = "apply" /\ toApply[r] # {}
    /\ NextFile(toApply[r]) \notin schema
    /\ \A q \in Runs : open[q] # NextFile(toApply[r])
    /\ open' = [open EXCEPT ![r] = NextFile(toApply[r])]
    /\ step' = [step EXCEPT ![r] = "record"]
    /\ UNCHANGED <<original, disk, schema, tracked, filesOnDisk, applied, backfill, toApply>>

\* Mutant: the row is not part of the transaction.
RecordAtOnce(r) ==
    /\ step[r] = "record" /\ open[r] \notin tracked
    /\ tracked' = tracked \cup {open[r]}
    /\ step' = [step EXCEPT ![r] = "commit"]
    /\ UNCHANGED <<original, disk, schema, filesOnDisk, applied, backfill, toApply, open>>

\* INSERT of the row, which is there for nobody else until COMMIT; a second one is an error.
Record(r) ==
    /\ step[r] = "record" /\ open[r] \notin tracked
    /\ step' = [step EXCEPT ![r] = "commit"]
    /\ UNCHANGED <<original, disk, schema, tracked, filesOnDisk, applied, backfill, toApply, open>>

Commit(r) ==
    /\ step[r] = "commit"
    /\ schema' = schema \cup {open[r]}
    /\ tracked' = tracked \cup {open[r]}
    /\ toApply' = [toApply EXCEPT ![r] = @ \ {open[r]}]
    /\ open' = [open EXCEPT ![r] = NoFile]
    /\ step' = [step EXCEPT ![r] = "apply"]
    /\ UNCHANGED <<original, disk, filesOnDisk, applied, backfill>>

Finish(r) ==
    /\ step[r] = "apply" /\ toApply[r] = {}
    /\ step' = [step EXCEPT ![r] = "done"]
    /\ UNCHANGED <<original, disk, schema, tracked, filesOnDisk, applied, backfill, toApply, open>>

\* Mutant: an error leaves its transaction open.
FailWithoutRollback(r) ==
    /\ Going(r)
    /\ step' = [step EXCEPT ![r] = "failed"]
    /\ UNCHANGED <<original, disk, schema, tracked, filesOnDisk, applied, backfill, toApply, open>>

\* Mutant: an error of one file is logged and the next file is tried.
FailAndGoOn(r) ==
    /\ step[r] \in {"apply", "record", "commit"} /\ toApply[r] # {}
    /\ step' = [step EXCEPT ![r] = "apply"]
    /\ open' = [open EXCEPT ![r] = NoFile]
    /\ toApply' = [toApply EXCEPT ![r] = @ \ {NextFile(@)}]
    /\ UNCHANGED <<original, disk, schema, tracked, filesOnDisk, applied, backfill>>

\* Any statement may fail, and the script may be killed: an open transaction is rolled back
\* and the files that are left stay for another run.
Fail(r) ==
    /\ Going(r)
    /\ step' = [step EXCEPT ![r] = "failed"]
    /\ open' = [open EXCEPT ![r] = NoFile]
    /\ UNCHANGED <<original, disk, schema, tracked, filesOnDisk, applied, backfill, toApply>>

\* A release brings another file.
Ship ==
    /\ disk < LastFile
    /\ disk' = disk + 1
    /\ UNCHANGED <<original, schema, tracked, runVars>>

Next ==
    \/ Ship
    \/ \E r \in Runs :
          \/ Start(r) \/ ReadTracked(r) \/ Plan(r) \/ Backfill(r) \/ Backfilled(r)
          \/ RunSql(r) \/ Record(r) \/ Commit(r) \/ Finish(r) \/ Fail(r)

Spec == Init /\ [][Next]_vars

-----------------------------------------------------------------------------
(* Properties *)

\* A run has a transaction open only between the SQL of a file and its COMMIT.
TypeOK ==
    /\ original \in 0..LastFile /\ disk \in 1..LastFile
    /\ schema \subseteq Files /\ tracked \subseteq Files
    /\ step \in [Runs -> Steps]
    /\ filesOnDisk \in [Runs -> SUBSET Files] /\ applied \in [Runs -> SUBSET Files]
    /\ backfill \in [Runs -> SUBSET Files] /\ toApply \in [Runs -> SUBSET Files]
    /\ open \in [Runs -> Files \cup {NoFile}]
    /\ \A r \in Runs : open[r] # NoFile <=> step[r] \in {"record", "commit"}

\* schema_migrations says of a file that it was applied only when its SQL is in effect.
RecordedWasApplied == tracked \subseteq schema

\* And the other way round: whatever fails or overlaps, a retry never finds a file that is in
\* effect and not recorded, but for those from before the tracking. No file is in effect ahead
\* of an earlier one, though runs with plans of different ages work at once.
TrackedAsApplied ==
    /\ RecordedWasApplied
    /\ schema \subseteq tracked \cup 1..original
    /\ \A f \in schema : 1..f \subseteq schema

\* A run that reports success leaves every file it found on disk in effect.
DoneMeansUpToDate == \A r \in Runs : step[r] = "done" => filesOnDisk[r] \subseteq schema
=============================================================================
