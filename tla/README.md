# Employee compliance: specifications and proofs

TLA+ models of the services in `apps/api` and `apps/worker`, model-checked with
TLC on small instances, and theorems about them checked by TLAPS for every value
of the constants. `PROJECT.json` maps every definition to its source lines and
lists runs, mutants, findings, hazards and theorems.

## The system

Employees of many tenants have documents (passport, residence, badge) that
expire. HR staff keeps them up to date through a REST API; a worker process mails
a reminder when a document is a configured number of days from expiry.

| Part | State | Operations | Talks to |
|---|---|---|---|
| Expiry Engine (`apps/api/src/expiry`) | none | status from date, policy, day and current status | called by Documents |
| Documents, Employees (`documents`, `employees`) | tables `documents`, `employees`: version, soft deletion, cached `expiry_status` | create, update under an optimistic lock, archive, reads | Expiry Engine, Audit |
| Audit (`audit`) | `audit_events`, append-only | `log`, under a savepoint inside the caller's transaction | called by every service that writes |
| Notification policies (`notifications`) | `tenant_notification_policies` | read or default, upsert | read by scanner and worker |
| Reminder scanner (`worker/.../reminder-scanner.worker.ts`) | queue `reminder-scans` | daily scan of active tenants; enqueues a job per document at a threshold | tables above, queue `reminders` |
| Reminder worker (`worker/.../reminder.worker.ts`) | queue `reminders`, `notification_log`, `idempotency_keys` | one transaction per job: check tenant and key, read the document, mail, log, claim the key | SMTP |
| Import (`import-export`, `import.worker.ts`) | `import_batches`, queue `imports` | upload: row by row through Employees, then a completion signal | Employees, Redis |
| Failure alerts (`failure-alert-scanner.worker.ts`) | none of its own | every hour, a count over the last six in `notification_log` | console |
| Guards (`auth`, `tenant`, `rbac`) | none | token, tenant, role of a request | Keycloak, `tenants` |
| Tenant isolation (`tenant-context.ts`, RLS) | `app.current_tenant_id` of a pooled connection | `SET LOCAL` in each transaction | every query |
| Dashboard, notification log API, export | none | reads | tables |
| Health, shutdown (`health`, both `main.ts`) | probes; shutdown flags | readiness; drain and close | Postgres, Redis |
| Migrations (`infra/postgres/migrate.js`) | `schema_migrations` | plan, backfill, apply | Postgres |

Everything shares one Postgres at READ COMMITTED: a statement reads what is
committed when it runs, an update waits for the lock of its row and then tests
its WHERE clause again. API and worker meet only in the tables and in Redis.

What is hard here: several jobs that carry one idempotency key; a mail that
cannot be rolled back inside a transaction that can; crashes and BullMQ's
re-runs; a scan that reads one tenant after the other while users edit; a cached
status that nobody refreshes; thresholds that match on one day only; concurrent
PATCH and DELETE of one row with values selected before; an audit insert that
may fail inside a request that must not; sessions that pass from tenant to tenant
through one small pool; a shutdown that races requests, probes and its own
timeout; a migration script that overlaps itself or dies half way. `PROJECT.json` lists
these hazards with their lines and the properties that watch them.

What makes each part correct: the engine only ever makes a status worse while
date and policy stay; a PATCH never loses what another one committed and never
revives an archived row; the audit trail has what was committed and nothing else;
a reminder is settled at most once, its key and its log row come together, SENT
means delivered; a scan leaves nothing behind; a request sees its own tenant whatever
connection it is given; nobody waits for the pool while holding a part of it; a
shutdown breaks nothing off before its timeout and ends; what is recorded as
migrated is in effect; every job, scan, upload, request and probe ends.

## Modules

| Module | What it is |
|---|---|
| `ExpiryEngine` | the engine as an operator, and the rule of four checks its comment names |
| `DocumentAgeing` | one document under the engine as days pass |
| `Reminders` | scanner, queues, worker, and the users and faults around them |
| `ReminderLedger` | the abstract promise of the pipeline, refined by `Reminders` |
| `Records` | employees and documents under concurrent requests, with the audit trail |
| `AtomicRecords` | the abstract promise of both services, refined by `Records` |
| `Imports` | the bulk import of employees and the worker of its completion signal |
| `FileImports` | the abstract promise of an import, refined by `Imports` |
| `Tenancy` | the table of tenants, as assumptions that the next three share |
| `Guards` | authentication, tenant and role of a request, as operators |
| `Pool` | the connections of the API and the sessions behind them, as operators on their variables |
| `ApiProcess` | composes `Guards` and `Pool`: requests, readiness probes and the shutdown |
| `Migrations` | runs of the migration script |
| `MC*` | instances for TLC |
| `ExpiryProofs`, `RemindersProofs`, `PipelineProofs`, `RecordsProofs`, `ImportsProofs`, `MigrationsProofs` | the theorems about each |
| `ApiProofs`, `IsolationProofs` | the theorems about `ApiProcess` |

Operators whose comment starts with *Mutant* are plausible bugs of the definition
that follows them. No specification uses them: substituted for that definition
they make the property named in `PROJECT.json` fail, which shows that the
property says something about the code.

### ExpiryEngine, DocumentAgeing

A calendar date is an integer (the code reduces both dates to UTC midnight, so
their difference is a whole number of days). `CalculateStatus` has the code's
branches in their order. `FourChecks` is the rule that the comment in
`expiry.service.ts` says the single comparison is equivalent to. In
`DocumentAgeing` a day passes, a PATCH recomputes, or a PATCH sets a manual
status; the policy row is fixed, because the API cannot change it.

### Reminders

| Code | Model |
|---|---|
| `documents`, `employees.email`, `tenants.status`, `tenant_notification_policies` | `documents`, `hasEmail`, `activeTenants`, `policy` |
| queue `reminder-scans`, the callback of `createReminderScanner` | `scanRequests`, `scan`; `StartScan` to `FinishScan` |
| queue `reminders` | `jobState`, `jobData`, `stalls` |
| the callback of `createReminderWorker` | `pc`, `outcome`; `TakeJob` to `Acknowledge` |
| `notification_log`, `idempotency_keys` | `notificationLog`, `idempotencyKeys` (committed rows) |
| API requests | `UpdateDocument`, `OverrideStatus`, `ArchiveDocument`, `ChangeEmail`, `ChangePolicy`: one step each |
| runbook: a scan by hand; suspending a tenant | `RequestScan`, `ChangeTenant` |
| failures | `FailStatement`, `LoseCommitReply`, `LoseSmtpReply`, `FailScan`, `Crash`, `RecoverStalled` |

A job's transaction is a step per statement. What it writes is published by
`Commit`; until then another transaction that inserts the same key waits
(`HoldsKey`). `ClaimKey` stands for both inserts: when the key is there, Postgres
aborts the transaction, the catch block's insert of a FAILED row is refused as
well, and BullMQ files the job as failed. `attempts` is 1 by default, so a failed
job is final; a job that was active in a crash is stalled, and runs again at most
`MaxStalledCount` times. `mailed` and `closedAtStart` are history: what the mail
server took, and which runs began with their reminder closed.

### ReminderLedger

Attempts open only while their reminder is unsettled, only an open attempt
mails, a reminder is settled once and for ever, and as SENT only by an attempt
that mailed. It promises no single mail: the code does not keep that (see the
findings). `Reminders!LedgerSpec` substitutes the jobs for the attempts and the
runs between the check of the key and the commit for the open ones.

### Records, AtomicRecords

A request selects, writes, audits and commits, a step each; `Locks` is the lock
of a row that was written and not committed, and the writes wait for it. `Update`
sets every column, as the code does: from the request, or from the row it
selected before. `Archive` tests no version and increments none. A request may
fail at any step; an audit insert may be refused, and then the request goes on.
A row's id in the model is an employee code or a document; clients send versions
they have read (`ObservedVersions`).

`AtomicRecords` has no transactions: a request that succeeds takes effect in one
step, on the row as it is in that step, and in the same step the trail grows by the
events of that change. `Records!StoreSpec` keeps the table, the requests and the
trail, and maps the requests whose `pc` is `done` to those that have succeeded;
`Commit` is the step that takes effect, all others are stutters or the arrival of a
request. Two things are not promised, because the code does not keep them: that the
ARCHIVED event shows as its before state the row that was archived (no version is
tested), and that the employee of a new document is still there. Lost updates,
winners and statuses keep properties of their own beside the refinement: each names
one way in which it could break.

### Imports, FileImports

| Code | Model |
|---|---|
| `ImportService.importEmployees`, one call | an upload: `file`, `stage`, `row`, `seen`, `processed`, `errors`; `Send` to `EnqueueCompletion` |
| `employees`, `import_batches`, `audit_events` | `employees`, `batches`, `auditEvents` (committed rows) |
| queue `imports`, the callback of `createImportWorker`, `idempotency_keys` | `signals`, `stalls`, `importKeys`; `TakeSignal` to `RecoverStalled` |
| other requests; suspending a tenant | `CreateEmployee`, `PatchEmployee`, `ArchiveEmployee`, `ChangeTenant` |
| failures | `FailRow`, `LoseRowReply`, `FailUpload`, `LoseReply`, `FailSignal`, `CrashApi`, `CrashWorker` |

A step is a transaction: looking for a batch and beginning one are two, and so
are looking up the employee of a row and writing it. What happens inside the
write of an employee, and its audit event, is the business of `Records`; here its
WHERE clause and its unique code decide (`Accepts`). A row is an employee code or
`Malformed`. An upload names the batch it begins. An error in a row is counted
and the loop goes on; an error anywhere else ends the upload, and nothing takes a
batch up again. `written` is history: the rows that changed an employee.

`FileImports` speaks of files, not of uploads: a file is begun once, its rows are
applied in order, nothing is applied once it is complete, and the worker notes a
complete file once. It does not promise that what was begun is completed.

### Tenancy, Guards, Pool, ApiProcess

| Code | Model |
|---|---|
| `AuthGuard`, `TenantMiddleware` with `TenantResolver`, `RbacGuard` | `Authenticate`, `Lookup`; `Verified`, `Resolved`, `Permits` |
| `pg.Pool` in `createDb` | `holds`, `queue`, `pool`; `Connect`, `Grant`, `Release`, `EndPool` |
| a session in Postgres, `set_config(..., true)`, row level security | `client`; `Begun`, `WithTenant`, `Over`, `Visible` |
| a handler: `db.transaction` with `setTenantContext` first, once or several times | `Open` to `Commit`, `Throw`; `left` counts what is still to run |
| `GET /health/ready` | `Probe`, `SelectOne`, `DbTimesOut`, `ReplyReadiness` |
| `enqueueCompletion` at the end of an upload | `EnqueueCompletion` |
| `shutdown` in `apps/api/src/main.ts` | `phase`, `drain`; `Signal`, `Drained`, `DrainTimesOut` |
| the hooks in `app.close()`; its end | `importQueue`, `DestroyPool`, `CloseRedis`; `AppClosed`, `Exit` |
| failures | `LoseBackend`, `Fail`; `gone`, `HangUp` |

An action is what the process does between two awaits; it is one process, so
nothing else interleaves. What a statement does to rows is the business of
`Records` and `Imports`; here only whose rows it can see counts (`saw`). The
explicit conditions on `tenant_id` that most queries carry are ignored: the model
shows that row level security alone isolates. The reads of the dashboard are the
route with one transaction, an upload the route with several.

`SelectOne` goes on after the check it belongs to has timed out, and keeps its
place in the queue or its connection until the database answers, as the promise
in `HealthService` does.

`Close` follows the drain whether it was complete or not. It begins `app.close()`,
which runs the `OnModuleDestroy` hooks, among them the end of the pool and that of the
import queue, in whatever order the framework takes them. Then it closes the HTTP server
again, and only when that is through does the process exit (`AppClosed`). So `Exit`
waits for the connections that are checked out, because `pool.end()` does, for Redis,
because `ImportQueueService.onModuleDestroy` does, and for every client that is still
connected. Requests under way when the drain times out run on meanwhile. One that asks
the ended pool for a connection is answered 500, but one that waits in the queue of the
pool when it ends is never served (`Stranded`): the pool has no `connectionTimeoutMillis`,
and nothing else answers the request. Its connection to the client stays open, and the
process up, until the client hangs up (`HangUp`); the handler of a client that is gone
goes on without it. `HangUp` is an action of the drain and of `app.close()` only, because
an earlier one changes nothing but for whom these wait.

Left out: connections that cannot be established at all, a kill without a signal,
a tenant suspended while a request is under way (`Active` is a constant), and
what drizzle does inside `transaction`: that it releases its connection on every
path is taken from its use.

### Migrations

| Code | Model |
|---|---|
| files of `migrations/`, sorted by name | their numbers; `disk`, `Ship` |
| `schema_migrations`; the objects that the files create | `tracked`; `schema` |
| `planMigrations` | `PlanMigrations` |
| `main`, statement by statement | `Start` to `Finish`; `Fail` for an error, a lost connection or a kill |

A file that is run again fails, because its objects exist, and one that another
transaction has run waits for it. Two premises say how the script is used, as
constants so that a run can drop them. `FirstAlone`: while nothing is recorded no
second run is started beside another; the script takes no lock, and two runs
could plan from different tables. `AdoptedInTime`: a database created without the
tracking gets its first tracked run before another file comes. The operators of
production did that (`docs/architecture/decisions.md`, the entry that introduces
the tracking, tells of ten files adopted on the same day); for a local volume
nothing makes it so, see the findings. The rollback of the runbook is done by
hand and left out.

## Runs

| Run | Shows | Bounds |
|---|---|---|
| `document_ageing` | four checks are one; a status never improves | thresholds of 0 to 2 days in every order, grace of 0 or 1, expiry up to day 3, 5 days |
| `reminders_safety` | log, keys and mails agree; a closed reminder is quiet; the ledger is implemented | 1 document, 3 interchangeable jobs, 2 slots, 2 edits or manual scans, 1 fault, 1 day |
| `reminders_scan` | a completed scan leaves no document behind; every job and scan ends | 2 tenants with a document each, 2 jobs, 1 slot, 1 edit, 1 fault, 2 days |
| `reminders_duplicate_mail` | violated: two jobs, one key, two mails | 2 jobs, 1 manual scan, no fault |
| `reminders_failed_retry` | violated: a FAILED reminder is not retried next day | 2 days, no edit, no fault |
| `reminders_stale_status` | violated: a document ages into a threshold unseen | 2 days, no edit, no fault |
| `records_safety` | optimistic locking, audit trail, row locks; `AtomicRecords` is implemented, and with it soft deletion | 1 employee, 1 document, 2 columns, 3 requests, 1 fault |
| `imports` | counts, outcomes and employees agree; `FileImports` is implemented; uploads and signals end | 2 uploads; files of 3 rows (one malformed, one code twice), of 1 row, and above the limit; 2 edits, 1 fault |
| `imports_concurrent` | violated: the second of two uploads of one file fails | 2 uploads, no fault |
| `api_process` | isolation, clean connections, no deadlock on the pool, graceful shutdown; requests, probes and the shutdown end, and what holds them up | 2 connections, 2 requests, 1 probe, 2 tenants, 3 tokens, an upload of 2 transactions, allowed or not, beside a read of 1 by the same or the other tenant, 1 lost backend or 1 client that hangs up |
| `migrations` | what is recorded is in effect, in order, and success means up to date | 4 files, the table tenants in the second, 3 runs, both premises |
| `migrations_backfill` | violated: a file is recorded that was never run | the same without `AdoptedInTime` |

Why the bounds are enough. A conflict over a key takes two jobs, and a third can
arrive when both are through; `reminders_safety` makes three for one key (the
cron scan, a manual one, and one more after the crash of a scan). One fault at
any step reaches every crash point, and a stalled run beside a fresh one. Two
tenants let one be disabled, suspended or failing while the other has work. In
`records_safety` two requests race and a third sees or meets what they left; the
version a client may send ranges over all it has read. In `imports` two uploads
meet at every step, of one file or of two that name the same employee, the second
of two may also come when the first is over, and two edits can put the employee
back where it was; `MaxImportRows` is 3 instead of 5000, with a file of four
rows above it. In `api_process` the pool has 2 connections instead of 10 for three
callers that want one each: somebody always has to wait, each connection passes from one
tenant to the other, and the upload has to come back for a second transaction. In
`migrations` one run can meet another at every statement and a third one what
they left; four files are one before the marker, the marker, and two that ship
later. All models have bounded
days, edits, faults, jobs or requests and stop when these are used up, so the
configurations switch the deadlock check off; that nothing waits for ever is what
`reminders_scan`, `imports` and `api_process` show, and `WaitsForOneThatGoesOn`
for the row locks. Jobs, requests and columns are symmetric in the safety runs of `Reminders`
and `Records`.

Fairness. `Reminders` asks for weak fairness of each job's next step and of the
scanner's: the SMTP timeouts of `worker/src/main.ts` end every wait for the
server, BullMQ's lock renewal and stalled check end every run, and Compose
restarts the process. Nothing forces users, the clock, the cron trigger or
faults. `Imports` asks for weak fairness of each upload's next step while the API serves
it, and of each signal's. An upload ends with a job enqueued in Redis, and the connection
is made with `maxRetriesPerRequest: null`, so that it waits as long as Redis is away: that
Redis answers is the premise `RedisAnswers` of `EveryUploadEnds`. `ApiProcess` asks that the
event loop runs what is ready, that the timers of probe and drain fire, and that the pool
serves its queue. That the database and Redis answer is not assumed; it is the premise,
`DatabaseAnswers` and `RedisAnswers`, of the two properties that need it,
`EveryRequestEnds` and `ShutdownEnds`, while `EveryProbeEnds` holds without it. That a
client hangs up is assumed nowhere, so both properties name the request that is stranded.
`Records` and `Migrations` ask for none: that a request which waits for a row lock waits
for one that can go on is an invariant of `Records`.

## What the code does not do

Five properties, quoted from a comment, a document or a test, are violated:

- `FailedIsRetriedByNextScan`: a threshold matches on its day only, so the daily
  scan never retries a FAILED reminder, although `reminder.worker.ts`,
  `main.ts` and ADR-026 say that it does.
- `ScanFindsEveryDueDocument`: the scanner filters on the cached `expiry_status`,
  which nothing recomputes as days pass.
- `NoDuplicateMail`: the key is checked before the mail and claimed after it.
- `SameFileIsReplayed`: looking for the batch and inserting it are two transactions,
  and nothing catches the unique violation of the second upload.
- `RecordedWasApplied`: a first tracked run records every file on disk as applied,
  also one that came after the database was created.

Further behaviour of the code that the models show or follow and that no run states:

- An update takes the new version from the row it selected and tests the version of
  the request, so a client that sends a version it never read can succeed without an
  increment. With `ObservedVersions` FALSE, `NoLostUpdate` fails in `records_safety`;
  `OnlyVersionsAheadBreakTheLock` says what it takes.
- A batch is found by its hash alone. When the upload that began it died, it stays
  PROCESSING, and every later upload of the file is answered with it.
- When the script dies inside the backfill, the next run finds some files recorded,
  applies the others to a schema that has them, and fails; so does every later run.
  `TrackedAsApplied` allows for it: it excuses the files from before the tracking.
- Two first runs at once may both adopt, or one adopt what the other is applying
  (`FirstAlone` FALSE).
- A reminder whose threshold is larger than the widest warning window of the document's
  policy is never enqueued: the scanner reads EXPIRING_SOON only, and on that day the
  engine says VALID (`NoReminderBeyondTheWindow`).
- The `SELECT 1` of a probe that timed out stays in the queue of the pool.
- The drain is capped at 30 s, the shutdown is not: after it `app.close()` waits for
  connections that are checked out, for Redis, and for clients that are connected. When the
  drain times out with a request in the queue of the pool, that request is never answered,
  and it holds the process up until its client goes or the process is killed. This is what
  `ShutdownEnds` excuses (`HeldOpen`) and `EveryRequestEnds` as well (`Stranded`); without
  the excuse TLC refutes both, on a database and a Redis that answer everything.

## Proofs

`ExpiryProofs` proves, for all policies and dates, that the widest window decides
as the four checks do (`EngineIsFourChecks`, and `WidestDecides` for a document), and
that a status only gets worse (`AgeingNeverImproves`). The argument: the status
depends on the days left alone (`StatusByDays`), and `Severity` does not fall as they
do (`SeverityGrows`); the inductive invariant of `AgeInvariant` says that the stored
status is manual or no
worse than what the engine computes today.

`RemindersProofs` proves for any number of documents, tenants and jobs:
`TypeCorrectness`, `SettlesOnce`, `KeysAgreeWithLog`, `SentIsDelivered`. Types
alone are not inductive: that a row has a document needs that a running job has
its payload, and that needs that `pc` and `jobState` agree (`TypeInv`). Settling
once is not inductive either: two jobs that hold one key would commit two rows.
`SettleInv` adds that a job at its commit holds a key that is unclaimed and that
no other job at its commit has (`KeyLock`) and that rows belong to jobs whose
payload never changes again (`RowsHaveJobs`); that an outcome SENT has its delivery
is part of `TypeInv` already. Each action is one step of the proof.

`PipelineProofs` builds on both invariants and proves the following, each with an
invariant of its own:

- `ClosedIsQuiet` and `CompletedLeavesTrace` from `RunInv`: a run that started
  closed is still closed at the two reads that turn it away, because keys and
  archived documents are there for good (`StepGrows`) and payloads are fixed
  (`StepKeeps`); a run at its end is accounted for. `StepOfJob` says what the step
  of another can do to a run: nothing, or end it.
- `ImplementsLedger`: every step maps to a step or a stutter of `ReminderLedger`
  (`NextLedger`). That the two settled sets are the claimed keys is
  `KeyClaimedIffSettled`; that a commit settles an unsettled reminder is `KeyLock`.
- `CompletedScanCovers` from `ScanInv`: while nobody edits and the day stays, each
  document that the scan has to find is at one place of its path (`Covered`): its
  tenant is still to come or is being queried, it is a candidate, it is the hit that
  is being added, or it has a SENT row or a job. `CoverStays` hands it on, action by
  action.
- `JobsRunDown`: a job has at most 10 * (`MaxStalledCount` + 1) steps to make
  (`StepsLeft`); a step of it, or of a fault, leaves fewer, and nothing adds any
  (`StepRuns`). `MailsAreBounded` from `MailInv`: a run mails at its step that sends
  and nowhere else.
- `DuplicatesAreBounded`: the messages of a key are at most `Concurrency` times one more
  than the faults, however many jobs carry it. While the key is free, each message is
  foreseen by a run that is open, one for a slot, or was left by a fault, which ends at
  most as many (`RepeatInv`). The bound is tight: with the two jobs of
  `reminders_duplicate_mail` and one crash TLC finds four messages.
- `SettledForGood`: once a key is claimed and the runs that had found it free are over,
  nothing is mailed or logged for it again, though scans may enqueue it. A renewed
  document has the same key, so it stays silent at a threshold it was reminded of.
- `NoReminderBeyondTheWindow`: every job is for a threshold within the widest warning
  window of its document, because the scanner reads only what some day called
  EXPIRING_SOON (`SoonInv`). `reminder_days_before` may promise more.
- `ScanRunsDown`: for finitely many documents and tenants a scan has at most
  2 * `Cardinality(Docs)` + 3 steps for each tenant and one more (`ScanLeft`); each step
  of it, and what ends it early, leaves fewer.
- `OnlyStaleOrBeyondTheWindowIsMissed`, `OnlyOverlapsAndFaultsRepeatMail` and
  `OneAtATimeMailsOnce`, see below.

`ImportsProofs` proves the six safety properties of `Imports` for files of any
length and any number of uploads, employees, edits and faults. A row is read and a
batch completed only where the stage says so (`StageInv`, with the types:
`TypeCorrectness`). Every change of an employee finds it absent or alive and raises
its version or archives it (`Changes`), which is `ArchivedIsFinal`, and makes
`SeenInv` inductive: since its lookup, the employee of a row is as it was, archived,
or at a higher version, so what the write accepts is what was seen
(`ReplacesWhatWasSeen`). `CountInv` counts the rows before the current one, and says
that without an error all of them are written; with what completion copies
(`CompleteInv`) and the trail repeats (`AuditInv`) it gives `CountsTellTheTruth` and
`SuccessIsWritten`. `ImplementsPromise` needs that a file has one batch (`OneBatch`)
and that keys follow completion (`SignalInv`); `BeginStep`, `ApplyStep`,
`CompleteStep` and `NoteStep` are the four steps of `FileImports`, and all others
are stutters. `ImportsRunDown` counts what is left: two steps for each row of a file
and five more for an upload, four for each run of its signal, which is sent once
(`SignalledOnce`); every step, fault or crash leaves fewer. `AbandonedForGood` is what
the unique hash of a file means after a failure. A batch that is not completed when its
upload is over took a fault and stays as it is whatever comes; its file is lost with it:
later uploads of it write nothing, and no audit event or signal follows.

`RecordsProofs` proves all safety properties of `Records` but one, for any number of
rows, columns, requests and faults. `TypeInv` holds whatever versions clients send:
a row lock has one holder (`OneHolder`), so what a request found when it wrote, no
row or a live one, is so at its commit (`Allows`); that gives `ArchivedIsFinal`, which
the refinement contains and no run states by itself, and `AuditIsAtomic` is part of
it. The others, but for `RecordsRunDown`, need that no PATCH about to write names a version
beyond the row it selected (`NobodyAhead`). `OnlyVersionsAheadBreakTheLock` proves all five
from that alone, whatever clients send: a stale or invented version does no harm while it is
not ahead. `VersionInv` compares a request with its row: the version of a PATCH is at most
that of the row it selected, and that row is there or has `Advanced` since, to a higher
version or into the archive. So the version that the WHERE clause matches is the one
that was selected, and with it the row (`MatchesWhatWasSelected`), although every column
is written from an earlier select: `NoLostUpdate` and `OverrideSticks`. A PATCH that is
done has left its version behind (`OneWinnerPerVersion`), and so has an event that is in
the log (`TrailInv`), which makes the trail one history. Clients that send only versions
they have read are never ahead (`ObservedIsNotAhead`), which gives `RecordsOneWinner`,
`RecordsNoLostUpdate`, `RecordsOverrideSticks`, `RecordsOneHistory` and `RecordsAreAtomic`.

The refinement of `AtomicRecords` (`RecordsAreAtomic`) needs one more
invariant, that only a request which selected a row holds one (`ReadInv`), so that a
POST has no before state to show. A step that is no commit changes nothing that the
abstract specification sees (`UnseenUntilCommit`). A commit writes a row that was made
from an earlier select; by `MatchesWhatWasSelected` and the lock that is the row as it
is at the commit, which makes the step a `Create`, `Patch` or `Archive`
(`CommitStore`), and `CommitTells` says that the trail grows by what that step tells.

`WaitsForOneThatGoesOn` speaks of ENABLED and stays with TLC. Its safety core is proved
as `RecordsRunDown`, for any versions: a request is through after five steps of its own,
and who finds its row locked waits for exactly one request, which is past its write.
What only TLC shows is that the audit and the commit of that one can be taken.

`ApiProofs` and `IsolationProofs` prove the four safety properties of `ApiProcess`,
and its types, for any number of tenants, connections, requests, probes, routes and
faults. `TypeInv` ties where a caller stands to what it has: it holds a connection
in the steps of `WithClient` and nowhere else, is in the queue exactly when it awaits
one (`QueueOK`), and no connection has two holders (`Exclusive`); `NoHoldAndWait`
follows. For isolation `SessionInv` says what the session of a request is at each of
its steps, that the tenant of a request is one it is entitled to, and that an idle
connection is fresh; `ShutdownInv` that pool and import queue end in the phase
`closing` or later, that after a complete drain everybody has an answer or has hung up,
that the process exits with nobody connected, and that a failure has one of three causes:
a lost backend, a drain that timed out, or a client that is gone. Most actions touch one
caller: `OwnStep`, `AskStep`, `OwnSession` and `OwnShutdown` say once why the others keep what they had, and each
action cites them. The proof needs no unique slugs: whichever active tenant of its
slug the lookup finds, every statement of the request runs for that one.
`ApiRequestsRunDown` counts six steps for each transaction of a route and five more.
`ApiQueueMoves` says, for a pool that has connections at all (`Clients # {}`), that who
waits stands in the queue once (`Queued` beside `QueueOK`) and that while somebody waits
there is a connection to hand out or a holder that is at a statement of its own and not
in the queue: however small the pool, no circle of waiting can close.

`MigrationsProofs` proves, for any number of files and runs and under the two
premises, that what is recorded is in effect and what is in effect is recorded, in
order (`MigrationsTracked`), and that success means up to date (`MigrationsDone`).
The inductive invariant follows the plan of a run: what it took for applied is in
effect, what it has to record as a backfill was there from the start, what it does not
have to apply is in effect; and at most one run has a given file open.

### What would keep the claims

Four of the five violated properties have a theorem that says under which premise they
hold. Each premise is enough; that it is the weakest is not claimed. The premises are
conditions on behaviours that the code does not bring about, so the theorems tell what a correction has to achieve.

| Violated | Theorem | Holds while |
|---|---|---|
| `NoDuplicateMail` | `OnlyOverlapsAndFaultsRepeatMail` | no two jobs of one key run together (`Apart`) and nothing fails |
| | `OneAtATimeMailsOnce` | the worker runs one job at a time and nothing fails |
| `ScanFindsEveryDueDocument` | `OnlyStaleOrBeyondTheWindowIsMissed` | the cached status is that of today (`UpToDate`) and the threshold within the widest window |
| `SameFileIsReplayed` | `OnlyOverlapsRefuseAFile` | no two uploads of one file are under way together (`Apart`) |
| `RecordedWasApplied` | `FreshDatabasesAreTracked`, `MigrationsTracked` | the first run is alone, and nothing was run untracked or the database is adopted in time |

The same is said of the optimistic lock, which holds with the clients of the run and fails
with others (`ObservedVersions` FALSE): `OnlyVersionsAheadBreakTheLock` asks a correction to
compare the version with the row at the select, where today only the write compares it.

The first needs, beside the invariants above, what a job knows of its key (`Settles`): it
mails only after it found the key free, and once its message is out the key is claimed
or it is about to claim it. The third needs that what an upload found when it looked for
a batch is still so when it begins its own (`FoundInv`). The last is the invariant of
`MigrationsProofs` again, whose premise `Supervised` takes either of the two. For the
fifth, `FailedIsRetriedByNextScan`, no condition on the schedule helps: the threshold is
matched on its day only.

The proofs assume only the named assumptions of the modules: tenants, policies and
files have their types, a missing row is none of the rows, and the
bounds are numbers. The premises of single theorems (`ObservedVersions`, `FirstAlone`,
`AdoptedInTime`, `Clients # {}`, `Apart` and the like) are in their statements.
Model-checked only: every liveness property (fairness is out of the prover's reach; the
theorems that count steps are the part of them without it) and `WaitsForOneThatGoesOn`.

## Not modelled

Reads without effects: what search, dashboard, notification log and export return,
and the scan of the failure alerts (each hour, over the last six). Formatting of mails
and workbooks, logging, wiring, secrets, deployment, seeding and load tools. Within the
modelled parts: what a message says, malformed job payloads (the producers are in the
repository and write the schema's fields), who acted in an audit event, Redis
losing data, the retention of finished jobs, the shutdown of the worker (its crash
is modelled, which loses more), and the read before the upsert of a notification
policy.

## Plan

1. Done: all modules above and their proofs, with a refinement for each of the three
   components that have an abstract specification.
2. The upsert of notification policies, with the update it can lose; the worker's
   shutdown.
3. A version test at the select of a PATCH, once the code has one: the premise of
   `OnlyVersionsAheadBreakTheLock` then becomes an invariant.
