----------------------------- MODULE Reminders ------------------------------
(***************************************************************************)
(* The reminder pipeline of apps/worker: the daily scanner looks for       *)
(* documents that cross a reminder threshold today and enqueues one        *)
(* send-reminder job for each; up to Concurrency jobs at a time mail the   *)
(* employee and record the outcome in notification_log, claiming the       *)
(* idempotency key on a terminal outcome.  The API edits documents,        *)
(* employees and policies at the same time, and the process may crash.     *)
(*                                                                         *)
(* Every statement of a transaction reads what is committed when it runs   *)
(* (READ COMMITTED); a job's own writes are published by Commit.           *)
(***************************************************************************)
EXTENDS ExpiryEngine, FiniteSets

CONSTANTS
    Docs,              \* documents
    Tenants,           \* tenants
    TenantOf,          \* documents.tenant_id
    Jobs,              \* the identities BullMQ can give to send-reminder jobs
    PolicyOf,          \* the expiry policy of each document's type
    ReminderPolicies,  \* values a tenant_notification_policies row takes
    Concurrency,       \* jobs the reminder worker runs at a time
    MaxStalledCount,   \* BullMQ: times a job may stall before it is failed
    ExpiryDates,       \* bound: the expiry dates documents are given
    MaxDay,            \* bound: the last day modelled
    MaxEdits,          \* bound: edits by users and operators
    MaxFaults          \* bound: crashes and database or Redis errors

ASSUME TenantOfAssumption == TenantOf \in [Docs -> Tenants]
ASSUME PolicyOfAssumption == PolicyOf \in [Docs -> ExpiryPolicy]
ASSUME ReminderPoliciesAssumption ==
    ReminderPolicies \subseteq [enabled : BOOLEAN, reminderDaysBefore : SUBSET (Nat \ {0})]
ASSUME ExpiryDatesAssumption == ExpiryDates \subseteq Int
ASSUME BoundsAssumption ==
    Concurrency \in Nat \ {0} /\ MaxStalledCount \in Nat /\ MaxDay \in Nat
    /\ MaxEdits \in Nat /\ MaxFaults \in Nat

VARIABLES
    today,            \* the UTC day
    cronFired,        \* has the 06:00 trigger fired today?
    documents,        \* [expiryDate, expiryStatus, deleted] of each document
    hasEmail,         \* has the employee of the document an e-mail address?
    activeTenants,    \* tenants with status 'active'
    policy,           \* tenant_notification_policies
    scanRequests,     \* jobs waiting in the queue reminder-scans
    scan,             \* the run of the scanner
    jobState,         \* the queue reminders
    jobData,          \* payload of each of its jobs
    stalls,           \* how often each job has stalled
    pc,               \* where the transaction of a running job is
    outcome,          \* the notification_log row that transaction will commit
    notificationLog,  \* notification_log, committed rows
    idempotencyKeys,  \* idempotency_keys, committed rows
    mailed,           \* history: messages delivered for each job
    closedAtStart,    \* history: jobs that started with their key claimed or document archived
    edits, faults     \* counters for MaxEdits and MaxFaults

apiVars   == <<documents, hasEmail, activeTenants, policy>>
clockVars == <<today, cronFired>>
jobVars   == <<jobState, jobData, stalls, pc, outcome, mailed, closedAtStart>>
tables    == <<notificationLog, idempotencyKeys>>
vars == <<clockVars, apiVars, scanRequests, scan, jobVars, tables, edits, faults>>

-----------------------------------------------------------------------------
(* Data *)

Days == 0..MaxDay

Document == [expiryDate : Int \cup {NoDate}, expiryStatus : ExpiryStatus, deleted : BOOLEAN]

\* idempotencyKey `reminder:${doc.id}:${threshold}` is the pair itself.
Payload == [documentId : Docs, daysBeforeExpiry : Nat \ {0}]
NoPayload == [documentId |-> "none"]

JobStates == {"unused", "waiting", "active", "stalled", "completed", "failed"}
Steps == {"idle", "tenant", "key", "document", "send", "claim", "commit", "ack"}
Terminal == {"SENT", "no_email_on_file", "document_not_found"}
Outcomes == Terminal \cup {"none", "FAILED"}

\* Mutant: the reason of a suppression goes into the column status.
ReasonAsStatus(o) == o

Status(o) == IF o \in {"no_email_on_file", "document_not_found"} THEN "SUPPRESSED" ELSE o

\* A row of notification_log; job and stalls stand for its primary key.
LogRow == [job : Jobs, stalls : Nat, documentId : Docs \cup {"none"}, daysBeforeExpiry : Nat \ {0},
           status : {"SENT", "FAILED", "SUPPRESSED"}, sentAt : Nat]

ScanSteps == {"idle", "tenants", "query", "match", "add"}
Candidate == [documentId : Docs, expiryDate : Int]
Idle == [step |-> "idle", source |-> "none", left |-> {}, tenant |-> "none", thresholds |-> {},
         candidates |-> {}, hit |-> NoPayload, startedOn |-> 0, editsAtStart |-> 0]

TenantOfJob(j) == TenantOf[jobData[j].documentId]

Sent(d, threshold) ==
    \E row \in notificationLog :
        row.documentId = d /\ row.daysBeforeExpiry = threshold /\ row.status = "SENT"

UnusedJobs == {j \in Jobs : jobState[j] = "unused"}

-----------------------------------------------------------------------------
(* Time, users and operators.  A request of the API is one step here: the  *)
(* module Records opens it up.  A request that passed TenantMiddleware may *)
(* commit after its tenant was suspended, so activeTenants guards none.    *)

NewDay ==
    /\ today < MaxDay
    /\ today' = today + 1
    /\ cronFired' = FALSE
    /\ UNCHANGED <<apiVars, scanRequests, scan, jobVars, tables, edits, faults>>

\* The repeatable job '0 6 * * *': at most one instance of it waits.
CronTick ==
    /\ ~cronFired
    /\ cronFired' = TRUE
    /\ scanRequests' = scanRequests \cup {"cron"}
    /\ UNCHANGED <<today, apiVars, scan, jobVars, tables, edits, faults>>

Edit ==
    /\ edits < MaxEdits
    /\ edits' = edits + 1
    /\ UNCHANGED <<clockVars, scan, jobVars, tables, faults>>

\* A second scan job that an operator adds by hand.
RequestScan ==
    /\ Edit
    /\ scanRequests' = scanRequests \cup {"manual"}
    /\ UNCHANGED apiVars

\* PATCH of a document without a manual status; an absent date keeps the old one.
UpdateDocument(d, expiryDate) ==
    /\ Edit
    /\ ~documents[d].deleted
    /\ documents' = [documents EXCEPT
           ![d].expiryDate = expiryDate,
           ![d].expiryStatus = CalculateStatus(expiryDate, today, PolicyOf[d], @)]
    /\ UNCHANGED <<hasEmail, activeTenants, policy, scanRequests>>

OverrideStatus(d, status) ==
    /\ Edit
    /\ ~documents[d].deleted
    /\ documents' = [documents EXCEPT ![d].expiryStatus = status]
    /\ UNCHANGED <<hasEmail, activeTenants, policy, scanRequests>>

ArchiveDocument(d) ==
    /\ Edit
    /\ ~documents[d].deleted
    /\ documents' = [documents EXCEPT ![d].deleted = TRUE]
    /\ UNCHANGED <<hasEmail, activeTenants, policy, scanRequests>>

ChangeEmail(d) ==
    /\ Edit
    /\ hasEmail' = [hasEmail EXCEPT ![d] = ~@]
    /\ UNCHANGED <<documents, activeTenants, policy, scanRequests>>

ChangePolicy(t, row) ==
    /\ Edit
    /\ policy' = [policy EXCEPT ![t] = row]
    /\ UNCHANGED <<documents, hasEmail, activeTenants, scanRequests>>

ChangeTenant(t) ==
    /\ Edit
    /\ activeTenants' = IF t \in activeTenants THEN activeTenants \ {t} ELSE activeTenants \cup {t}
    /\ UNCHANGED <<documents, hasEmail, policy, scanRequests>>

-----------------------------------------------------------------------------
(* The scanner *)

ScanStep ==
    UNCHANGED <<clockVars, apiVars, tables, edits, faults>>

\* Concurrency 1: one scan at a time.  The last conjunct bounds the model.
StartScan(source) ==
    /\ scan.step = "idle"
    /\ source \in scanRequests
    /\ Cardinality(UnusedJobs) >= Cardinality(Docs)
    /\ scanRequests' = scanRequests \ {source}
    /\ scan' = [Idle EXCEPT !.step = "tenants", !.source = source, !.left = activeTenants,
                            !.startedOn = today, !.editsAtStart = edits]
    /\ ScanStep /\ UNCHANGED jobVars

\* Mutant: the first tenant without reminders ends the loop.
OpenTenantOrReturn(t) ==
    /\ scan.step = "tenants"
    /\ t \in scan.left
    /\ scan' = IF t \in activeTenants /\ policy[t].enabled
               THEN [scan EXCEPT !.left = @ \ {t}, !.step = "query", !.tenant = t,
                                 !.thresholds = policy[t].reminderDaysBefore]
               ELSE [scan EXCEPT !.left = {}]
    /\ ScanStep /\ UNCHANGED <<scanRequests, jobVars>>

\* Mutant: a tenant without reminders is looked at again and again.
OpenTenantAgain(t) ==
    /\ scan.step = "tenants"
    /\ t \in scan.left
    /\ t \in activeTenants /\ policy[t].enabled
    /\ scan' = [scan EXCEPT !.left = @ \ {t}, !.step = "query", !.tenant = t,
                            !.thresholds = policy[t].reminderDaysBefore]
    /\ ScanStep /\ UNCHANGED <<scanRequests, jobVars>>

OpenTenant(t) ==
    /\ scan.step = "tenants"
    /\ t \in scan.left
    /\ scan' = IF t \in activeTenants /\ policy[t].enabled
               THEN [scan EXCEPT !.left = @ \ {t}, !.step = "query", !.tenant = t,
                                 !.thresholds = policy[t].reminderDaysBefore]
               ELSE [scan EXCEPT !.left = @ \ {t}]
    /\ ScanStep /\ UNCHANGED <<scanRequests, jobVars>>

SelectCandidates ==
    /\ scan.step = "query"
    /\ LET selected == {d \in Docs : /\ TenantOf[d] = scan.tenant
                                     /\ ~documents[d].deleted
                                     /\ documents[d].expiryDate # NoDate
                                     /\ documents[d].expiryStatus = "EXPIRING_SOON"}
       IN  scan' = [scan EXCEPT !.step = "match",
                       !.candidates = {[documentId |-> d, expiryDate |-> documents[d].expiryDate] :
                                          d \in selected}]
    /\ ScanStep /\ UNCHANGED <<scanRequests, jobVars>>

MatchReminderThreshold(days, reminderDaysBefore) == days \in reminderDaysBefore

MatchCandidate(c) ==
    /\ scan.step = "match"
    /\ c \in scan.candidates
    /\ LET days == CalendarDaysUntil(c.expiryDate, today)
       IN  scan' = IF MatchReminderThreshold(days, scan.thresholds) /\ ~Sent(c.documentId, days)
                   THEN [scan EXCEPT !.candidates = @ \ {c}, !.step = "add",
                            !.hit = [documentId |-> c.documentId, daysBeforeExpiry |-> days]]
                   ELSE [scan EXCEPT !.candidates = @ \ {c}]
    /\ ScanStep /\ UNCHANGED <<scanRequests, jobVars>>

\* The job is in Redis at once, whatever becomes of the scanner's transaction.
AddJob(j) ==
    /\ scan.step = "add"
    /\ jobState[j] = "unused"
    /\ jobState' = [jobState EXCEPT ![j] = "waiting"]
    /\ jobData' = [jobData EXCEPT ![j] = scan.hit]
    /\ scan' = [scan EXCEPT !.step = "match", !.hit = NoPayload]
    /\ ScanStep /\ UNCHANGED <<scanRequests, stalls, pc, outcome, mailed, closedAtStart>>

FinishTenant ==
    /\ scan.step = "match"
    /\ scan.candidates = {}
    /\ scan' = [scan EXCEPT !.step = "tenants", !.tenant = "none", !.thresholds = {}]
    /\ ScanStep /\ UNCHANGED <<scanRequests, jobVars>>

FinishScan ==
    /\ scan.step = "tenants"
    /\ scan.left = {}
    /\ scan' = Idle
    /\ ScanStep /\ UNCHANGED <<scanRequests, jobVars>>

-----------------------------------------------------------------------------
(* The reminder worker: one transaction per run of a job *)

Running(j) == jobState[j] = "active"

\* Mutant: a job that fails keeps its slot.
LeakedSlots == {j \in Jobs : jobState[j] \in {"active", "failed"}}

ActiveJobs == {j \in Jobs : Running(j)}

Closed(j) == jobData[j] \in idempotencyKeys \/ documents[jobData[j].documentId].deleted

JobStep ==
    UNCHANGED <<clockVars, apiVars, scanRequests, scan, jobData, edits>>

TakeJob(j) ==
    /\ jobState[j] = "waiting"
    /\ Cardinality(ActiveJobs) < Concurrency
    /\ jobState' = [jobState EXCEPT ![j] = "active"]
    /\ pc' = [pc EXCEPT ![j] = "tenant"]
    /\ closedAtStart' = IF Closed(j) THEN closedAtStart \cup {j} ELSE closedAtStart \ {j}
    /\ JobStep /\ UNCHANGED <<stalls, outcome, mailed, tables, faults>>

\* The run of j ends: its transaction is over, BullMQ files the job under state.
EndRun(j, state) ==
    /\ jobState' = [jobState EXCEPT ![j] = state]
    /\ pc' = [pc EXCEPT ![j] = "idle"]
    /\ outcome' = [outcome EXCEPT ![j] = "none"]
    /\ UNCHANGED <<stalls, mailed, closedAtStart>>

Goto(j, step, o) ==
    /\ pc' = [pc EXCEPT ![j] = step]
    /\ outcome' = [outcome EXCEPT ![j] = o]
    /\ UNCHANGED <<jobState, stalls, closedAtStart>>

CheckTenant(j) ==
    /\ pc[j] = "tenant"
    /\ IF TenantOfJob(j) \in activeTenants
       THEN Goto(j, "key", "none") /\ UNCHANGED mailed
       ELSE EndRun(j, "failed")
    /\ JobStep /\ UNCHANGED <<tables, faults>>

CheckKey(j) ==
    /\ pc[j] = "key"
    /\ Goto(j, IF jobData[j] \in idempotencyKeys THEN "ack" ELSE "document", "none")
    /\ JobStep /\ UNCHANGED <<mailed, tables, faults>>

\* Mutant: the select forgets that documents are deleted softly.
ReadDeletedToo(j) ==
    /\ pc[j] = "document"
    /\ IF ~hasEmail[jobData[j].documentId] THEN Goto(j, "claim", "no_email_on_file")
       ELSE Goto(j, "send", "none")
    /\ JobStep /\ UNCHANGED <<mailed, tables, faults>>

\* The select of the policy that follows reads only sender and template.
ReadDocument(j) ==
    /\ pc[j] = "document"
    /\ LET d == jobData[j].documentId
       IN  IF documents[d].deleted THEN Goto(j, "claim", "document_not_found")
           ELSE IF ~hasEmail[d] THEN Goto(j, "claim", "no_email_on_file")
           ELSE Goto(j, "send", "none")
    /\ JobStep /\ UNCHANGED <<mailed, tables, faults>>

Deliver(j) == mailed' = [mailed EXCEPT ![j] = @ + 1]

\* Mutant: the result of the dispatcher is ignored.
SendMailUnchecked(j) ==
    /\ pc[j] = "send"
    /\ Goto(j, "claim", "SENT")
    /\ Deliver(j) \/ UNCHANGED mailed
    /\ JobStep /\ UNCHANGED <<tables, faults>>

SendMail(j) ==
    /\ pc[j] = "send"
    /\ \/ Goto(j, "claim", "SENT") /\ Deliver(j)
       \/ Goto(j, "commit", "FAILED") /\ UNCHANGED mailed
    /\ JobStep /\ UNCHANGED <<tables, faults>>

\* The server takes the message but the dispatcher times out on its answer.
LoseSmtpReply(j) ==
    /\ pc[j] = "send"
    /\ faults < MaxFaults
    /\ faults' = faults + 1
    /\ Goto(j, "commit", "FAILED") /\ Deliver(j)
    /\ JobStep /\ UNCHANGED tables

\* k has inserted its key and not yet committed: the primary key makes others wait.
HoldsKey(k) == pc[k] = "commit" /\ outcome[k] # "FAILED"

\* Mutant: ON CONFLICT DO NOTHING.
ClaimOrIgnore(j) ==
    /\ pc[j] = "claim"
    /\ Goto(j, "commit", outcome[j])
    /\ JobStep /\ UNCHANGED <<mailed, tables, faults>>

\* The inserts into notification_log and idempotency_keys.  A duplicate key aborts the
\* transaction; the FAILED row the catch block then inserts is refused, so the job fails.
ClaimKey(j) ==
    /\ pc[j] = "claim"
    /\ \A k \in Jobs : HoldsKey(k) => jobData[k] # jobData[j]
    /\ IF jobData[j] \in idempotencyKeys
       THEN EndRun(j, "failed")
       ELSE Goto(j, "commit", outcome[j]) /\ UNCHANGED mailed
    /\ JobStep /\ UNCHANGED <<tables, faults>>

RowOf(j) ==
    [job |-> j, stalls |-> stalls[j],
     documentId |-> IF outcome[j] = "document_not_found" THEN "none" ELSE jobData[j].documentId,
     daysBeforeExpiry |-> jobData[j].daysBeforeExpiry,
     status |-> Status(outcome[j]), sentAt |-> today]

\* Mutant: the key is claimed before the outcome is known.
PublishAndClaim(j) ==
    /\ notificationLog' = notificationLog \cup {RowOf(j)}
    /\ idempotencyKeys' = idempotencyKeys \cup {jobData[j]}

\* Mutant: only terminal outcomes are logged.
PublishTerminal(j) ==
    IF outcome[j] \in Terminal
    THEN /\ notificationLog' = notificationLog \cup {RowOf(j)}
         /\ idempotencyKeys' = idempotencyKeys \cup {jobData[j]}
    ELSE UNCHANGED tables

Publish(j) ==
    /\ notificationLog' = notificationLog \cup {RowOf(j)}
    /\ idempotencyKeys' = IF outcome[j] \in Terminal THEN idempotencyKeys \cup {jobData[j]}
                          ELSE idempotencyKeys

Commit(j) ==
    /\ pc[j] = "commit"
    /\ Publish(j)
    /\ Goto(j, "ack", "none")
    /\ JobStep /\ UNCHANGED <<mailed, faults>>

Acknowledge(j) ==
    /\ pc[j] = "ack"
    /\ EndRun(j, "completed")
    /\ JobStep /\ UNCHANGED <<tables, faults>>

-----------------------------------------------------------------------------
(* Faults *)

Fault ==
    /\ faults < MaxFaults
    /\ faults' = faults + 1
    /\ UNCHANGED <<clockVars, apiVars, jobData, edits>>

\* A statement fails: rollback, and the job (attempts: 1) is failed for good.
FailStatement(j) ==
    /\ Fault
    /\ pc[j] \in {"tenant", "key", "document", "claim", "commit"}
    /\ EndRun(j, "failed")
    /\ UNCHANGED <<scanRequests, scan, tables>>

\* The commit is done but its answer is lost.
LoseCommitReply(j) ==
    /\ Fault
    /\ pc[j] = "commit"
    /\ Publish(j)
    /\ EndRun(j, "failed")
    /\ UNCHANGED <<scanRequests, scan>>

\* An error in one tenant's transaction ends the loop over the tenants.
FailScan ==
    /\ Fault
    /\ scan.step # "idle"
    /\ scan' = Idle
    /\ UNCHANGED <<scanRequests, jobVars, tables>>

Crash ==
    /\ Fault
    /\ ActiveJobs # {} \/ scan.step # "idle"
    /\ jobState' = [j \in Jobs |-> IF Running(j) THEN "stalled" ELSE jobState[j]]
    /\ pc' = [j \in Jobs |-> "idle"]
    /\ outcome' = [j \in Jobs |-> "none"]
    /\ scan' = Idle
    /\ scanRequests' = IF scan.source \in {"cron", "manual"} THEN scanRequests \cup {"stalled"}
                       ELSE scanRequests
    /\ UNCHANGED <<stalls, mailed, closedAtStart, tables>>

\* BullMQ finds a job whose lock has expired.
RecoverStalled(j) ==
    /\ jobState[j] = "stalled"
    /\ IF stalls[j] < MaxStalledCount
       THEN /\ jobState' = [jobState EXCEPT ![j] = "waiting"]
            /\ stalls' = [stalls EXCEPT ![j] = @ + 1]
       ELSE jobState' = [jobState EXCEPT ![j] = "failed"] /\ UNCHANGED stalls
    /\ JobStep /\ UNCHANGED <<pc, outcome, mailed, closedAtStart, tables, faults>>

-----------------------------------------------------------------------------
(* The specification *)

\* The documents were created on day 0, with the status the engine gives them.
Init ==
    /\ today = 0 /\ cronFired = FALSE
    /\ \E expiryDate \in [Docs -> ExpiryDates] :
          documents = [d \in Docs |->
              [expiryDate |-> expiryDate[d], deleted |-> FALSE,
               expiryStatus |-> CalculateStatus(expiryDate[d], 0, PolicyOf[d], "VALID")]]
    /\ hasEmail = [d \in Docs |-> TRUE]
    /\ activeTenants = Tenants
    /\ policy \in [Tenants -> ReminderPolicies]
    /\ scanRequests = {} /\ scan = Idle
    /\ jobState = [j \in Jobs |-> "unused"]
    /\ jobData = [j \in Jobs |-> NoPayload]
    /\ stalls = [j \in Jobs |-> 0]
    /\ pc = [j \in Jobs |-> "idle"]
    /\ outcome = [j \in Jobs |-> "none"]
    /\ notificationLog = {} /\ idempotencyKeys = {}
    /\ mailed = [j \in Jobs |-> 0]
    /\ closedAtStart = {}
    /\ edits = 0 /\ faults = 0

RunJob(j) ==
    \/ TakeJob(j)     \/ CheckTenant(j) \/ CheckKey(j) \/ ReadDocument(j)
    \/ SendMail(j)    \/ ClaimKey(j)    \/ Commit(j)   \/ Acknowledge(j)
    \/ RecoverStalled(j)

RunScan ==
    \/ \E source \in scanRequests : StartScan(source)
    \/ \E t \in scan.left : OpenTenant(t)
    \/ SelectCandidates
    \/ \E c \in scan.candidates : MatchCandidate(c)
    \/ \E j \in Jobs : AddJob(j)
    \/ FinishTenant
    \/ FinishScan

Environment ==
    \/ NewDay
    \/ CronTick
    \/ RequestScan
    \/ \E d \in Docs : \E e \in ExpiryDates \cup {documents[d].expiryDate} : UpdateDocument(d, e)
    \/ \E d \in Docs, status \in ManualStatus : OverrideStatus(d, status)
    \/ \E d \in Docs : ArchiveDocument(d)
    \/ \E d \in Docs : ChangeEmail(d)
    \/ \E t \in Tenants, row \in ReminderPolicies : ChangePolicy(t, row)
    \/ \E t \in Tenants : ChangeTenant(t)

Faulty ==
    \/ \E j \in Jobs : LoseSmtpReply(j) \/ FailStatement(j) \/ LoseCommitReply(j)
    \/ FailScan
    \/ Crash

Next ==
    \/ \E j \in Jobs : RunJob(j)
    \/ RunScan
    \/ Environment
    \/ Faulty

Spec == Init /\ [][Next]_vars

\* The worker process keeps taking steps: SMTP timeouts and the lock renewal of
\* BullMQ end every wait, and Compose restarts a process that died.
Fairness == (\A j \in Jobs : WF_vars(RunJob(j))) /\ WF_vars(RunScan)

FairSpec == Spec /\ Fairness

-----------------------------------------------------------------------------
(* Properties *)

ScanState ==
    [step : ScanSteps, source : {"none", "cron", "manual", "stalled"},
     left : SUBSET Tenants, tenant : Tenants \cup {"none"}, thresholds : SUBSET (Nat \ {0}),
     candidates : SUBSET Candidate, hit : Payload \cup {NoPayload},
     startedOn : Days, editsAtStart : 0..MaxEdits]

ApiTypeOK ==
    /\ documents \in [Docs -> Document]
    /\ hasEmail \in [Docs -> BOOLEAN]
    /\ activeTenants \subseteq Tenants
    /\ policy \in [Tenants -> ReminderPolicies]

QueueTypeOK ==
    /\ jobState \in [Jobs -> JobStates]
    /\ jobData \in [Jobs -> Payload \cup {NoPayload}]
    /\ stalls \in [Jobs -> 0..MaxStalledCount]

RunTypeOK ==
    /\ pc \in [Jobs -> Steps]
    /\ outcome \in [Jobs -> Outcomes]
    /\ mailed \in [Jobs -> Nat]
    /\ closedAtStart \subseteq Jobs

TableTypeOK == notificationLog \subseteq LogRow /\ idempotencyKeys \subseteq Payload

CounterTypeOK ==
    /\ today \in Days
    /\ scanRequests \subseteq {"cron", "manual", "stalled"}
    /\ edits \in 0..MaxEdits /\ faults \in 0..MaxFaults

\* Every variable has its type: whatever users, scanner, jobs and faults do, the rows
\* of the log and of idempotency_keys keep the shape of their tables.
TypeOK ==
    /\ ApiTypeOK /\ scan \in ScanState /\ QueueTypeOK /\ RunTypeOK /\ TableTypeOK
    /\ CounterTypeOK /\ cronFired \in BOOLEAN

TerminalRows == {row \in notificationLog : row.status # "FAILED"}

KeyOfRow(row) == jobData[row.job]

\* A reminder is settled once: however many jobs carry its key, whether they run side
\* by side or again after a crash, notification_log gets at most one row SENT or
\* SUPPRESSED for it (check of the key, primary key, one transaction for both inserts).
SettledOnce ==
    \A r, s \in TerminalRows : KeyOfRow(r) = KeyOfRow(s) => r = s

\* A key is claimed exactly when such a row is there: a FAILED dispatch never claims
\* the key (it would block every retry) and no crash leaves one without the other.
KeyClaimedIffSettled ==
    idempotencyKeys = {KeyOfRow(row) : row \in TerminalRows}

\* The log never says SENT of a message that the mail server did not take.
SentWasDelivered ==
    \A row \in notificationLog : row.status = "SENT" => mailed[row.job] > 0

\* A job that starts when its key is claimed already, or its document archived, mails
\* nobody: the reads it makes after it started are enough for what happened before.
ClosedReminderIsQuiet ==
    [][\A j \in Jobs : mailed'[j] # mailed[j] => j \notin closedAtStart]_vars

\* A job that BullMQ counts as completed left its trace: the key is claimed or
\* the log has its FAILED row.  No reminder is dropped without one.
CompletedIsAccounted ==
    \A j \in Jobs : jobState[j] = "completed" =>
        \/ jobData[j] \in idempotencyKeys
        \/ \E row \in notificationLog : row.job = j /\ row.status = "FAILED"

Enqueued(key) == \E j \in Jobs : jobState[j] # "unused" /\ jobData[j] = key

Scannable(d, t) ==
    /\ t \in activeTenants /\ policy[t].enabled /\ TenantOf[d] = t
    /\ ~documents[d].deleted /\ documents[d].expiryDate # NoDate

\* Days until d expires is one of its tenant's thresholds today.
Due(d) ==
    LET days == CalendarDaysUntil(documents[d].expiryDate, today)
    IN  Scannable(d, TenantOf[d]) /\ days \in policy[TenantOf[d]].reminderDaysBefore

KeyDue(d) == [documentId |-> d,
              daysBeforeExpiry |-> CalendarDaysUntil(documents[d].expiryDate, today)]

\* A scan that ran within one day and saw no edit.
UndisturbedScan == FinishScan /\ scan.startedOn = today /\ scan.editsAtStart = edits

\* A scan that completes has left none of the documents it looks for behind: for each
\* document cached as EXPIRING_SOON that crosses a threshold today there is a SENT row
\* or a job, whatever jobs, crashes and earlier scans did meanwhile.
ScanLeavesNoneBehind ==
    [][UndisturbedScan => \A d \in Docs :
          Due(d) /\ documents[d].expiryStatus = "EXPIRING_SOON" =>
             Sent(d, KeyDue(d).daysBeforeExpiry) \/ Enqueued(KeyDue(d))]_vars

\* The pipeline keeps the promises of ReminderLedger.
Ledger == INSTANCE ReminderLedger WITH
    Attempts <- Jobs,
    Reminders <- Payload,
    Unassigned <- NoPayload,
    reminder <- jobData,
    opened <- {j \in Jobs : pc[j] \in {"document", "send", "claim", "commit"}},
    delivered <- mailed,
    sent <- {KeyOfRow(row) : row \in {r \in notificationLog : r.status = "SENT"}},
    suppressed <- {KeyOfRow(row) : row \in {r \in notificationLog : r.status = "SUPPRESSED"}}

LedgerSpec == Ledger!Spec

\* Every job comes to an end: no wait for a key, a slot or a stalled run is for ever.
EveryJobEnds ==
    \A j \in Jobs :
        jobState[j] \in {"waiting", "active", "stalled"} ~> jobState[j] \in {"completed", "failed"}

\* Every scan comes to an end.
EveryScanEnds == scan.step # "idle" ~> scan.step = "idle"

-----------------------------------------------------------------------------
(* What the repository says and the code does not do *)

\* threat-model.md T8: duplicate job processing has no duplicate side effects.
NoDuplicateMail ==
    \A j, k \in Jobs :
        /\ mailed[j] <= 1
        /\ j # k /\ jobData[j] = jobData[k] => mailed[j] = 0 \/ mailed[k] = 0

\* reminder.worker.ts: after a FAILED dispatch the next scheduled scan re-enqueues.
FailedIsRetriedByNextScan ==
    [][UndisturbedScan => \A row \in notificationLog :
          /\ row.status = "FAILED" /\ row.sentAt < today
          /\ KeyOfRow(row) \notin idempotencyKeys
          /\ Scannable(row.documentId, TenantOf[row.documentId])
          => \E j \in Jobs \ {row.job} : jobData[j] = KeyOfRow(row)]_vars

\* reminder-scanner.worker.ts: a scan finds the documents crossing a threshold today
\* (those that no user took out of the engine's hands).
ScanFindsEveryDueDocument ==
    [][UndisturbedScan => \A d \in Docs :
          Due(d) /\ documents[d].expiryStatus \notin ManualStatus =>
             Sent(d, KeyDue(d).daysBeforeExpiry) \/ Enqueued(KeyDue(d))]_vars
=============================================================================
