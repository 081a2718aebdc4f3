-------------------------- MODULE RemindersProofs ---------------------------
(***************************************************************************)
(* Theorems about Reminders, for any documents, tenants, jobs, policies,   *)
(* concurrency and number of days, edits and faults.                       *)
(***************************************************************************)
EXTENDS Reminders, TLAPS

\* Where a run is determines what BullMQ and its transaction hold.
Control ==
    \A j \in Jobs :
        /\ pc[j] = "idle" <=> jobState[j] # "active"
        /\ jobState[j] = "unused" => jobData[j] = NoPayload
        /\ jobState[j] # "unused" => jobData[j] \in Payload
        /\ pc[j] = "claim" => outcome[j] \in Terminal
        /\ pc[j] = "commit" => outcome[j] \in Terminal \cup {"FAILED"}
        /\ outcome[j] = "SENT" => mailed[j] > 0

ScanControl == scan.step = "add" => scan.hit \in Payload

TypeInv == TypeOK /\ Control /\ ScanControl

LEMMA StatusType ==
    ASSUME NEW e, NEW t, NEW p, NEW s \in ExpiryStatus
    PROVE  CalculateStatus(e, t, p, s) \in ExpiryStatus
  BY DEF CalculateStatus, PastStatus, FutureStatus, ExpiryStatus, ComputedStatus, ManualStatus

LEMMA InitTypeInv == Init => TypeInv
  <1> SUFFICES ASSUME Init PROVE TypeInv
    OBVIOUS
  <1> USE BoundsAssumption
  <1>1. documents \in [Docs -> Document]
    <2>1. PICK expiryDate \in [Docs -> ExpiryDates] :
              documents = [d \in Docs |->
                  [expiryDate |-> expiryDate[d], deleted |-> FALSE,
                   expiryStatus |-> CalculateStatus(expiryDate[d], 0, PolicyOf[d], "VALID")]]
      BY DEF Init
    <2>2. \A d \in Docs :
              CalculateStatus(expiryDate[d], 0, PolicyOf[d], "VALID") \in ExpiryStatus
      BY StatusType DEF ExpiryStatus, ComputedStatus
    <2> QED
      BY <2>1, <2>2, ExpiryDatesAssumption DEF Document
  <1>2. scan \in ScanState
    BY DEF Init, Idle, ScanSteps, Days, ScanState
  <1>3. ApiTypeOK
    BY <1>1 DEF Init, ApiTypeOK
  <1>4. QueueTypeOK
    BY DEF Init, QueueTypeOK, JobStates
  <1>5. RunTypeOK
    BY DEF Init, RunTypeOK, Steps, Outcomes
  <1>6. TableTypeOK
    BY DEF Init, TableTypeOK
  <1>7. CounterTypeOK
    BY DEF Init, CounterTypeOK, Days
  <1>8. Control
    BY DEF Init, Control
  <1>9. ScanControl
    BY DEF Init, ScanControl, Idle
  <1>10. cronFired \in BOOLEAN
    BY Zenon DEF Init
  <1> QED
    BY <1>2, <1>3, <1>4, <1>5, <1>6, <1>7, <1>8, <1>9, <1>10, Zenon DEF TypeInv, TypeOK

-----------------------------------------------------------------------------
(* Type correctness: the steps *)

\* What a step on the jobs leaves of the invariant when it touches no other variable.
JobTypes == QueueTypeOK /\ RunTypeOK /\ Control

LEMMA IdleTypes == Idle \in ScanState /\ Idle.step = "idle"
  BY BoundsAssumption DEF Idle, ScanState, ScanSteps, Days

LEMMA JobsUnchanged ==
    ASSUME JobTypes, UNCHANGED jobVars
    PROVE  JobTypes'
  BY DEF JobTypes, QueueTypeOK, RunTypeOK, Control, jobVars

LEMMA EndRunTypes ==
    ASSUME JobTypes, NEW j \in Jobs, NEW state \in {"completed", "failed"},
           pc[j] # "idle", EndRun(j, state), UNCHANGED jobData
    PROVE  JobTypes'
  BY DEF JobTypes, QueueTypeOK, RunTypeOK, Control, EndRun, JobStates, Steps, Outcomes

LEMMA GotoTypes ==
    ASSUME JobTypes, NEW j \in Jobs, NEW step \in Steps \ {"idle"}, NEW o \in Outcomes,
           pc[j] # "idle", Goto(j, step, o), UNCHANGED jobData,
           step = "claim" => o \in Terminal,
           step = "commit" => o \in Terminal \cup {"FAILED"},
           UNCHANGED mailed \/ Deliver(j),
           o = "SENT" => outcome[j] = "SENT" \/ Deliver(j)
    PROVE  JobTypes'
  <1>1. mailed' \in [Jobs -> Nat] /\ \A k \in Jobs : mailed[k] > 0 => mailed'[k] > 0
    BY DEF JobTypes, RunTypeOK, Deliver
  <1>2. o = "SENT" => mailed'[j] > 0
    BY <1>1 DEF JobTypes, RunTypeOK, Control, Deliver
  <1>3. QueueTypeOK' /\ RunTypeOK'
    BY <1>1 DEF JobTypes, QueueTypeOK, RunTypeOK, Goto
  <1>4. Control'
    BY <1>1, <1>2 DEF JobTypes, QueueTypeOK, RunTypeOK, Control, Goto
  <1> QED
    BY <1>3, <1>4 DEF JobTypes

LEMMA EditTypes ==
    ASSUME TypeInv, Environment
    PROVE  TypeInv'
  <1> USE BoundsAssumption
  <1> USE DEF TypeInv, TypeOK
  <1>1. JobTypes'
    <2>1. UNCHANGED jobVars
      BY DEF Environment, NewDay, CronTick, Edit, RequestScan, UpdateDocument, OverrideStatus,
             ArchiveDocument, ChangeEmail, ChangePolicy, ChangeTenant
    <2> QED
      BY <2>1, JobsUnchanged DEF JobTypes
  <1>2. (scan \in ScanState /\ TableTypeOK /\ ScanControl)'
    <2>1. UNCHANGED <<scan, tables>>
      BY DEF Environment, NewDay, CronTick, Edit, RequestScan, UpdateDocument, OverrideStatus,
             ArchiveDocument, ChangeEmail, ChangePolicy, ChangeTenant
    <2> QED
      BY <2>1 DEF ScanState, TableTypeOK, ScanControl, tables
  <1>3. ApiTypeOK' /\ CounterTypeOK' /\ cronFired' \in BOOLEAN
    <2>1. CASE NewDay
      <3>1. ApiTypeOK' /\ CounterTypeOK'
        BY <2>1 DEF NewDay, ApiTypeOK, CounterTypeOK, Days, apiVars
      <3>2. cronFired' \in BOOLEAN
        BY <2>1, Zenon DEF NewDay
      <3> QED
        BY <3>1, <3>2
    <2>2. CASE CronTick
      <3>1. ApiTypeOK' /\ CounterTypeOK'
        BY <2>2 DEF CronTick, ApiTypeOK, CounterTypeOK, apiVars
      <3>2. cronFired' \in BOOLEAN
        BY <2>2, Zenon DEF CronTick
      <3> QED
        BY <3>1, <3>2
    <2>3. ASSUME Edit PROVE edits' \in 0..MaxEdits /\ UNCHANGED <<today, cronFired, faults>>
      BY <2>3 DEF Edit, CounterTypeOK, clockVars
    <2>4. CASE RequestScan
      BY <2>3, <2>4 DEF RequestScan, ApiTypeOK, CounterTypeOK, apiVars
    <2>5. ASSUME NEW d \in Docs, NEW e \in ExpiryDates \cup {documents[d].expiryDate},
                 UpdateDocument(d, e)
          PROVE  ApiTypeOK' /\ CounterTypeOK' /\ cronFired' \in BOOLEAN
      <3>1. documents[d] \in Document /\ e \in Int \cup {NoDate}
        BY ExpiryDatesAssumption DEF ApiTypeOK, Document
      <3>2. CalculateStatus(e, today, PolicyOf[d], documents[d].expiryStatus) \in ExpiryStatus
        BY <3>1, StatusType DEF Document
      <3>3. documents' \in [Docs -> Document]
        BY <2>5, <3>1, <3>2 DEF UpdateDocument, ApiTypeOK, Document
      <3> QED
        BY <2>3, <2>5, <3>3 DEF UpdateDocument, ApiTypeOK, CounterTypeOK
    <2>6. ASSUME NEW d \in Docs, NEW status \in ManualStatus, OverrideStatus(d, status)
          PROVE  ApiTypeOK' /\ CounterTypeOK' /\ cronFired' \in BOOLEAN
      BY <2>3, <2>6 DEF OverrideStatus, ApiTypeOK, CounterTypeOK, Document, ExpiryStatus
    <2>7. ASSUME NEW d \in Docs, ArchiveDocument(d)
          PROVE  ApiTypeOK' /\ CounterTypeOK' /\ cronFired' \in BOOLEAN
      BY <2>3, <2>7 DEF ArchiveDocument, ApiTypeOK, CounterTypeOK, Document
    <2>8. ASSUME NEW d \in Docs, ChangeEmail(d)
          PROVE  ApiTypeOK' /\ CounterTypeOK' /\ cronFired' \in BOOLEAN
      BY <2>3, <2>8 DEF ChangeEmail, ApiTypeOK, CounterTypeOK
    <2>9. ASSUME NEW t \in Tenants, NEW row \in ReminderPolicies, ChangePolicy(t, row)
          PROVE  ApiTypeOK' /\ CounterTypeOK' /\ cronFired' \in BOOLEAN
      BY <2>3, <2>9 DEF ChangePolicy, ApiTypeOK, CounterTypeOK
    <2>10. ASSUME NEW t \in Tenants, ChangeTenant(t)
           PROVE  ApiTypeOK' /\ CounterTypeOK' /\ cronFired' \in BOOLEAN
      BY <2>3, <2>10 DEF ChangeTenant, ApiTypeOK, CounterTypeOK
    <2> QED
      BY <2>1, <2>2, <2>4, <2>5, <2>6, <2>7, <2>8, <2>9, <2>10 DEF Environment
  <1> QED
    BY <1>1, <1>2, <1>3 DEF JobTypes

LEMMA ScanTypes ==
    ASSUME TypeInv, RunScan
    PROVE  TypeInv'
  <1> USE DEF TypeInv, TypeOK
  <1>1. ApiTypeOK' /\ TableTypeOK' /\ CounterTypeOK' /\ cronFired' \in BOOLEAN
    <2>1. UNCHANGED <<clockVars, apiVars, tables, edits, faults>> /\ scanRequests' \subseteq scanRequests
      BY DEF RunScan, ScanStep, StartScan, OpenTenant, SelectCandidates, MatchCandidate, AddJob,
             FinishTenant, FinishScan
    <2> QED
      BY <2>1 DEF ApiTypeOK, TableTypeOK, CounterTypeOK, clockVars, apiVars, tables
  <1>2. (scan \in ScanState /\ ScanControl /\ JobTypes)'
    <2>1. ASSUME UNCHANGED jobVars PROVE JobTypes'
      BY <2>1, JobsUnchanged DEF JobTypes
    <2>2. ASSUME NEW source \in scanRequests, StartScan(source)
          PROVE  (scan \in ScanState /\ ScanControl /\ JobTypes)'
      <3>1. scan' \in ScanState /\ scan'.step = "tenants"
        BY <2>2 DEF StartScan, Idle, ScanState, ScanSteps, CounterTypeOK, ApiTypeOK
      <3> QED
        BY <2>1, <2>2, <3>1 DEF StartScan, ScanControl
    <2>3. ASSUME NEW t \in scan.left, OpenTenant(t)
          PROVE  (scan \in ScanState /\ ScanControl /\ JobTypes)'
      <3>1. t \in Tenants /\ policy[t].reminderDaysBefore \in SUBSET (Nat \ {0})
        BY ReminderPoliciesAssumption DEF ScanState, ApiTypeOK
      <3>2. scan' \in ScanState /\ scan'.step \in {"query", "tenants"}
        BY <2>3, <3>1 DEF OpenTenant, ScanState, ScanSteps
      <3> QED
        BY <2>1, <2>3, <3>2 DEF OpenTenant, ScanControl
    <2>4. CASE SelectCandidates
      <3>1. \A d \in Docs : documents[d].expiryDate # NoDate =>
                [documentId |-> d, expiryDate |-> documents[d].expiryDate] \in Candidate
        BY DEF ApiTypeOK, Document, Candidate
      <3> DEFINE selected == {d \in Docs : /\ TenantOf[d] = scan.tenant
                                            /\ ~documents[d].deleted
                                            /\ documents[d].expiryDate # NoDate
                                            /\ documents[d].expiryStatus = "EXPIRING_SOON"}
      <3> DEFINE found == {[documentId |-> d, expiryDate |-> documents[d].expiryDate] :
                              d \in selected}
      <3>2. found \in SUBSET Candidate
        BY <3>1
      <3>3. scan' = [scan EXCEPT !.step = "match", !.candidates = found]
        BY <2>4 DEF SelectCandidates
      <3> HIDE DEF found
      <3>4. scan' \in ScanState /\ scan'.step = "match"
        BY <3>2, <3>3 DEF ScanState, ScanSteps
      <3> QED
        BY <2>1, <2>4, <3>4 DEF SelectCandidates, ScanControl
    <2>5. ASSUME NEW c \in scan.candidates, MatchCandidate(c)
          PROVE  (scan \in ScanState /\ ScanControl /\ JobTypes)'
      <3> DEFINE days == CalendarDaysUntil(c.expiryDate, today)
      <3> DEFINE key == [documentId |-> c.documentId, daysBeforeExpiry |-> days]
      <3>1. c.documentId \in Docs /\ scan.thresholds \subseteq Nat \ {0}
        BY DEF ScanState, Candidate
      <3>2. days \in scan.thresholds => key \in Payload
        BY <3>1 DEF Payload
      <3> HIDE DEF days
      <3>3. \/ scan' = [scan EXCEPT !.candidates = @ \ {c}]
            \/ /\ scan' = [scan EXCEPT !.candidates = @ \ {c}, !.step = "add", !.hit = key]
               /\ key \in Payload
        BY <2>5, <3>2 DEF MatchCandidate, MatchReminderThreshold, days
      <3>4. scan' \in ScanState /\ (scan'.step = "add" => scan'.hit \in Payload)
        BY <2>5, <3>3 DEF ScanState, ScanSteps, ScanControl
      <3> QED
        BY <2>1, <2>5, <3>4 DEF MatchCandidate, ScanControl
    <2>6. ASSUME NEW j \in Jobs, AddJob(j)
          PROVE  (scan \in ScanState /\ ScanControl /\ JobTypes)'
      <3>1. scan' \in ScanState /\ scan'.step = "match"
        BY <2>6 DEF AddJob, ScanState, ScanSteps
      <3>2. scan.hit \in Payload
        BY <2>6 DEF AddJob, ScanControl
      <3>3. QueueTypeOK' /\ RunTypeOK'
        BY <2>6, <3>2 DEF AddJob, QueueTypeOK, RunTypeOK, JobStates
      <3>4. Control'
        BY <2>6, <3>2 DEF AddJob, Control, QueueTypeOK
      <3> QED
        BY <3>1, <3>3, <3>4 DEF ScanControl, JobTypes
    <2>7. CASE FinishTenant
      <3>1. scan' \in ScanState /\ scan'.step = "tenants"
        BY <2>7 DEF FinishTenant, ScanState, ScanSteps
      <3> QED
        BY <2>1, <2>7, <3>1 DEF FinishTenant, ScanControl
    <2>8. CASE FinishScan
      <3>1. scan' \in ScanState /\ scan'.step = "idle"
        BY <2>8, IdleTypes DEF FinishScan, Idle
      <3> QED
        BY <2>1, <2>8, <3>1 DEF FinishScan, ScanControl
    <2> QED
      BY <2>2, <2>3, <2>4, <2>5, <2>6, <2>7, <2>8 DEF RunScan
  <1> QED
    BY <1>1, <1>2 DEF JobTypes

LEMMA RowTypes ==
    ASSUME TypeInv, NEW j \in Jobs, pc[j] = "commit", Publish(j)
    PROVE  TableTypeOK'
  <1>1. jobData[j] \in Payload /\ outcome[j] \in Terminal \cup {"FAILED"}
    BY DEF TypeInv, TypeOK, Control, RunTypeOK, QueueTypeOK
  <1>2. Status(outcome[j]) \in {"SENT", "FAILED", "SUPPRESSED"}
    BY <1>1 DEF Status, Terminal
  <1>3. stalls[j] \in Nat /\ today \in Nat
    BY BoundsAssumption DEF TypeInv, TypeOK, QueueTypeOK, CounterTypeOK, Days
  <1>4. RowOf(j) \in LogRow
    BY <1>1, <1>2, <1>3 DEF RowOf, LogRow, Payload
  <1> QED
    BY <1>1, <1>4 DEF Publish, TableTypeOK, TypeInv, TypeOK

LEMMA RunTypes ==
    ASSUME TypeInv, NEW j \in Jobs, RunJob(j)
    PROVE  TypeInv'
  <1> USE DEF TypeInv, TypeOK
  <1>0. JobTypes
    BY DEF JobTypes
  <1>1. /\ ApiTypeOK' /\ CounterTypeOK' /\ cronFired' \in BOOLEAN
        /\ scan' \in ScanState /\ ScanControl'
    <2>1. UNCHANGED <<clockVars, apiVars, scanRequests, scan, edits, faults>>
      BY DEF RunJob, JobStep, TakeJob, CheckTenant, CheckKey, ReadDocument, SendMail, ClaimKey,
             Commit, Acknowledge, RecoverStalled
    <2> QED
      BY <2>1 DEF ApiTypeOK, ScanControl, CounterTypeOK, clockVars, apiVars
  <1>2. TableTypeOK'
    <2>1. CASE Commit(j)
      BY <2>1, RowTypes DEF Commit
    <2>2. CASE ~Commit(j)
      <3>1. UNCHANGED tables
        BY <2>2 DEF RunJob, TakeJob, CheckTenant, CheckKey, ReadDocument, SendMail, ClaimKey,
                    Acknowledge, RecoverStalled
      <3> QED
        BY <3>1 DEF TableTypeOK, tables
    <2> QED
      BY <2>1, <2>2
  <1>3. JobTypes'
    <2>1. CASE TakeJob(j)
      <3>1. QueueTypeOK' /\ RunTypeOK'
        BY <2>1 DEF TakeJob, JobStep, QueueTypeOK, RunTypeOK, JobStates, Steps
      <3>2. Control'
        BY <2>1 DEF TakeJob, JobStep, Control, QueueTypeOK, RunTypeOK
      <3> QED
        BY <3>1, <3>2 DEF JobTypes
    <2>2. CASE CheckTenant(j)
      BY <1>0, <2>2, EndRunTypes, GotoTypes DEF CheckTenant, JobStep, Steps, Outcomes
    <2>3. CASE CheckKey(j)
      BY <1>0, <2>3, GotoTypes DEF CheckKey, JobStep, Steps, Outcomes
    <2>4. CASE ReadDocument(j)
      BY <1>0, <2>4, GotoTypes DEF ReadDocument, JobStep, Steps, Outcomes, Terminal
    <2>5. CASE SendMail(j)
      BY <1>0, <2>5, GotoTypes DEF SendMail, JobStep, Steps, Outcomes, Terminal
    <2>6. CASE ClaimKey(j)
      <3>1. outcome[j] \in Terminal
        BY <2>6 DEF ClaimKey, Control
      <3> QED
        BY <1>0, <2>6, <3>1, EndRunTypes, GotoTypes DEF ClaimKey, JobStep, Steps, Outcomes
    <2>7. CASE Commit(j)
      BY <1>0, <2>7, GotoTypes DEF Commit, JobStep, Steps, Outcomes
    <2>8. CASE Acknowledge(j)
      BY <1>0, <2>8, EndRunTypes DEF Acknowledge, JobStep
    <2>9. CASE RecoverStalled(j)
      <3>1. QueueTypeOK' /\ RunTypeOK'
        BY <2>9, BoundsAssumption DEF RecoverStalled, JobStep, QueueTypeOK, RunTypeOK, JobStates
      <3>2. Control'
        BY <2>9 DEF RecoverStalled, JobStep, Control, QueueTypeOK
      <3> QED
        BY <3>1, <3>2 DEF JobTypes
    <2> QED
      BY <2>1, <2>2, <2>3, <2>4, <2>5, <2>6, <2>7, <2>8, <2>9 DEF RunJob
  <1> QED
    BY <1>1, <1>2, <1>3 DEF JobTypes

LEMMA FaultTypes ==
    ASSUME TypeInv, Faulty
    PROVE  TypeInv'
  <1> USE DEF TypeInv, TypeOK
  <1>0. JobTypes
    BY DEF JobTypes
  <1>1. ApiTypeOK' /\ CounterTypeOK' /\ cronFired' \in BOOLEAN
    <2>1. /\ UNCHANGED <<clockVars, apiVars, edits>>
          /\ faults < MaxFaults /\ faults' = faults + 1
          /\ scanRequests' \subseteq scanRequests \cup {"stalled"}
      BY DEF Faulty, Fault, JobStep, LoseSmtpReply, FailStatement, LoseCommitReply, FailScan, Crash
    <2> QED
      BY <2>1, BoundsAssumption DEF ApiTypeOK, CounterTypeOK, clockVars, apiVars
  <1>2. scan' \in ScanState /\ ScanControl'
    <2>1. scan' = scan \/ scan' = Idle
      BY DEF Faulty, Fault, JobStep, LoseSmtpReply, FailStatement, LoseCommitReply, FailScan, Crash
    <2> QED
      BY <2>1, IdleTypes DEF ScanControl
  <1>3. ASSUME NEW j \in Jobs, LoseSmtpReply(j) PROVE JobTypes' /\ TableTypeOK'
    <2>1. JobTypes'
      BY <1>0, <1>3, GotoTypes DEF LoseSmtpReply, JobStep, Steps, Outcomes, Terminal
    <2> QED
      BY <1>3, <2>1 DEF LoseSmtpReply, TableTypeOK, tables
  <1>4. ASSUME NEW j \in Jobs, FailStatement(j) PROVE JobTypes' /\ TableTypeOK'
    <2>1. JobTypes'
      BY <1>0, <1>4, EndRunTypes DEF FailStatement, Fault
    <2> QED
      BY <1>4, <2>1 DEF FailStatement, TableTypeOK, tables
  <1>5. ASSUME NEW j \in Jobs, LoseCommitReply(j) PROVE JobTypes' /\ TableTypeOK'
    <2>1. JobTypes'
      BY <1>0, <1>5, EndRunTypes DEF LoseCommitReply, Fault
    <2> QED
      BY <1>5, <2>1, RowTypes DEF LoseCommitReply
  <1>6. ASSUME FailScan PROVE JobTypes' /\ TableTypeOK'
    BY <1>0, <1>6, JobsUnchanged DEF FailScan, TableTypeOK, tables
  <1>7. ASSUME Crash PROVE JobTypes' /\ TableTypeOK'
    <2>1. QueueTypeOK' /\ RunTypeOK'
      BY <1>7 DEF Crash, Fault, Running, QueueTypeOK, RunTypeOK, JobStates, Steps, Outcomes
    <2>2. Control'
      BY <1>7 DEF Crash, Fault, Running, Control, QueueTypeOK
    <2> QED
      BY <1>7, <2>1, <2>2 DEF Crash, JobTypes, TableTypeOK, tables
  <1> QED
    BY <1>1, <1>2, <1>3, <1>4, <1>5, <1>6, <1>7 DEF Faulty, JobTypes

LEMMA NextTypeInv == TypeInv /\ [Next]_vars => TypeInv'
  <1> SUFFICES ASSUME TypeInv, [Next]_vars PROVE TypeInv'
    OBVIOUS
  <1>1. CASE Next
    BY <1>1, RunTypes, ScanTypes, EditTypes, FaultTypes DEF Next
  <1>2. CASE UNCHANGED vars
    <2>1. JobTypes'
      BY <1>2, JobsUnchanged DEF vars, TypeInv, TypeOK, JobTypes
    <2> QED
      BY <1>2, <2>1 DEF vars, clockVars, apiVars, tables, JobTypes, TypeInv, TypeOK, ApiTypeOK,
             TableTypeOK, CounterTypeOK, ScanControl
  <1> QED
    BY <1>1, <1>2

LEMMA TypeInvariant == Spec => []TypeInv
  BY InitTypeInv, NextTypeInv, PTL DEF Spec

\* Users, scanner, jobs and faults keep every variable, the queue's payloads and the
\* rows of the two tables among them, in its type.
THEOREM TypeCorrectness == Spec => []TypeOK
  <1>1. TypeInv => TypeOK
    BY DEF TypeInv
  <1> QED
    BY TypeInvariant, <1>1, PTL

-----------------------------------------------------------------------------
(* Settlement: the log, the keys and the lock on the primary key *)

\* Of the transactions that inserted a key and have not committed, no two have the
\* same one, and none has a key that is committed already.
KeyLock ==
    \A j \in Jobs : HoldsKey(j) =>
        /\ jobData[j] \notin idempotencyKeys
        /\ \A k \in Jobs : HoldsKey(k) /\ jobData[k] = jobData[j] => k = j

RowsHaveJobs == \A row \in notificationLog : jobState[row.job] # "unused"

SettleInv == KeyLock /\ RowsHaveJobs /\ KeyClaimedIffSettled /\ SettledOnce /\ SentWasDelivered

\* What no step does: take back a payload, a delivery, or a row.
Keeps ==
    /\ \A j \in Jobs : jobState[j] # "unused" =>
          jobState'[j] # "unused" /\ jobData'[j] = jobData[j]
    /\ \A j \in Jobs : mailed[j] > 0 => mailed'[j] > 0

LEMMA StepKeeps ==
    ASSUME TypeInv, Next
    PROVE  Keeps
  <1> USE DEF TypeInv, TypeOK, QueueTypeOK, RunTypeOK
  <1>1. CASE Environment
    BY <1>1 DEF Environment, NewDay, CronTick, Edit, RequestScan, UpdateDocument, OverrideStatus,
           ArchiveDocument, ChangeEmail, ChangePolicy, ChangeTenant, jobVars, Keeps
  <1>2. CASE RunScan
    <2>1. CASE UNCHANGED jobVars
      BY <2>1 DEF jobVars, Keeps
    <2>2. ASSUME NEW j \in Jobs, AddJob(j) PROVE Keeps
      BY <2>2 DEF AddJob, Keeps
    <2> QED
      BY <1>2, <2>1, <2>2 DEF RunScan, StartScan, OpenTenant, SelectCandidates, MatchCandidate,
             FinishTenant, FinishScan
  <1>3. ASSUME NEW j \in Jobs, RunJob(j) PROVE Keeps
    <2>1. jobData' = jobData
      BY <1>3 DEF RunJob, JobStep, TakeJob, CheckTenant, CheckKey, ReadDocument, SendMail,
             ClaimKey, Commit, Acknowledge, RecoverStalled
    <2>2. \A k \in Jobs : jobState[k] # "unused" => jobState'[k] # "unused"
      BY <1>3 DEF RunJob, TakeJob, CheckTenant, CheckKey, ReadDocument, SendMail, ClaimKey,
             Commit, Acknowledge, RecoverStalled, Goto, EndRun
    <2>3. mailed' = mailed \/ Deliver(j)
      BY <1>3 DEF RunJob, TakeJob, CheckTenant, CheckKey, ReadDocument, SendMail, ClaimKey,
             Commit, Acknowledge, RecoverStalled, EndRun
    <2> QED
      BY <2>1, <2>2, <2>3 DEF Keeps, Deliver
  <1>4. CASE Faulty
    <2>1. ASSUME NEW j \in Jobs, LoseSmtpReply(j) PROVE Keeps
      BY <2>1 DEF LoseSmtpReply, JobStep, Goto, Deliver, Keeps
    <2>2. ASSUME NEW j \in Jobs, FailStatement(j) \/ LoseCommitReply(j) PROVE Keeps
      BY <2>2 DEF FailStatement, LoseCommitReply, Fault, EndRun, Keeps
    <2>3. CASE FailScan
      BY <2>3 DEF FailScan, jobVars, Keeps
    <2>4. CASE Crash
      BY <2>4 DEF Crash, Fault, Running, Keeps
    <2> QED
      BY <1>4, <2>1, <2>2, <2>3, <2>4 DEF Faulty
  <1> QED
    BY <1>1, <1>2, <1>3, <1>4 DEF Next

\* The tables change only when a run that stands before its commit publishes its row.
LEMMA StepTables ==
    ASSUME TypeInv, Next
    PROVE  \/ UNCHANGED tables
           \/ \E j \in Jobs :
                 /\ pc[j] = "commit" /\ Publish(j)
                 /\ UNCHANGED jobData /\ \A k \in Jobs : HoldsKey(k)' => HoldsKey(k) /\ k # j
  <1> USE DEF TypeInv, TypeOK, RunTypeOK
  <1>1. CASE Environment \/ RunScan \/ FailScan \/ Crash
    BY <1>1 DEF RunScan, Environment, ScanStep, StartScan, OpenTenant, SelectCandidates,
           MatchCandidate, AddJob, FinishTenant, FinishScan, NewDay, CronTick, Edit, RequestScan,
           UpdateDocument, OverrideStatus, ArchiveDocument, ChangeEmail, ChangePolicy,
           ChangeTenant, FailScan, Crash
  <1>2. ASSUME NEW j \in Jobs, Commit(j) \/ LoseCommitReply(j)
        PROVE  /\ pc[j] = "commit" /\ Publish(j)
               /\ UNCHANGED jobData /\ \A k \in Jobs : HoldsKey(k)' => HoldsKey(k) /\ k # j
    BY <1>2 DEF Commit, LoseCommitReply, JobStep, Fault, Goto, EndRun, HoldsKey
  <1>3. ASSUME NEW j \in Jobs, RunJob(j), ~Commit(j) PROVE UNCHANGED tables
    BY <1>3 DEF RunJob, TakeJob, CheckTenant, CheckKey, ReadDocument, SendMail, ClaimKey,
           Acknowledge, RecoverStalled
  <1>4. ASSUME NEW j \in Jobs, LoseSmtpReply(j) \/ FailStatement(j) PROVE UNCHANGED tables
    BY <1>4 DEF LoseSmtpReply, FailStatement
  <1> QED
    BY <1>1, <1>2, <1>3, <1>4 DEF Next, Faulty

\* A run comes to hold a key only by ClaimKey, which waits for every other holder.
LEMMA StepLock ==
    ASSUME TypeInv, Next, NEW j \in Jobs, HoldsKey(j)', ~HoldsKey(j)
    PROVE  /\ jobData[j] \notin idempotencyKeys /\ UNCHANGED <<jobData, tables>>
           /\ \A k \in Jobs : HoldsKey(k) => jobData[k] # jobData[j]
           /\ \A k \in Jobs \ {j} : HoldsKey(k)' => HoldsKey(k)
  <1> USE DEF TypeInv, TypeOK, RunTypeOK
  <1>1. CASE Environment \/ RunScan \/ FailScan
    BY <1>1 DEF RunScan, Environment, ScanStep, StartScan, OpenTenant, SelectCandidates,
           MatchCandidate, AddJob, FinishTenant, FinishScan, NewDay, CronTick, Edit, RequestScan,
           UpdateDocument, OverrideStatus, ArchiveDocument, ChangeEmail, ChangePolicy,
           ChangeTenant, FailScan, HoldsKey, jobVars
  <1>2. CASE Crash
    BY <1>2 DEF Crash, HoldsKey
  <1>3. ASSUME NEW k \in Jobs, RunJob(k), ~ClaimKey(k) PROVE FALSE
    <2>1. CASE TakeJob(k) \/ CheckKey(k) \/ Commit(k) \/ Acknowledge(k) \/ RecoverStalled(k)
      BY <2>1 DEF TakeJob, CheckKey, Commit, Acknowledge, RecoverStalled, Goto, EndRun, HoldsKey
    <2>2. CASE CheckTenant(k) \/ ReadDocument(k) \/ SendMail(k)
      BY <2>2 DEF CheckTenant, ReadDocument, SendMail, Goto, EndRun, HoldsKey
    <2> QED
      BY <1>3, <2>1, <2>2 DEF RunJob
  <1>4. ASSUME NEW k \in Jobs, LoseSmtpReply(k) \/ FailStatement(k) \/ LoseCommitReply(k)
        PROVE  FALSE
    BY <1>4 DEF LoseSmtpReply, FailStatement, LoseCommitReply, Goto, EndRun, HoldsKey
  <1>5. ASSUME NEW k \in Jobs, ClaimKey(k)
        PROVE  /\ jobData[j] \notin idempotencyKeys /\ UNCHANGED <<jobData, tables>>
               /\ \A i \in Jobs : HoldsKey(i) => jobData[i] # jobData[j]
               /\ \A i \in Jobs \ {j} : HoldsKey(i)' => HoldsKey(i)
    <2>1. k = j
      BY <1>5 DEF ClaimKey, Goto, EndRun, HoldsKey
    <2>2. jobData[j] \notin idempotencyKeys /\ Goto(j, "commit", outcome[j])
      BY <1>5, <2>1 DEF ClaimKey, EndRun, HoldsKey
    <2> QED
      BY <1>5, <2>1, <2>2 DEF ClaimKey, JobStep, Goto, HoldsKey
  <1> QED
    BY <1>1, <1>2, <1>3, <1>4, <1>5 DEF Next, Faulty

LEMMA NextSettleInv ==
    ASSUME TypeInv, SettleInv, Next
    PROVE  SettleInv'
  <1> USE DEF TypeInv, TypeOK
  <1>1. Keeps
    BY StepKeeps
  <1>2. \A row \in notificationLog :
            /\ row.job \in Jobs /\ jobState[row.job] # "unused"
            /\ jobState'[row.job] # "unused" /\ jobData'[row.job] = jobData[row.job]
    BY <1>1 DEF SettleInv, RowsHaveJobs, TableTypeOK, LogRow, Keeps
  <1>3. KeyLock'
    <2> SUFFICES ASSUME NEW j \in Jobs, HoldsKey(j)'
                 PROVE  /\ jobData'[j] \notin idempotencyKeys'
                        /\ \A k \in Jobs : HoldsKey(k)' /\ jobData'[k] = jobData'[j] => k = j
      BY DEF KeyLock
    <2>1. CASE ~HoldsKey(j)
      BY <2>1, StepLock DEF tables
    <2>2. CASE HoldsKey(j)
      <3>1. \A k \in Jobs : HoldsKey(k) => jobData'[k] = jobData[k]
        BY <1>1 DEF HoldsKey, Keeps, Control
      <3>2. jobData'[j] \notin idempotencyKeys'
        <4>1. CASE UNCHANGED tables
          BY <2>2, <3>1, <4>1 DEF SettleInv, KeyLock, tables
        <4>2. ASSUME NEW i \in Jobs, pc[i] = "commit", Publish(i),
                     UNCHANGED jobData, \A k \in Jobs : HoldsKey(k)' => HoldsKey(k) /\ k # i
              PROVE  jobData'[j] \notin idempotencyKeys'
          <5>1. outcome[i] \in Terminal => HoldsKey(i)
            BY <4>2 DEF HoldsKey, Terminal
          <5>2. i # j
            BY <4>2
          <5> QED
            BY <2>2, <4>2, <5>1, <5>2 DEF Publish, SettleInv, KeyLock
        <4> QED
          BY <4>1, <4>2, StepTables
      <3>3. ASSUME NEW k \in Jobs, HoldsKey(k)', jobData'[k] = jobData'[j] PROVE k = j
        <4>1. CASE HoldsKey(k)
          BY <2>2, <3>1, <3>3, <4>1 DEF SettleInv, KeyLock
        <4>2. CASE ~HoldsKey(k)
          BY <2>2, <3>1, <3>3, <4>2, StepLock
        <4> QED
          BY <4>1, <4>2
      <3> QED
        BY <3>2, <3>3
    <2> QED
      BY <2>1, <2>2
  <1>4. CASE UNCHANGED tables
    <2>1. TerminalRows' = TerminalRows /\ \A row \in TerminalRows : KeyOfRow(row)' = KeyOfRow(row)
      BY <1>2, <1>4 DEF TerminalRows, KeyOfRow, tables
    <2> QED
      BY <1>1, <1>2, <1>3, <1>4, <2>1 DEF SettleInv, RowsHaveJobs, KeyClaimedIffSettled,
         SettledOnce, SentWasDelivered, Keeps, tables
  <1>5. ASSUME NEW j \in Jobs, pc[j] = "commit", Publish(j), UNCHANGED jobData
        PROVE  SettleInv'
    <2> DEFINE row == RowOf(j)
    <2>1. /\ notificationLog' = notificationLog \cup {row}
          /\ row.job = j /\ row.status = Status(outcome[j])
      BY <1>5 DEF Publish, RowOf
    <2>2. outcome[j] \in Terminal \cup {"FAILED"} /\ jobState[j] = "active"
      BY <1>5 DEF Control
    <2>3. \A r : KeyOfRow(r)' = KeyOfRow(r)
      BY <1>5 DEF KeyOfRow
    <2>4. RowsHaveJobs'
      BY <1>1, <1>2, <2>1, <2>2 DEF RowsHaveJobs, Keeps
    <2>5. SentWasDelivered'
      <3>1. outcome[j] = "SENT" => mailed'[j] > 0
        BY <1>1 DEF Control, Keeps
      <3>2. row.status = "SENT" => outcome[j] = "SENT"
        BY <2>1, <2>2 DEF Status, Terminal
      <3>3. \A r \in notificationLog : r.status = "SENT" => mailed'[r.job] > 0
        BY <1>1, <1>2 DEF SettleInv, SentWasDelivered, Keeps
      <3> QED
        BY <2>1, <3>1, <3>2, <3>3 DEF SentWasDelivered
    <2> HIDE DEF row
    <2>6. CASE outcome[j] = "FAILED"
      <3>1. TerminalRows' = TerminalRows /\ idempotencyKeys' = idempotencyKeys
        BY <1>5, <2>1, <2>6 DEF TerminalRows, Status, Publish, Terminal
      <3>2. KeyClaimedIffSettled' /\ SettledOnce'
        BY <2>3, <3>1 DEF SettleInv, KeyClaimedIffSettled, SettledOnce
      <3> QED
        BY <1>3, <2>4, <2>5, <3>2 DEF SettleInv
    <2>7. CASE outcome[j] \in Terminal
      <3>1. TerminalRows' = TerminalRows \cup {row}
        BY <2>1, <2>7 DEF TerminalRows, Status, Terminal
      <3>2. idempotencyKeys' = idempotencyKeys \cup {KeyOfRow(row)}
        BY <1>5, <2>1, <2>7 DEF Publish, KeyOfRow
      <3>3. KeyOfRow(row) \notin {KeyOfRow(r) : r \in TerminalRows}
        <4>1. HoldsKey(j)
          BY <1>5, <2>7 DEF HoldsKey, Terminal
        <4> QED
          BY <2>1, <4>1 DEF SettleInv, KeyLock, KeyClaimedIffSettled, KeyOfRow
      <3>4. KeyClaimedIffSettled'
        <4>1. {KeyOfRow(r) : r \in TerminalRows}' = {KeyOfRow(r) : r \in TerminalRows} \cup {KeyOfRow(row)}
          BY <2>3, <3>1
        <4> QED
          BY <3>2, <4>1 DEF SettleInv, KeyClaimedIffSettled
      <3>5. SettledOnce'
        BY <2>3, <3>1, <3>3 DEF SettleInv, SettledOnce
      <3> QED
        BY <1>3, <2>4, <2>5, <3>4, <3>5 DEF SettleInv
    <2> QED
      BY <2>2, <2>6, <2>7
  <1> QED
    BY <1>4, <1>5, StepTables

LEMMA SettleInvariant == Spec => []SettleInv
  <1>1. Init => SettleInv
    BY DEF Init, SettleInv, KeyLock, HoldsKey, RowsHaveJobs, KeyClaimedIffSettled, SettledOnce,
           SentWasDelivered, TerminalRows
  <1>2. TypeInv /\ SettleInv /\ [Next]_vars => SettleInv'
    <2> SUFFICES ASSUME TypeInv, SettleInv, [Next]_vars PROVE SettleInv'
      OBVIOUS
    <2>1. CASE Next
      BY <2>1, NextSettleInv
    <2>2. CASE UNCHANGED vars
      BY <2>2 DEF vars, jobVars, tables, SettleInv, KeyLock, HoldsKey, RowsHaveJobs,
             KeyClaimedIffSettled, SettledOnce, SentWasDelivered, TerminalRows, KeyOfRow
    <2> QED
      BY <2>1, <2>2
  <1> QED
    BY <1>1, <1>2, TypeInvariant, PTL DEF Spec

\* However many jobs carry a reminder and whatever crashes between them, the log gets at
\* most one terminal row for it.
THEOREM SettlesOnce == Spec => []SettledOnce
  <1>1. SettleInv => SettledOnce
    BY DEF SettleInv
  <1> QED
    BY SettleInvariant, <1>1, PTL

\* idempotency_keys and the terminal rows of notification_log always agree.
THEOREM KeysAgreeWithLog == Spec => []KeyClaimedIffSettled
  <1>1. SettleInv => KeyClaimedIffSettled
    BY DEF SettleInv
  <1> QED
    BY SettleInvariant, <1>1, PTL

\* A SENT row is written only by a job whose message the server took.
THEOREM SentIsDelivered == Spec => []SentWasDelivered
  <1>1. SettleInv => SentWasDelivered
    BY DEF SettleInv
  <1> QED
    BY SettleInvariant, <1>1, PTL
=============================================================================
