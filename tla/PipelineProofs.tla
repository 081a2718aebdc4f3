--------------------------- MODULE PipelineProofs ----------------------------
(***************************************************************************)
(* Theorems about Reminders that relate a run to what it found at its      *)
(* start and to what it leaves, and the refinement of ReminderLedger.      *)
(***************************************************************************)
EXTENDS RemindersProofs, FiniteSetTheorems

-----------------------------------------------------------------------------
(* What no step undoes, and what a step does to one job *)

\* Rows, keys and archived documents are there for ever.
Grows ==
    /\ notificationLog \subseteq notificationLog'
    /\ idempotencyKeys \subseteq idempotencyKeys'
    /\ \A d \in Docs : documents[d].deleted => documents'[d].deleted

LEMMA StepGrows ==
    ASSUME TypeInv, Next
    PROVE  Grows
  <1>1. notificationLog \subseteq notificationLog' /\ idempotencyKeys \subseteq idempotencyKeys'
    <2>1. ASSUME NEW j \in Jobs, Publish(j)
          PROVE  notificationLog \subseteq notificationLog' /\ idempotencyKeys \subseteq idempotencyKeys'
      BY <2>1 DEF Publish
    <2> QED
      BY <2>1, StepTables DEF tables
  <1>2. \A d \in Docs : documents[d].deleted => documents'[d].deleted
    <2>1. CASE UNCHANGED documents
      BY <2>1
    <2>2. ASSUME NEW d \in Docs,
                 \/ \E e \in ExpiryDates \cup {documents[d].expiryDate} : UpdateDocument(d, e)
                 \/ \E status \in ManualStatus : OverrideStatus(d, status)
                 \/ ArchiveDocument(d)
          PROVE  \A k \in Docs : documents[k].deleted => documents'[k].deleted
      BY <2>2 DEF UpdateDocument, OverrideStatus, ArchiveDocument, TypeInv, TypeOK, ApiTypeOK,
                  Document
    <2>3. CASE RunScan \/ Faulty \/ \E j \in Jobs : RunJob(j)
      <3>1. UNCHANGED documents
        BY <2>3 DEF RunScan, ScanStep, StartScan, OpenTenant, SelectCandidates, MatchCandidate,
               AddJob, FinishTenant, FinishScan, Faulty, Fault, LoseSmtpReply, FailStatement,
               LoseCommitReply, FailScan, Crash, RunJob, JobStep, TakeJob, CheckTenant, CheckKey,
               ReadDocument, SendMail, ClaimKey, Commit, Acknowledge, RecoverStalled, apiVars
      <3> QED
        BY <3>1
    <2>4. CASE Environment
      BY <2>1, <2>2, <2>4 DEF Environment, NewDay, CronTick, RequestScan, ChangeEmail,
         ChangePolicy, ChangeTenant, apiVars
    <2> QED
      BY <2>3, <2>4 DEF Next
  <1> QED
    BY <1>1, <1>2 DEF Grows

\* The step of another leaves a run alone, or ends it with the process.
LeftAlone(j) ==
    /\ pc'[j] \in {pc[j], "idle"}
    /\ mailed'[j] = mailed[j]
    /\ j \in closedAtStart' <=> j \in closedAtStart
    /\ jobState'[j] = "completed" => jobState[j] = "completed"

LEMMA StepOfJob ==
    ASSUME TypeInv, Next, NEW j \in Jobs
    PROVE  RunJob(j) \/ LoseSmtpReply(j) \/ LoseCommitReply(j) \/ LeftAlone(j)
  <1> USE DEF TypeInv, TypeOK, QueueTypeOK, RunTypeOK
  <1>1. CASE Environment
    BY <1>1 DEF Environment, NewDay, CronTick, Edit, RequestScan, UpdateDocument, OverrideStatus,
           ArchiveDocument, ChangeEmail, ChangePolicy, ChangeTenant, jobVars, LeftAlone
  <1>2. CASE RunScan
    <2>1. ASSUME NEW k \in Jobs, AddJob(k) PROVE LeftAlone(j)
      BY <2>1 DEF AddJob, LeftAlone
    <2> QED
      BY <1>2, <2>1 DEF RunScan, StartScan, OpenTenant, SelectCandidates, MatchCandidate,
             FinishTenant, FinishScan, jobVars, LeftAlone
  <1>3. ASSUME NEW k \in Jobs \ {j}, RunJob(k) PROVE LeftAlone(j)
    <2>1. CASE TakeJob(k) \/ Acknowledge(k) \/ RecoverStalled(k)
      BY <2>1 DEF TakeJob, Acknowledge, RecoverStalled, EndRun, LeftAlone
    <2>2. CASE CheckTenant(k) \/ CheckKey(k) \/ ReadDocument(k)
      BY <2>2 DEF CheckTenant, CheckKey, ReadDocument, Goto, EndRun, LeftAlone
    <2>3. CASE SendMail(k) \/ ClaimKey(k) \/ Commit(k)
      BY <2>3 DEF SendMail, ClaimKey, Commit, Goto, EndRun, Deliver, LeftAlone
    <2> QED
      BY <1>3, <2>1, <2>2, <2>3 DEF RunJob
  <1>4. ASSUME NEW k \in Jobs \ {j}, LoseSmtpReply(k) \/ LoseCommitReply(k) PROVE LeftAlone(j)
    BY <1>4 DEF LoseSmtpReply, LoseCommitReply, Goto, EndRun, Deliver, LeftAlone
  <1>5. ASSUME NEW k \in Jobs, FailStatement(k) PROVE LeftAlone(j)
    BY <1>5 DEF FailStatement, EndRun, LeftAlone
  <1>6. CASE FailScan
    BY <1>6 DEF FailScan, jobVars, LeftAlone
  <1>7. CASE Crash
    BY <1>7 DEF Crash, Running, LeftAlone
  <1> QED
    BY <1>1, <1>2, <1>3, <1>4, <1>5, <1>6, <1>7 DEF Next, Faulty

-----------------------------------------------------------------------------
(* Closed reminders and completed jobs *)

Accounted(j) ==
    \/ jobData[j] \in idempotencyKeys
    \/ \E row \in notificationLog : row.job = j /\ row.status = "FAILED"

\* A run that started closed is turned away by its two reads, the key or the document,
\* before it could mail; a run that reached its end, or completed, is accounted for.
RunInv ==
    \A j \in Jobs :
        /\ j \in closedAtStart =>
              /\ pc[j] # "send"
              /\ pc[j] \in {"tenant", "key"} => Closed(j)
              /\ pc[j] = "document" => documents[jobData[j].documentId].deleted
        /\ pc[j] = "ack" \/ jobState[j] = "completed" => Accounted(j)

LEMMA ClosedForGood ==
    ASSUME TypeInv, Next, NEW j \in Jobs, jobState[j] # "unused"
    PROVE  /\ jobData'[j] = jobData[j]
           /\ Closed(j) => Closed(j)'
           /\ documents[jobData[j].documentId].deleted => documents'[jobData[j].documentId].deleted
           /\ Accounted(j) => Accounted(j)'
  <1>1. Keeps /\ Grows
    BY StepKeeps, StepGrows
  <1>2. jobData'[j] = jobData[j] /\ jobData[j].documentId \in Docs
    BY <1>1 DEF Keeps, TypeInv, Control, Payload
  <1> QED
    BY <1>1, <1>2 DEF Grows, Closed, Accounted

LEMMA PublishAccounts ==
    ASSUME TypeInv, NEW j \in Jobs, pc[j] = "commit", Publish(j), UNCHANGED jobData
    PROVE  Accounted(j)'
  <1>1. outcome[j] \in Terminal \cup {"FAILED"}
    BY DEF TypeInv, Control
  <1>2. CASE outcome[j] \in Terminal
    BY <1>2 DEF Publish, Accounted
  <1>3. CASE outcome[j] = "FAILED"
    <2>1. RowOf(j).job = j /\ RowOf(j).status = "FAILED"
      BY <1>3 DEF RowOf, Status
    <2> QED
      BY <2>1 DEF Publish, Accounted
  <1> QED
    BY <1>1, <1>2, <1>3

LEMMA NextRunInv ==
    ASSUME TypeInv, RunInv, Next
    PROVE  RunInv'
  <1> USE DEF TypeInv, TypeOK, QueueTypeOK, RunTypeOK
  <1> SUFFICES ASSUME NEW j \in Jobs
               PROVE  /\ j \in closedAtStart' =>
                            /\ pc'[j] # "send"
                            /\ pc'[j] \in {"tenant", "key"} => Closed(j)'
                            /\ pc'[j] = "document" => documents'[jobData'[j].documentId].deleted
                      /\ pc'[j] = "ack" \/ jobState'[j] = "completed" => Accounted(j)'
    BY DEF RunInv
  <1> DEFINE Goal ==
        /\ j \in closedAtStart' =>
              /\ pc'[j] # "send"
              /\ pc'[j] \in {"tenant", "key"} => Closed(j)'
              /\ pc'[j] = "document" => documents'[jobData'[j].documentId].deleted
        /\ pc'[j] = "ack" \/ jobState'[j] = "completed" => Accounted(j)'
  <1> SUFFICES Goal
    OBVIOUS
  <1>1. pc[j] # "idle" => jobState[j] = "active"
    BY DEF Control
  <1>2. CASE LeftAlone(j)
    <2>1. CASE jobState[j] = "unused"
      BY <1>1, <1>2, <2>1 DEF LeftAlone
    <2>2. CASE jobState[j] # "unused"
      BY <1>2, <2>2, ClosedForGood DEF LeftAlone, RunInv
    <2> QED
      BY <2>1, <2>2
  <1>3. CASE TakeJob(j)
    <2>1. Closed(j)' = Closed(j)
      BY <1>3 DEF TakeJob, JobStep, apiVars, tables, Closed
    <2> QED
      BY <1>3, <2>1 DEF TakeJob
  <1>4. CASE CheckTenant(j)
    <2>1. Closed(j)' = Closed(j) /\ UNCHANGED closedAtStart
      BY <1>4 DEF CheckTenant, JobStep, apiVars, tables, Closed, Goto, EndRun
    <2> QED
      BY <1>4, <2>1 DEF CheckTenant, Goto, EndRun, RunInv, Control
  <1>5. CASE CheckKey(j)
    <2>1. UNCHANGED <<documents, jobData, tables, closedAtStart, jobState>>
      BY <1>5 DEF CheckKey, JobStep, Goto, apiVars
    <2>2. CASE jobData[j] \in idempotencyKeys
      BY <1>1, <1>5, <2>1, <2>2 DEF CheckKey, Goto, Accounted, tables
    <2>3. CASE jobData[j] \notin idempotencyKeys
      BY <1>1, <1>5, <2>1, <2>3 DEF CheckKey, Goto, RunInv, Closed
    <2> QED
      BY <2>2, <2>3
  <1>6. CASE ReadDocument(j)
    <2>1. /\ UNCHANGED <<closedAtStart, jobState>> /\ pc'[j] \in {"claim", "send"}
          /\ documents[jobData[j].documentId].deleted => pc'[j] = "claim"
      BY <1>6 DEF ReadDocument, Goto
    <2> QED
      BY <1>1, <1>6, <2>1 DEF ReadDocument, RunInv
  <1>7. CASE SendMail(j) \/ LoseSmtpReply(j) \/ ClaimKey(j) \/ RecoverStalled(j)
    <2>1. pc'[j] \in {"claim", "commit", "idle"} /\ jobState'[j] # "completed"
      BY <1>1, <1>7 DEF SendMail, LoseSmtpReply, ClaimKey, RecoverStalled, Goto, EndRun, Control
    <2> QED
      BY <2>1
  <1>8. CASE Commit(j)
    BY <1>8, PublishAccounts DEF Commit, JobStep, Goto
  <1>9. CASE Acknowledge(j)
    <2>1. Accounted(j)'
      BY <1>1, <1>9, ClosedForGood DEF Acknowledge, RunInv
    <2> QED
      BY <1>9, <2>1 DEF Acknowledge, EndRun
  <1>10. CASE LoseCommitReply(j)
    BY <1>10 DEF LoseCommitReply, EndRun
  <1> QED
    BY <1>2, <1>3, <1>4, <1>5, <1>6, <1>7, <1>8, <1>9, <1>10, StepOfJob DEF RunJob

LEMMA RunInvariant == Spec => []RunInv
  <1>1. Init => RunInv
    BY DEF Init, RunInv
  <1>2. TypeInv /\ RunInv /\ [Next]_vars => RunInv'
    <2> SUFFICES ASSUME TypeInv, RunInv, [Next]_vars PROVE RunInv'
      OBVIOUS
    <2>1. CASE Next
      BY <2>1, NextRunInv
    <2>2. CASE UNCHANGED vars
      BY <2>2 DEF vars, apiVars, jobVars, tables, RunInv, Closed, Accounted
    <2> QED
      BY <2>1, <2>2
  <1> QED
    BY <1>1, <1>2, TypeInvariant, PTL DEF Spec

\* A run that starts with its key claimed or its document archived mails nobody,
\* however the API, the other jobs and the faults step between its reads.
THEOREM ClosedIsQuiet == Spec => ClosedReminderIsQuiet
  <1> DEFINE Quiet == \A j \in Jobs : mailed'[j] # mailed[j] => j \notin closedAtStart
  <1>1. TypeInv /\ RunInv /\ [Next]_vars => [Quiet]_vars
    <2> SUFFICES ASSUME TypeInv, RunInv, Next, NEW j \in Jobs, mailed'[j] # mailed[j]
                 PROVE  j \notin closedAtStart
      OBVIOUS
    <2>1. pc[j] = "send"
      BY StepOfJob DEF LeftAlone, RunJob, LoseSmtpReply, LoseCommitReply, TakeJob, CheckTenant,
         CheckKey, ReadDocument, SendMail, ClaimKey, Commit, Acknowledge, RecoverStalled, EndRun
    <2> QED
      BY <2>1 DEF RunInv
  <1> QED
    BY <1>1, RunInvariant, TypeInvariant, PTL DEF Spec, ClosedReminderIsQuiet

\* A job that BullMQ counts as completed left its key or a FAILED row, in every
\* interleaving of any number of jobs, scans, users and faults.
THEOREM CompletedLeavesTrace == Spec => []CompletedIsAccounted
  <1>1. RunInv => CompletedIsAccounted
    BY DEF RunInv, Accounted, CompletedIsAccounted
  <1> QED
    BY RunInvariant, <1>1, PTL

-----------------------------------------------------------------------------
(* The refinement of ReminderLedger *)

Between == {"document", "send", "claim", "commit"}

KeysWith(status) == {KeyOfRow(row) : row \in {r \in notificationLog : r.status = status}}

\* What the ledger sees of a step, action by action of the ledger.
Opened == {j \in Jobs : pc[j] \in Between}
SameRows == UNCHANGED <<KeysWith("SENT"), KeysWith("SUPPRESSED")>>

LEMMA SettledKeys ==
    ASSUME TypeInv, SettleInv
    PROVE  KeysWith("SENT") \cup KeysWith("SUPPRESSED") = idempotencyKeys
  <1>1. \A row \in notificationLog :
            row \in TerminalRows <=> row.status = "SENT" \/ row.status = "SUPPRESSED"
    BY DEF TypeInv, TypeOK, TableTypeOK, LogRow, TerminalRows
  <1>2. TerminalRows \subseteq notificationLog
    BY DEF TerminalRows
  <1> QED
    BY <1>1, <1>2 DEF KeysWith, SettleInv, KeyClaimedIffSettled

\* A row keeps its key, because the payload of its job does not change.
LEMMA RowsKeepKeys ==
    ASSUME TypeInv, SettleInv, Next
    PROVE  \A row \in notificationLog : KeyOfRow(row)' = KeyOfRow(row)
  BY StepKeeps DEF Keeps, SettleInv, RowsHaveJobs, TypeInv, TypeOK, TableTypeOK, LogRow, KeyOfRow

LEMMA SameTablesSameRows ==
    ASSUME TypeInv, SettleInv, Next, UNCHANGED tables
    PROVE  SameRows
  <1>1. ASSUME NEW status PROVE KeysWith(status)' = KeysWith(status)
    BY RowsKeepKeys DEF KeysWith, tables
  <1> QED
    BY <1>1 DEF SameRows

LEMMA NextLedger ==
    ASSUME TypeInv, SettleInv, Next
    PROVE  Ledger!Next \/ UNCHANGED Ledger!vars
  <1> USE DEF TypeInv, TypeOK, QueueTypeOK, RunTypeOK
  <1>1. UNCHANGED <<jobData, pc, mailed>> /\ SameRows => UNCHANGED Ledger!vars
    BY DEF Ledger!vars, SameRows, KeysWith
  <1>2. ASSUME UNCHANGED <<jobData, mailed>>, SameRows, Opened' \subseteq Opened
        PROVE  Ledger!Next
    <2>1. PICK A \in SUBSET Opened : Opened' = Opened \ A
      <3>1. Opened' = Opened \ (Opened \ Opened')
        BY <1>2
      <3> QED
        BY <3>1
    <2>2. Ledger!GiveUp(A)
      BY <1>2, <2>1 DEF Ledger!GiveUp, Opened, Between, SameRows, KeysWith
    <2> QED
      BY <2>1, <2>2 DEF Ledger!Next, Opened, Between
  <1>3. ASSUME NEW j \in Jobs, UNCHANGED <<jobData, tables>>, j \in Opened, Opened' = Opened, Deliver(j)
        PROVE  Ledger!Next
    <2>1. SameRows
      BY <1>3, SameTablesSameRows
    <2>2. Ledger!Mail(j)
      BY <1>3, <2>1 DEF Ledger!Mail, Opened, Between, SameRows, KeysWith, Deliver
    <2> QED
      BY <2>2 DEF Ledger!Next
  <1>4. CASE Environment \/ FailScan
    <2>1. UNCHANGED <<jobVars, tables>>
      BY <1>4 DEF Environment, NewDay, CronTick, Edit, RequestScan, UpdateDocument, OverrideStatus,
             ArchiveDocument, ChangeEmail, ChangePolicy, ChangeTenant, FailScan
    <2> QED
      BY <1>1, <2>1, SameTablesSameRows DEF jobVars
  <1>5. CASE RunScan
    <2>1. UNCHANGED tables
      BY <1>5 DEF RunScan, ScanStep, StartScan, OpenTenant, SelectCandidates, MatchCandidate,
             AddJob, FinishTenant, FinishScan
    <2>2. ASSUME NEW j \in Jobs, AddJob(j) PROVE Ledger!Next
      <3>1. jobData[j] = NoPayload /\ scan.hit \in Payload
        BY <2>2 DEF AddJob, Control, ScanControl
      <3>2. jobData'[j] \in Payload /\ jobData' = [jobData EXCEPT ![j] = jobData'[j]]
        BY <2>2, <3>1 DEF AddJob
      <3>3. UNCHANGED <<pc, mailed>> /\ SameRows
        BY <2>1, <2>2, SameTablesSameRows DEF AddJob
      <3>4. Ledger!Assign(j)
        BY <3>1, <3>2, <3>3 DEF Ledger!Assign, SameRows, KeysWith
      <3> QED
        BY <3>4 DEF Ledger!Next
    <2>3. CASE UNCHANGED jobVars
      BY <1>1, <2>1, <2>3, SameTablesSameRows DEF jobVars
    <2> QED
      BY <1>5, <2>2, <2>3 DEF RunScan, StartScan, OpenTenant, SelectCandidates, MatchCandidate,
             FinishTenant, FinishScan
  <1>6. ASSUME NEW j \in Jobs, pc[j] = "commit", Publish(j), UNCHANGED <<jobData, mailed>>,
               Opened' = Opened \ {j}
        PROVE  Ledger!Next
    <2> DEFINE row == RowOf(j)
    <2>1. /\ notificationLog' = notificationLog \cup {row}
          /\ row.job = j /\ row.status = Status(outcome[j])
      BY <1>6 DEF Publish, RowOf
    <2>2. outcome[j] \in Terminal \cup {"FAILED"} /\ jobData[j] \in Payload
      BY <1>6 DEF Control
    <2>3. \A r : KeyOfRow(r)' = KeyOfRow(r)
      BY <1>6 DEF KeyOfRow
    <2> HIDE DEF row
    <2>4. ASSUME NEW status
          PROVE  KeysWith(status)' = IF row.status = status THEN KeysWith(status) \cup {jobData[j]}
                                     ELSE KeysWith(status)
      <3>1. KeyOfRow(row) = jobData[j]
        BY <2>1 DEF KeyOfRow
      <3>2. {r \in notificationLog : r.status = status}' =
                IF row.status = status THEN {r \in notificationLog : r.status = status} \cup {row}
                ELSE {r \in notificationLog : r.status = status}
        BY <2>1
      <3>3. KeysWith(status)' = {KeyOfRow(r) : r \in {q \in notificationLog : q.status = status}'}
        BY <2>3 DEF KeysWith
      <3> QED
        BY <3>1, <3>2, <3>3 DEF KeysWith
    <2>5. CASE outcome[j] = "FAILED"
      <3>1. SameRows
        BY <2>1, <2>4, <2>5 DEF SameRows, Status
      <3> QED
        BY <1>2, <1>6, <3>1
    <2>6. CASE outcome[j] \in Terminal
      <3>1. j \in Opened /\ HoldsKey(j)
        BY <1>6, <2>6 DEF Opened, Between, HoldsKey, Terminal
      <3>2. jobData[j] \notin KeysWith("SENT") \cup KeysWith("SUPPRESSED")
        BY <3>1, SettledKeys DEF SettleInv, KeyLock
      <3>3. \/ /\ mailed[j] > 0
               /\ KeysWith("SENT")' = KeysWith("SENT") \cup {jobData[j]}
               /\ UNCHANGED KeysWith("SUPPRESSED")
            \/ /\ KeysWith("SUPPRESSED")' = KeysWith("SUPPRESSED") \cup {jobData[j]}
               /\ UNCHANGED KeysWith("SENT")
        <4>1. CASE outcome[j] = "SENT"
          BY <2>1, <2>4, <4>1 DEF Status, Control
        <4>2. CASE outcome[j] # "SENT"
          BY <2>1, <2>4, <2>6, <4>2 DEF Status, Terminal
        <4> QED
          BY <4>1, <4>2
      <3>4. Ledger!Settle(j)
        BY <1>6, <3>1, <3>2, <3>3 DEF Ledger!Settle, Ledger!Settled, Opened, Between, KeysWith
      <3> QED
        BY <3>4 DEF Ledger!Next
    <2> QED
      BY <2>2, <2>5, <2>6
  <1>7. ASSUME NEW j \in Jobs, RunJob(j) PROVE Ledger!Next \/ UNCHANGED Ledger!vars
    <2>1. jobData' = jobData
      BY <1>7 DEF RunJob, JobStep, TakeJob, CheckTenant, CheckKey, ReadDocument, SendMail, ClaimKey,
             Commit, Acknowledge, RecoverStalled
    <2>2. CASE TakeJob(j) \/ CheckTenant(j) \/ ReadDocument(j)
      <3>1. UNCHANGED <<tables, mailed>> /\ Opened' \subseteq Opened
        BY <2>2 DEF TakeJob, CheckTenant, ReadDocument, Goto, EndRun, Opened, Between, Control
      <3> QED
        BY <1>2, <2>1, <3>1, SameTablesSameRows
    <2>3. CASE ClaimKey(j) \/ Acknowledge(j) \/ RecoverStalled(j)
      <3>1. UNCHANGED <<tables, mailed>> /\ Opened' \subseteq Opened
        BY <2>3 DEF ClaimKey, Acknowledge, RecoverStalled, Goto, EndRun, Opened, Between
      <3> QED
        BY <1>2, <2>1, <3>1, SameTablesSameRows
    <2>4. CASE CheckKey(j)
      <3>1. UNCHANGED <<tables, mailed>>
        BY <2>4 DEF CheckKey
      <3>2. SameRows
        BY <3>1, SameTablesSameRows
      <3>3. CASE jobData[j] \in idempotencyKeys
        <4>1. Opened' \subseteq Opened
          BY <2>4, <3>3 DEF CheckKey, Goto, Opened, Between
        <4> QED
          BY <1>2, <2>1, <3>1, <3>2, <4>1
      <3>4. CASE jobData[j] \notin idempotencyKeys
        <4>1. Opened' = Opened \cup {j}
          BY <2>4, <3>4 DEF CheckKey, Goto, Opened, Between
        <4>2. jobData[j] \in Payload \ (KeysWith("SENT") \cup KeysWith("SUPPRESSED"))
          BY <2>4, <3>4, SettledKeys DEF CheckKey, Control
        <4>3. Ledger!Open(j)
          BY <2>1, <3>1, <3>2, <4>1, <4>2
          DEF Ledger!Open, Ledger!Settled, Opened, Between, SameRows, KeysWith
        <4> QED
          BY <4>3 DEF Ledger!Next
      <3> QED
        BY <3>3, <3>4
    <2>5. CASE SendMail(j)
      <3>1. UNCHANGED tables /\ j \in Opened /\ Opened' = Opened
        BY <2>5 DEF SendMail, Goto, Opened, Between
      <3>2. Deliver(j) \/ UNCHANGED mailed
        BY <2>5 DEF SendMail
      <3> QED
        BY <1>2, <1>3, <2>1, <3>1, <3>2, SameTablesSameRows
    <2>6. CASE Commit(j)
      <3>1. Opened' = Opened \ {j}
        BY <2>6 DEF Commit, Goto, Opened, Between
      <3> QED
        BY <1>6, <2>1, <2>6, <3>1 DEF Commit
    <2> QED
      BY <1>7, <2>2, <2>3, <2>4, <2>5, <2>6 DEF RunJob
  <1>8. ASSUME NEW j \in Jobs, LoseSmtpReply(j) PROVE Ledger!Next
    <2>1. UNCHANGED <<jobData, tables>> /\ j \in Opened /\ Opened' = Opened /\ Deliver(j)
      BY <1>8 DEF LoseSmtpReply, JobStep, Goto, Opened, Between
    <2> QED
      BY <1>3, <2>1
  <1>9. ASSUME NEW j \in Jobs, LoseCommitReply(j) PROVE Ledger!Next
    <2>1. UNCHANGED <<jobData, mailed>> /\ Opened' = Opened \ {j}
      BY <1>9 DEF LoseCommitReply, Fault, EndRun, Opened, Between
    <2> QED
      BY <1>6, <1>9, <2>1 DEF LoseCommitReply
  <1>10. ASSUME NEW j \in Jobs, FailStatement(j) PROVE Ledger!Next
    <2>1. UNCHANGED <<jobData, mailed, tables>> /\ Opened' \subseteq Opened
      BY <1>10 DEF FailStatement, Fault, EndRun, Opened, Between
    <2> QED
      BY <1>2, <2>1, SameTablesSameRows
  <1>11. CASE Crash
    <2>1. UNCHANGED <<jobData, mailed, tables>> /\ Opened' \subseteq Opened
      BY <1>11 DEF Crash, Fault, Opened, Between
    <2> QED
      BY <1>2, <2>1, SameTablesSameRows
  <1> QED
    BY <1>4, <1>5, <1>7, <1>8, <1>9, <1>10, <1>11 DEF Next, Faulty

\* Scanner, jobs, users and faults together implement the ledger: attempts open only
\* on unsettled reminders, only open attempts mail, and a reminder is settled once.
THEOREM ImplementsLedger == Spec => LedgerSpec
  <1>1. Init => Ledger!Init
    BY DEF Init, Ledger!Init
  <1>2. TypeInv /\ SettleInv /\ [Next]_vars => [Ledger!Next]_(Ledger!vars)
    <2> SUFFICES ASSUME TypeInv, SettleInv, [Next]_vars
                 PROVE  Ledger!Next \/ UNCHANGED Ledger!vars
      OBVIOUS
    <2>1. CASE Next
      BY <2>1, NextLedger
    <2>2. CASE UNCHANGED vars
      BY <2>2 DEF vars, jobVars, tables, Ledger!vars, KeyOfRow
    <2> QED
      BY <2>1, <2>2
  <1> QED
    BY <1>1, <1>2, TypeInvariant, SettleInvariant, PTL DEF Spec, LedgerSpec, Ledger!Spec

-----------------------------------------------------------------------------
(* The scanner leaves no document behind *)

Undisturbed ==
    scan.step # "idle" /\ scan.startedOn = today /\ scan.editsAtStart = edits

DueNow(d) == Due(d) /\ documents[d].expiryStatus = "EXPIRING_SOON"

CandidateOf(d) == [documentId |-> d, expiryDate |-> documents[d].expiryDate]

Done(d) == Sent(d, KeyDue(d).daysBeforeExpiry) \/ Enqueued(KeyDue(d))

\* The scan is in the transaction of the tenant of d and has its present thresholds.
OpenFor(d) ==
    /\ scan.tenant = TenantOf[d]
    /\ scan.thresholds = policy[TenantOf[d]].reminderDaysBefore

\* Where a document that the scan has to find can be.
Covered(d) ==
    \/ TenantOf[d] \in scan.left
    \/ scan.step = "query" /\ OpenFor(d)
    \/ scan.step \in {"match", "add"} /\ OpenFor(d) /\ CandidateOf(d) \in scan.candidates
    \/ scan.step = "add" /\ scan.hit = KeyDue(d)
    \/ Done(d)

ScanInv ==
    /\ scan.step # "idle" => scan.startedOn <= today /\ scan.editsAtStart <= edits
    /\ Undisturbed => \A d \in Docs : DueNow(d) => Covered(d)

LEMMA DoneForGood ==
    ASSUME TypeInv, Next, UNCHANGED <<today, documents>>, NEW d \in Docs, Done(d)
    PROVE  Done(d)'
  <1>1. Keeps /\ Grows
    BY StepKeeps, StepGrows
  <1>2. KeyDue(d)' = KeyDue(d)
    BY DEF KeyDue
  <1>3. CASE Sent(d, KeyDue(d).daysBeforeExpiry)
    BY <1>1, <1>2, <1>3 DEF Grows, Sent, Done
  <1>4. CASE Enqueued(KeyDue(d))
    BY <1>1, <1>2, <1>4 DEF Keeps, Enqueued, Done
  <1> QED
    BY <1>3, <1>4 DEF Done

\* A step leaves the scanner alone and either changes nothing it looks at or shows in
\* today or edits; or it resets the scanner; or it is the scanner's own.
LEMMA StepScan ==
    ASSUME TypeInv, Next
    PROVE  \/ scan' = scan /\ UNCHANGED <<today, apiVars, edits>>
           \/ scan' = scan /\ today' >= today /\ edits' >= edits /\ (today' > today \/ edits' > edits)
           \/ scan' = Idle /\ UNCHANGED <<today, edits>>
           \/ RunScan /\ UNCHANGED <<today, apiVars, edits>>
  <1>0. today \in Nat /\ edits \in Nat
    BY BoundsAssumption DEF TypeInv, TypeOK, CounterTypeOK, Days
  <1>1. CASE RunScan
    BY <1>1 DEF RunScan, ScanStep, StartScan, OpenTenant, SelectCandidates, MatchCandidate,
           AddJob, FinishTenant, FinishScan, clockVars
  <1>2. CASE Environment
    <2>1. CASE NewDay
      BY <1>0, <2>1 DEF NewDay
    <2>2. CASE CronTick
      BY <2>2 DEF CronTick
    <2>3. CASE Edit
      BY <1>0, <2>3 DEF Edit, clockVars
    <2> QED
      BY <1>2, <2>1, <2>2, <2>3 DEF Environment, RequestScan, UpdateDocument, OverrideStatus,
         ArchiveDocument, ChangeEmail, ChangePolicy, ChangeTenant
  <1>3. ASSUME NEW j \in Jobs, RunJob(j)
        PROVE  scan' = scan /\ UNCHANGED <<today, apiVars, edits>>
    BY <1>3 DEF RunJob, JobStep, TakeJob, CheckTenant, CheckKey, ReadDocument, SendMail, ClaimKey,
           Commit, Acknowledge, RecoverStalled, clockVars
  <1>4. CASE Faulty
    BY <1>4 DEF Faulty, Fault, JobStep, LoseSmtpReply, FailStatement, LoseCommitReply, FailScan,
           Crash, clockVars
  <1> QED
    BY <1>1, <1>2, <1>3, <1>4 DEF Next

LEMMA ScanKeepsStart ==
    ASSUME TypeInv, RunScan, scan.step # "idle", scan'.step # "idle"
    PROVE  scan'.startedOn = scan.startedOn /\ scan'.editsAtStart = scan.editsAtStart
  <1> USE DEF TypeInv, TypeOK
  <1>1. ~FinishScan
    BY IdleTypes DEF FinishScan
  <1>2. CASE SelectCandidates \/ FinishTenant \/ \E j \in Jobs : AddJob(j)
    BY <1>2 DEF SelectCandidates, FinishTenant, AddJob, ScanState
  <1>3. CASE \E t \in scan.left : OpenTenant(t)
    BY <1>3 DEF OpenTenant, ScanState
  <1>4. CASE \E c \in scan.candidates : MatchCandidate(c)
    BY <1>4 DEF MatchCandidate, ScanState
  <1> QED
    BY <1>1, <1>2, <1>3, <1>4 DEF RunScan, StartScan

\* A document is handed on: from the tenants that are left to the query, the candidates,
\* the job that is being added, and the queue.
LEMMA CoverStays ==
    ASSUME TypeInv, RunScan, scan.step # "idle", scan'.step # "idle",
           NEW d \in Docs, DueNow(d), Covered(d), Done(d) => Done(d)',
           UNCHANGED <<today, documents, policy>>
    PROVE  Covered(d)'
  <1> USE DEF TypeInv, TypeOK
  <1>1. /\ KeyDue(d)' = KeyDue(d) /\ CandidateOf(d)' = CandidateOf(d)
        /\ TenantOf[d] \in Tenants
    BY TenantOfAssumption DEF KeyDue, CandidateOf
  <1>2. CASE Done(d)
    BY <1>2 DEF Covered
  <1>3. ASSUME NEW t \in scan.left, OpenTenant(t), ~Done(d) PROVE Covered(d)'
    <2>1. TenantOf[d] \in scan.left
      BY <1>3 DEF OpenTenant, Covered
    <2>2. CASE t = TenantOf[d]
      <3>1. t \in activeTenants /\ policy[t].enabled
        BY <2>2 DEF DueNow, Due, Scannable
      <3>2. /\ scan'.step = "query" /\ scan'.tenant = t
            /\ scan'.thresholds = policy[t].reminderDaysBefore
        BY <1>3, <3>1 DEF OpenTenant, ScanState
      <3> QED
        BY <2>2, <3>2 DEF Covered, OpenFor
    <2>3. CASE t # TenantOf[d]
      <3>1. TenantOf[d] \in scan'.left
        BY <1>3, <2>1, <2>3 DEF OpenTenant, ScanState
      <3> QED
        BY <3>1 DEF Covered
    <2> QED
      BY <2>2, <2>3
  <1>4. ASSUME SelectCandidates, ~Done(d) PROVE Covered(d)'
    <2> DEFINE selected == {k \in Docs : /\ TenantOf[k] = scan.tenant
                                         /\ ~documents[k].deleted
                                         /\ documents[k].expiryDate # NoDate
                                         /\ documents[k].expiryStatus = "EXPIRING_SOON"}
    <2> DEFINE found == {[documentId |-> k, expiryDate |-> documents[k].expiryDate] : k \in selected}
    <2>1. /\ scan' = [scan EXCEPT !.step = "match", !.candidates = found]
          /\ scan.step = "query"
      BY <1>4 DEF SelectCandidates
    <2>2. scan.tenant = TenantOf[d] => CandidateOf(d) \in found
      BY DEF DueNow, Due, Scannable, CandidateOf
    <2> HIDE DEF found
    <2>3. /\ scan'.step = "match" /\ scan'.candidates = found /\ scan'.left = scan.left
          /\ scan'.tenant = scan.tenant /\ scan'.thresholds = scan.thresholds
      BY <2>1 DEF ScanState
    <2> QED
      BY <1>1, <1>4, <2>1, <2>2, <2>3 DEF Covered, OpenFor
  <1>5. ASSUME NEW c \in scan.candidates, MatchCandidate(c), ~Done(d) PROVE Covered(d)'
    <2>1. /\ scan'.left = scan.left /\ scan'.tenant = scan.tenant
          /\ scan'.thresholds = scan.thresholds /\ scan'.candidates = scan.candidates \ {c}
          /\ scan'.step \in {"match", "add"} /\ scan.step = "match"
      BY <1>5 DEF MatchCandidate, ScanState
    <2>2. CASE c = CandidateOf(d) /\ OpenFor(d)
      <3> DEFINE days == CalendarDaysUntil(c.expiryDate, today)
      <3>1. /\ c.documentId = d
            /\ KeyDue(d) = [documentId |-> c.documentId, daysBeforeExpiry |-> days]
        BY <2>2 DEF CandidateOf, KeyDue
      <3>2. days \in scan.thresholds
        BY <2>2 DEF CandidateOf, OpenFor, DueNow, Due
      <3>3. ~Sent(c.documentId, days)
        BY <1>5, <3>1 DEF Done
      <3>4. scan'.step = "add" /\ scan'.hit = KeyDue(d)
        BY <1>5, <3>1, <3>2, <3>3 DEF MatchCandidate, MatchReminderThreshold, ScanState
      <3> QED
        BY <1>1, <3>4 DEF Covered
    <2>3. CASE c # CandidateOf(d) \/ ~OpenFor(d)
      BY <1>1, <1>5, <2>1, <2>3 DEF Covered, OpenFor
    <2> QED
      BY <2>2, <2>3
  <1>6. ASSUME NEW j \in Jobs, AddJob(j), ~Done(d) PROVE Covered(d)'
    <2>1. CASE scan.hit = KeyDue(d)
      <3>1. jobState'[j] # "unused" /\ jobData'[j] = KeyDue(d)
        BY <1>6, <2>1 DEF AddJob, QueueTypeOK
      <3> QED
        BY <1>1, <3>1 DEF Covered, Done, Enqueued
    <2>2. CASE scan.hit # KeyDue(d)
      <3>1. /\ scan'.left = scan.left /\ scan'.tenant = scan.tenant
            /\ scan'.thresholds = scan.thresholds /\ scan'.candidates = scan.candidates
            /\ scan'.step = "match" /\ scan.step = "add"
        BY <1>6 DEF AddJob, ScanState
      <3> QED
        BY <1>1, <1>6, <2>2, <3>1 DEF Covered, OpenFor
    <2> QED
      BY <2>1, <2>2
  <1>7. ASSUME FinishTenant, ~Done(d) PROVE Covered(d)'
    <2>1. scan'.left = scan.left
      BY <1>7 DEF FinishTenant, ScanState
    <2> QED
      BY <1>7, <2>1 DEF FinishTenant, Covered
  <1>8. ~FinishScan
    BY IdleTypes DEF FinishScan
  <1> QED
    BY <1>2, <1>3, <1>4, <1>5, <1>6, <1>7, <1>8 DEF RunScan, StartScan

LEMMA NextScanInv ==
    ASSUME TypeInv, ScanInv, Next
    PROVE  ScanInv'
  <1> USE DEF TypeInv, TypeOK
  <1>0. /\ today \in Nat /\ edits \in Nat /\ scan.startedOn \in Nat /\ scan.editsAtStart \in Nat
        /\ scan.step # "idle" => scan.startedOn <= today /\ scan.editsAtStart <= edits
    BY BoundsAssumption DEF CounterTypeOK, Days, ScanState, ScanInv
  <1>1. CASE scan' = scan /\ UNCHANGED <<today, apiVars, edits>>
    <2>1. ASSUME Undisturbed', NEW d \in Docs, DueNow(d)' PROVE Covered(d)'
      <3>1. DueNow(d) /\ Covered(d)
        BY <1>1, <2>1 DEF DueNow, Due, Scannable, ScanInv, Undisturbed, apiVars
      <3>2. Done(d) => Done(d)'
        BY <1>1, DoneForGood DEF apiVars
      <3> QED
        BY <1>1, <3>1, <3>2 DEF Covered, OpenFor, CandidateOf, KeyDue, apiVars
    <2> QED
      BY <1>1, <2>1 DEF ScanInv
  <1>2. CASE scan' = scan /\ today' >= today /\ edits' >= edits /\ (today' > today \/ edits' > edits)
    <2>1. today' \in Nat /\ edits' \in Nat
      BY NextTypeInv, BoundsAssumption DEF CounterTypeOK, Days
    <2> QED
      BY <1>0, <1>2, <2>1 DEF ScanInv, Undisturbed
  <1>3. CASE scan'.step = "idle"
    BY <1>3 DEF ScanInv, Undisturbed
  <1>4. ASSUME NEW source \in scanRequests, StartScan(source) PROVE ScanInv'
    <2>1. /\ scan'.step = "tenants" /\ scan'.left = activeTenants
          /\ scan'.startedOn = today /\ scan'.editsAtStart = edits
          /\ UNCHANGED <<today, documents, activeTenants, policy, edits>>
      BY <1>4 DEF StartScan, ScanStep, Idle, clockVars, apiVars
    <2>2. \A d \in Docs : DueNow(d)' => TenantOf[d] \in scan'.left
      BY <2>1 DEF DueNow, Due, Scannable
    <2> QED
      BY <1>0, <2>1, <2>2 DEF ScanInv, Covered
  <1>5. ASSUME RunScan, UNCHANGED <<today, apiVars, edits>>, scan'.step # "idle",
               ~\E source \in scanRequests : StartScan(source)
        PROVE  ScanInv'
    <2>1. scan.step # "idle"
      BY <1>5 DEF RunScan, OpenTenant, SelectCandidates, MatchCandidate, AddJob, FinishTenant,
             FinishScan
    <2>2. scan'.startedOn = scan.startedOn /\ scan'.editsAtStart = scan.editsAtStart
      BY <1>5, <2>1, ScanKeepsStart
    <2>3. ASSUME Undisturbed', NEW d \in Docs, DueNow(d)' PROVE Covered(d)'
      <3>1. DueNow(d) /\ Covered(d)
        BY <1>5, <2>1, <2>2, <2>3 DEF DueNow, Due, Scannable, ScanInv, Undisturbed, apiVars
      <3>2. Done(d) => Done(d)'
        BY <1>5, DoneForGood DEF apiVars
      <3> QED
        BY <1>5, <2>1, <3>1, <3>2, CoverStays DEF apiVars
    <2> QED
      BY <1>0, <1>5, <2>1, <2>2, <2>3 DEF ScanInv
  <1> QED
    BY <1>1, <1>2, <1>3, <1>4, <1>5, StepScan, IdleTypes

LEMMA ScanInvariant == Spec => []ScanInv
  <1>1. Init => ScanInv
    BY IdleTypes DEF Init, ScanInv, Undisturbed
  <1>2. TypeInv /\ ScanInv /\ [Next]_vars => ScanInv'
    <2> SUFFICES ASSUME TypeInv, ScanInv, [Next]_vars PROVE ScanInv'
      OBVIOUS
    <2>1. CASE Next
      BY <2>1, NextScanInv
    <2>2. CASE UNCHANGED vars
      BY <2>2 DEF vars, clockVars, apiVars, jobVars, tables, ScanInv, Undisturbed, DueNow, Due,
             Scannable, Covered, OpenFor, CandidateOf, KeyDue, Done, Sent, Enqueued
    <2> QED
      BY <2>1, <2>2
  <1> QED
    BY <1>1, <1>2, TypeInvariant, PTL DEF Spec

\* A scan that completes within its day and without an edit has a job or a SENT row for
\* every document cached as EXPIRING_SOON that is at a threshold, for any number of
\* tenants, documents and jobs running meanwhile.
THEOREM CompletedScanCovers == Spec => ScanLeavesNoneBehind
  <1> DEFINE Covers == UndisturbedScan => \A d \in Docs :
                Due(d) /\ documents[d].expiryStatus = "EXPIRING_SOON" =>
                   Sent(d, KeyDue(d).daysBeforeExpiry) \/ Enqueued(KeyDue(d))
  <1>1. ScanInv /\ [Next]_vars => [Covers]_vars
    <2> SUFFICES ASSUME ScanInv, UndisturbedScan, NEW d \in Docs, DueNow(d)
                 PROVE  Done(d)
      BY DEF DueNow, Done
    <2>1. scan.step = "tenants" /\ scan.left = {} /\ Undisturbed
      BY DEF UndisturbedScan, FinishScan, Undisturbed
    <2> QED
      BY <2>1 DEF ScanInv, Covered
  <1> QED
    BY <1>1, ScanInvariant, PTL DEF Spec, ScanLeavesNoneBehind

\* The cached status is what the engine makes of the document today.
UpToDate(d) ==
    documents[d].expiryStatus =
        CalculateStatus(documents[d].expiryDate, today, PolicyOf[d], documents[d].expiryStatus)

\* The reminder that falls due today lies within the widest warning window of the document.
WithinTheWindow(d) == KeyDue(d).daysBeforeExpiry <= WidestWarningWindow(PolicyOf[d])

LEMMA SoonIsWithinTheWindow ==
    ASSUME NEW e \in Int, NEW day \in Int, e >= day, NEW row, NEW s, s \notin ManualStatus
    PROVE  CalculateStatus(e, day, row, s) = "EXPIRING_SOON"
               <=> CalendarDaysUntil(e, day) <= WidestWarningWindow(row)
  <1>1. e # NoDate /\ CalendarDaysUntil(e, day) >= 0
    BY NoDateAssumption DEF CalendarDaysUntil
  <1>2. CalculateStatus(e, day, row, s) = FutureStatus(CalendarDaysUntil(e, day), row)
    BY <1>1 DEF CalculateStatus, CalendarDaysUntil
  <1> QED
    BY <1>2 DEF FutureStatus

\* A document that the scanner reads with the status of today is at a threshold and within
\* its window exactly when it is at a threshold and EXPIRING_SOON.
LEMMA DueWithinTheWindow ==
    ASSUME TypeInv, NEW d \in Docs, Due(d), UpToDate(d), documents[d].expiryStatus \notin ManualStatus
    PROVE  documents[d].expiryStatus = "EXPIRING_SOON" <=> WithinTheWindow(d)
  <1> DEFINE e == documents[d].expiryDate
  <1>1. /\ documents[d] \in Document /\ TenantOf[d] \in Tenants
        /\ policy[TenantOf[d]] \in ReminderPolicies /\ today \in Int
    BY TenantOfAssumption, BoundsAssumption
       DEF TypeInv, TypeOK, ApiTypeOK, CounterTypeOK, Days
  <1>2. policy[TenantOf[d]].reminderDaysBefore \subseteq Nat \ {0}
    BY <1>1, ReminderPoliciesAssumption
  <1>3. e \in Int
    BY <1>1 DEF Document, Due, Scannable
  <1>4. e >= today
    <2>1. CalendarDaysUntil(e, today) \in Nat
      BY <1>2 DEF Due
    <2> QED
      BY <1>1, <1>3, <2>1 DEF CalendarDaysUntil
  <1>5. KeyDue(d).daysBeforeExpiry = CalendarDaysUntil(e, today)
    BY DEF KeyDue
  <1> HIDE DEF e
  <1> QED
    BY <1>1, <1>3, <1>4, <1>5, SoonIsWithinTheWindow DEF UpToDate, WithinTheWindow, e

\* A counterpart of what ScanFindsEveryDueDocument asks: a scan that completes within
\* its day and without an edit misses a document at a threshold only when its cached status
\* is not that of today or the threshold lies beyond the widest window of its policy.
THEOREM OnlyStaleOrBeyondTheWindowIsMissed ==
    Spec => [][UndisturbedScan => \A d \in Docs :
                  /\ Due(d) /\ documents[d].expiryStatus \notin ManualStatus
                  /\ UpToDate(d) /\ WithinTheWindow(d)
                  => Sent(d, KeyDue(d).daysBeforeExpiry) \/ Enqueued(KeyDue(d))]_vars
  <1> DEFINE Finds == UndisturbedScan => \A d \in Docs :
                /\ Due(d) /\ documents[d].expiryStatus \notin ManualStatus
                /\ UpToDate(d) /\ WithinTheWindow(d)
                => Sent(d, KeyDue(d).daysBeforeExpiry) \/ Enqueued(KeyDue(d))
  <1>1. TypeInv /\ ScanInv /\ [Next]_vars => [Finds]_vars
    <2> SUFFICES ASSUME TypeInv, ScanInv, UndisturbedScan, NEW d \in Docs, Due(d),
                        documents[d].expiryStatus \notin ManualStatus,
                        UpToDate(d), WithinTheWindow(d)
                 PROVE  Done(d)
      BY DEF Done
    <2>1. DueNow(d)
      BY DueWithinTheWindow DEF DueNow
    <2>2. scan.step = "tenants" /\ scan.left = {} /\ Undisturbed
      BY DEF UndisturbedScan, FinishScan, Undisturbed
    <2> QED
      BY <2>1, <2>2 DEF ScanInv, Covered
  <1> QED
    BY <1>1, TypeInvariant, ScanInvariant, PTL DEF Spec

-----------------------------------------------------------------------------
(* No reminder beyond the widest window *)

Widest(d) == WidestWarningWindow(PolicyOf[d])

LEMMA WidestType ==
    ASSUME NEW d \in Docs
    PROVE  Widest(d) \in Int
  <1>1. \A a, b, c, e \in Int : \E widest \in {a, b, c, e} :
            \A window \in {a, b, c, e} : window <= widest
    OBVIOUS
  <1>2. PolicyOf[d] \in ExpiryPolicy
    BY PolicyOfAssumption
  <1>3. WarningWindows(PolicyOf[d]) \subseteq Int
    BY <1>2 DEF WarningWindows, ExpiryPolicy
  <1>4. \E widest \in WarningWindows(PolicyOf[d]) :
            \A window \in WarningWindows(PolicyOf[d]) : window <= widest
    BY <1>1, <1>2 DEF WarningWindows, ExpiryPolicy
  <1> QED
    BY <1>3, <1>4 DEF Widest, WidestWarningWindow

\* A document that is cached as EXPIRING_SOON and has not expired is within its window,
\* for it was when the status was computed and the days left only get fewer; so is what
\* the scanner has read of it, and the threshold of each job.
SoonInv ==
    \A d \in Docs :
        documents[d].expiryStatus = "EXPIRING_SOON" /\ documents[d].expiryDate # NoDate
           /\ documents[d].expiryDate >= today
        => documents[d].expiryDate - today <= Widest(d)

CandidatesInv ==
    /\ \A c \in scan.candidates :
          c.expiryDate >= today => c.expiryDate - today <= Widest(c.documentId)
    /\ scan.step = "add" => scan.hit.daysBeforeExpiry <= Widest(scan.hit.documentId)

JobsInv ==
    \A j \in Jobs : jobState[j] # "unused" =>
        jobData[j].daysBeforeExpiry <= Widest(jobData[j].documentId)

LEMMA NextSoonInv ==
    ASSUME TypeInv, SoonInv, Next
    PROVE  SoonInv'
  <1> USE DEF TypeInv, TypeOK, ApiTypeOK
  <1>0. today \in Int
    BY BoundsAssumption DEF CounterTypeOK, Days
  <1>1. CASE UNCHANGED documents /\ today' = today
    BY <1>1 DEF SoonInv
  <1>2. CASE NewDay
    <2> SUFFICES ASSUME NEW d \in Docs, documents[d].expiryStatus = "EXPIRING_SOON",
                        documents[d].expiryDate # NoDate, documents[d].expiryDate >= today + 1
                 PROVE  documents[d].expiryDate - (today + 1) <= Widest(d)
      BY <1>2 DEF NewDay, apiVars, SoonInv
    <2>1. documents[d].expiryDate \in Int
      BY DEF Document
    <2> HIDE DEF TypeInv, TypeOK, ApiTypeOK
    <2>2. documents[d].expiryDate - today <= Widest(d)
      BY <1>0, <2>1 DEF SoonInv
    <2> QED
      BY <1>0, <2>1, <2>2, WidestType
  <1>3. ASSUME NEW d \in Docs, NEW e \in ExpiryDates \cup {documents[d].expiryDate},
               UpdateDocument(d, e)
        PROVE  SoonInv'
    <2> DEFINE status == CalculateStatus(e, today, PolicyOf[d], documents[d].expiryStatus)
    <2>1. /\ documents' = [documents EXCEPT ![d].expiryDate = e, ![d].expiryStatus = status]
          /\ today' = today
      BY <1>3 DEF UpdateDocument, Edit, clockVars
    <2>2. documents[d] \in Document /\ e \in Int \cup {NoDate}
      BY ExpiryDatesAssumption DEF Document
    <2> HIDE DEF status
    <2>3. /\ documents'[d].expiryDate = e /\ documents'[d].expiryStatus = status
          /\ \A k \in Docs \ {d} : documents'[k] = documents[k]
      BY <2>1, <2>2 DEF Document
    <2>4. ASSUME status = "EXPIRING_SOON", e # NoDate, e >= today
          PROVE  e - today <= Widest(d)
      <3>1. documents[d].expiryStatus \notin ManualStatus
        BY <2>4 DEF status, CalculateStatus, ManualStatus
      <3> QED
        BY <1>0, <2>2, <2>4, <3>1, SoonIsWithinTheWindow DEF status, Widest, CalendarDaysUntil
    <2> QED
      BY <2>1, <2>3, <2>4 DEF SoonInv
  <1>4. ASSUME NEW d \in Docs, NEW status \in ManualStatus, OverrideStatus(d, status)
        PROVE  SoonInv'
    <2>1. /\ documents' = [documents EXCEPT ![d].expiryStatus = status]
          /\ today' = today /\ status # "EXPIRING_SOON"
      BY <1>4 DEF OverrideStatus, Edit, clockVars, ManualStatus
    <2>2. /\ documents'[d].expiryStatus # "EXPIRING_SOON"
          /\ \A k \in Docs \ {d} : documents'[k] = documents[k]
      BY <2>1 DEF Document
    <2> QED
      BY <2>1, <2>2 DEF SoonInv
  <1>5. ASSUME NEW d \in Docs, ArchiveDocument(d) PROVE SoonInv'
    <2>1. documents' = [documents EXCEPT ![d].deleted = TRUE] /\ today' = today
      BY <1>5 DEF ArchiveDocument, Edit, clockVars
    <2>2. \A k \in Docs : /\ documents'[k].expiryStatus = documents[k].expiryStatus
                          /\ documents'[k].expiryDate = documents[k].expiryDate
      BY <2>1 DEF Document
    <2> QED
      BY <2>1, <2>2 DEF SoonInv
  <1>6. CASE Environment
    BY <1>1, <1>2, <1>3, <1>4, <1>5, <1>6 DEF Environment, CronTick, RequestScan, ChangeEmail,
       ChangePolicy, ChangeTenant, Edit, clockVars, apiVars
  <1>7. CASE RunScan \/ Faulty \/ \E j \in Jobs : RunJob(j)
    <2>1. UNCHANGED <<today, documents>>
      BY <1>7 DEF RunScan, ScanStep, StartScan, OpenTenant, SelectCandidates, MatchCandidate,
         AddJob, FinishTenant, FinishScan, Faulty, Fault, LoseSmtpReply, FailStatement,
         LoseCommitReply, FailScan, Crash, RunJob, JobStep, TakeJob, CheckTenant, CheckKey,
         ReadDocument, SendMail, ClaimKey, Commit, Acknowledge, RecoverStalled, apiVars, clockVars
    <2> QED
      BY <1>1, <2>1
  <1> QED
    BY <1>6, <1>7 DEF Next

LEMMA NextCandidatesInv ==
    ASSUME TypeInv, SoonInv, CandidatesInv, Next
    PROVE  CandidatesInv'
  <1> USE DEF TypeInv, TypeOK
  <1>0. today \in Int /\ today' \in Int /\ today' >= today
    <2>1. today \in Int /\ today' \in Int
      BY NextTypeInv, BoundsAssumption DEF CounterTypeOK, Days
    <2> QED
      BY <2>1, StepScan
  <1>1. \A c \in scan.candidates : c.expiryDate \in Int /\ c.documentId \in Docs
    BY DEF ScanState, Candidate
  <1>2. ASSUME scan'.candidates \subseteq scan.candidates,
               scan'.step = "add" => scan.step = "add" /\ scan'.hit = scan.hit
        PROVE  CandidatesInv'
    <2>1. ASSUME NEW c \in scan.candidates, c.expiryDate >= today'
          PROVE  c.expiryDate - today' <= Widest(c.documentId)
      <3>1. c.expiryDate - today <= Widest(c.documentId)
        BY <1>0, <1>1, <2>1 DEF CandidatesInv
      <3> HIDE DEF TypeInv, TypeOK
      <3> QED
        BY <1>0, <1>1, <2>1, <3>1, WidestType
    <2> QED
      BY <1>2, <2>1 DEF CandidatesInv
  <1>3. ASSUME scan' = Idle PROVE CandidatesInv'
    BY <1>3 DEF Idle, CandidatesInv
  <1>4. ASSUME NEW source \in scanRequests, StartScan(source) PROVE CandidatesInv'
    <2>1. scan'.candidates = {} /\ scan'.step = "tenants"
      BY <1>4 DEF StartScan, Idle
    <2> QED
      BY <2>1 DEF CandidatesInv
  <1>5. ASSUME NEW t \in scan.left, OpenTenant(t) PROVE CandidatesInv'
    <2>1. scan'.candidates = scan.candidates /\ scan'.step # "add"
      BY <1>5 DEF OpenTenant, ScanState
    <2> QED
      BY <1>2, <2>1
  <1>6. CASE SelectCandidates
    <2> DEFINE selected == {k \in Docs : /\ TenantOf[k] = scan.tenant
                                         /\ ~documents[k].deleted
                                         /\ documents[k].expiryDate # NoDate
                                         /\ documents[k].expiryStatus = "EXPIRING_SOON"}
    <2> DEFINE found == {[documentId |-> k, expiryDate |-> documents[k].expiryDate] : k \in selected}
    <2>1. scan' = [scan EXCEPT !.step = "match", !.candidates = found] /\ today' = today
      BY <1>6 DEF SelectCandidates, ScanStep, clockVars
    <2>2. \A c \in found : c.expiryDate >= today => c.expiryDate - today <= Widest(c.documentId)
      BY DEF SoonInv
    <2> HIDE DEF found
    <2>3. scan'.step = "match" /\ scan'.candidates = found
      BY <2>1 DEF ScanState
    <2> QED
      BY <2>1, <2>2, <2>3 DEF CandidatesInv
  <1>7. ASSUME NEW c \in scan.candidates, MatchCandidate(c) PROVE CandidatesInv'
    <2> DEFINE days == c.expiryDate - today
    <2>1. /\ scan'.candidates = scan.candidates \ {c} /\ today' = today
          /\ \/ scan'.step = "match"
             \/ /\ days \in scan.thresholds
                /\ scan'.hit = [documentId |-> c.documentId, daysBeforeExpiry |-> days]
      BY <1>7 DEF MatchCandidate, MatchReminderThreshold, CalendarDaysUntil, ScanState, ScanStep,
         clockVars
    <2>2. scan.thresholds \subseteq Nat
      BY DEF ScanState
    <2>3. days \in scan.thresholds => days <= Widest(c.documentId)
      <3>1. days \in scan.thresholds => c.expiryDate >= today
        BY <1>0, <1>1, <2>2
      <3> QED
        BY <3>1 DEF CandidatesInv
    <2> HIDE DEF days
    <2> QED
      BY <2>1, <2>3 DEF CandidatesInv
  <1>8. ASSUME NEW j \in Jobs, AddJob(j) PROVE CandidatesInv'
    <2>1. scan'.candidates = scan.candidates /\ scan'.step = "match"
      BY <1>8 DEF AddJob, ScanState
    <2> QED
      BY <1>2, <2>1
  <1>9. CASE FinishTenant
    <2>1. scan'.candidates = scan.candidates /\ scan'.step = "tenants"
      BY <1>9 DEF FinishTenant, ScanState
    <2> QED
      BY <1>2, <2>1
  <1>10. CASE FinishScan
    BY <1>3, <1>10 DEF FinishScan
  <1> QED
    BY <1>2, <1>3, <1>4, <1>5, <1>6, <1>7, <1>8, <1>9, <1>10, StepScan DEF RunScan

LEMMA NextJobsInv ==
    ASSUME TypeInv, CandidatesInv, JobsInv, Next
    PROVE  JobsInv'
  <1> USE DEF TypeInv, TypeOK, QueueTypeOK
  <1>1. ASSUME NEW j \in Jobs, AddJob(j) PROVE JobsInv'
    BY <1>1 DEF AddJob, CandidatesInv, JobsInv
  <1>2. ASSUME ~\E j \in Jobs : AddJob(j), NEW j \in Jobs, jobState[j] = "unused"
        PROVE  jobState'[j] = "unused"
    <2>1. pc[j] = "idle"
      BY <1>2 DEF Control
    <2>2. ASSUME NEW k \in Jobs, RunJob(k) \/ LoseSmtpReply(k) \/ FailStatement(k)
                                 \/ LoseCommitReply(k)
          PROVE  jobState'[j] = "unused"
      BY <1>2, <2>1, <2>2 DEF RunJob, TakeJob, CheckTenant, CheckKey, ReadDocument, SendMail,
         ClaimKey, Commit, Acknowledge, RecoverStalled, Goto, EndRun, LoseSmtpReply,
         FailStatement, LoseCommitReply
    <2>3. CASE Environment \/ FailScan \/ Crash
      BY <1>2, <2>3 DEF Environment, NewDay, CronTick, Edit, RequestScan, UpdateDocument,
         OverrideStatus, ArchiveDocument, ChangeEmail, ChangePolicy, ChangeTenant, FailScan,
         Crash, Running, jobVars
    <2>4. CASE RunScan
      BY <1>2, <2>4 DEF RunScan, StartScan, OpenTenant, SelectCandidates, MatchCandidate,
         FinishTenant, FinishScan, jobVars
    <2> QED
      BY <2>2, <2>3, <2>4 DEF Next, Faulty
  <1>3. CASE ~\E j \in Jobs : AddJob(j)
    BY <1>2, <1>3, StepKeeps DEF JobsInv, Keeps
  <1> QED
    BY <1>1, <1>3

\* Every job is for a threshold within the widest warning window of its document, whatever
\* the tenant's reminder_days_before says: a threshold beyond it never fires, because the
\* scanner reads only documents that were EXPIRING_SOON on some day up to now.
THEOREM NoReminderBeyondTheWindow ==
    Spec => [](\A j \in Jobs : jobState[j] # "unused" =>
                  jobData[j].daysBeforeExpiry <= WidestWarningWindow(PolicyOf[jobData[j].documentId]))
  <1>1. Init => SoonInv /\ CandidatesInv /\ JobsInv
    <2> SUFFICES ASSUME Init PROVE SoonInv /\ CandidatesInv /\ JobsInv
      OBVIOUS
    <2>1. PICK expiryDate \in [Docs -> ExpiryDates] :
              documents = [d \in Docs |->
                  [expiryDate |-> expiryDate[d], deleted |-> FALSE,
                   expiryStatus |-> CalculateStatus(expiryDate[d], 0, PolicyOf[d], "VALID")]]
      BY DEF Init
    <2>2. SoonInv
      <3> SUFFICES ASSUME NEW d \in Docs, expiryDate[d] >= 0,
                          CalculateStatus(expiryDate[d], 0, PolicyOf[d], "VALID") = "EXPIRING_SOON"
                   PROVE  expiryDate[d] - 0 <= Widest(d)
        BY <2>1 DEF Init, SoonInv
      <3>1. expiryDate[d] \in Int /\ "VALID" \notin ManualStatus
        BY ExpiryDatesAssumption DEF ManualStatus
      <3> QED
        BY <3>1, SoonIsWithinTheWindow DEF Widest, CalendarDaysUntil
    <2>3. CandidatesInv
      BY DEF Init, Idle, CandidatesInv
    <2>4. JobsInv
      BY DEF Init, JobsInv
    <2> QED
      BY <2>2, <2>3, <2>4
  <1>2. TypeInv /\ SoonInv /\ CandidatesInv /\ JobsInv /\ [Next]_vars
        => SoonInv' /\ CandidatesInv' /\ JobsInv'
    <2>1. ASSUME SoonInv, CandidatesInv, JobsInv, UNCHANGED vars
          PROVE  SoonInv' /\ CandidatesInv' /\ JobsInv'
      BY <2>1 DEF vars, clockVars, apiVars, jobVars, SoonInv, CandidatesInv, JobsInv
    <2> QED
      BY <2>1, NextSoonInv, NextCandidatesInv, NextJobsInv
  <1>3. JobsInv => \A j \in Jobs : jobState[j] # "unused" =>
                  jobData[j].daysBeforeExpiry <= WidestWarningWindow(PolicyOf[jobData[j].documentId])
    BY DEF JobsInv, Widest
  <1> QED
    BY <1>1, <1>2, <1>3, TypeInvariant, PTL DEF Spec

-----------------------------------------------------------------------------
(* How far a job is, and how often it mails *)

\* The steps that are left of a run, 9 when it has yet to be taken.
Remaining(j) ==
    IF jobState[j] = "unused" THEN 10
    ELSE IF jobState[j] = "waiting" THEN 9
    ELSE IF pc[j] = "tenant" THEN 8
    ELSE IF pc[j] = "key" THEN 7
    ELSE IF pc[j] = "document" THEN 6
    ELSE IF pc[j] = "send" THEN 5
    ELSE IF pc[j] = "claim" THEN 4
    ELSE IF pc[j] = "commit" THEN 3
    ELSE IF pc[j] = "ack" THEN 2
    ELSE IF jobState[j] = "stalled" THEN 1
    ELSE 0

Rests(j) == UNCHANGED <<jobState[j], pc[j], stalls[j], mailed[j]>>

\* Only the step that sends mails.
GoesOn(j) ==
    /\ Remaining(j)' < Remaining(j)
    /\ stalls'[j] = stalls[j]
    /\ mailed'[j] = mailed[j] \/ (Remaining(j) = 5 /\ mailed'[j] = mailed[j] + 1)

\* BullMQ gives a stalled job another run.
StartsAgain(j) ==
    /\ Remaining(j) = 1 /\ Remaining(j)' = 9
    /\ stalls[j] < MaxStalledCount /\ stalls'[j] = stalls[j] + 1
    /\ mailed'[j] = mailed[j]

LEMMA RemainingType ==
    ASSUME TypeInv, NEW j \in Jobs
    PROVE  Remaining(j) \in 0..10
  BY DEF Remaining

LEMMA StepRuns ==
    ASSUME TypeInv, Next, NEW j \in Jobs
    PROVE  Rests(j) \/ GoesOn(j) \/ StartsAgain(j)
  <1> USE DEF TypeInv, TypeOK, QueueTypeOK, RunTypeOK
  <1>1. CASE Environment
    BY <1>1 DEF Environment, NewDay, CronTick, Edit, RequestScan, UpdateDocument, OverrideStatus,
           ArchiveDocument, ChangeEmail, ChangePolicy, ChangeTenant, jobVars, Rests
  <1>2. CASE RunScan
    <2>1. ASSUME NEW k \in Jobs, AddJob(k) PROVE Rests(j) \/ GoesOn(j)
      BY <2>1 DEF AddJob, Rests, GoesOn, Remaining
    <2> QED
      BY <1>2, <2>1 DEF RunScan, StartScan, OpenTenant, SelectCandidates, MatchCandidate,
             FinishTenant, FinishScan, jobVars, Rests
  <1>3. ASSUME NEW k \in Jobs, NEW state \in {"completed", "failed"}, EndRun(k, state),
               pc[k] # "idle"
        PROVE  Rests(j) \/ GoesOn(j)
    <2>1. jobState[k] = "active" /\ pc[k] \in Steps
      BY <1>3 DEF Control
    <2> QED
      BY <1>3, <2>1 DEF EndRun, Rests, GoesOn, Remaining, Steps
  <1>4. ASSUME NEW k \in Jobs, TakeJob(k) PROVE Rests(j) \/ GoesOn(j)
    BY <1>4 DEF TakeJob, Rests, GoesOn, Remaining
  <1>5. ASSUME NEW k \in Jobs, CheckTenant(k) PROVE Rests(j) \/ GoesOn(j)
    BY <1>3, <1>5 DEF CheckTenant, Goto, Control, Rests, GoesOn, Remaining
  <1>6. ASSUME NEW k \in Jobs, CheckKey(k) \/ ReadDocument(k) PROVE Rests(j) \/ GoesOn(j)
    BY <1>6 DEF CheckKey, ReadDocument, Goto, Control, Rests, GoesOn, Remaining
  <1>7. ASSUME NEW k \in Jobs, SendMail(k) \/ LoseSmtpReply(k) PROVE Rests(j) \/ GoesOn(j)
    <2>1. jobState[k] = "active" /\ pc[k] = "send"
      BY <1>7 DEF SendMail, LoseSmtpReply, Control
    <2>2. mailed'[j] = mailed[j] \/ (j = k /\ mailed'[j] = mailed[j] + 1)
      BY <1>7 DEF SendMail, LoseSmtpReply, Deliver
    <2> QED
      BY <1>7, <2>1, <2>2 DEF SendMail, LoseSmtpReply, Goto, Rests, GoesOn, Remaining
  <1>8. ASSUME NEW k \in Jobs, ClaimKey(k) PROVE Rests(j) \/ GoesOn(j)
    BY <1>3, <1>8 DEF ClaimKey, Goto, Control, Rests, GoesOn, Remaining
  <1>9. ASSUME NEW k \in Jobs, Commit(k) PROVE Rests(j) \/ GoesOn(j)
    BY <1>9 DEF Commit, Goto, Control, Rests, GoesOn, Remaining
  <1>10. ASSUME NEW k \in Jobs, Acknowledge(k) \/ FailStatement(k) \/ LoseCommitReply(k)
         PROVE  Rests(j) \/ GoesOn(j)
    BY <1>3, <1>10 DEF Acknowledge, FailStatement, LoseCommitReply
  <1>11. ASSUME NEW k \in Jobs, RecoverStalled(k)
         PROVE  Rests(j) \/ GoesOn(j) \/ StartsAgain(j)
    BY <1>11 DEF RecoverStalled, Control, Rests, GoesOn, StartsAgain, Remaining
  <1>12. CASE FailScan
    BY <1>12 DEF FailScan, jobVars, Rests
  <1>13. CASE Crash
    <2>1. CASE jobState[j] = "active"
      <3>1. pc[j] \in Steps \ {"idle"}
        BY <2>1 DEF Control
      <3> QED
        BY <1>13, <2>1, <3>1 DEF Crash, Running, GoesOn, Remaining, Steps
    <2>2. CASE jobState[j] # "active"
      <3>1. pc[j] = "idle"
        BY <2>2 DEF Control
      <3> QED
        BY <1>13, <2>2, <3>1 DEF Crash, Running, GoesOn, Rests, Remaining
    <2> QED
      BY <2>1, <2>2
  <1> QED
    BY <1>1, <1>2, <1>4, <1>5, <1>6, <1>7, <1>8, <1>9, <1>10, <1>11, <1>12, <1>13
       DEF Next, RunJob, Faulty

\* The steps that are left of a job, with all the runs that BullMQ may still give it.
StepsLeft(j) == 10 * (MaxStalledCount - stalls[j]) + Remaining(j)

\* Of every job.
StepsAreNatural == \A j \in Jobs : StepsLeft(j) \in Nat
RunsDown == \A j \in Jobs : StepsLeft(j)' < StepsLeft(j) \/ Rests(j)

LEMMA StepsLeftType == TypeInv => StepsAreNatural
  <1> SUFFICES ASSUME TypeInv, NEW j \in Jobs PROVE StepsLeft(j) \in Nat
    BY DEF StepsAreNatural
  <1>1. stalls[j] \in 0..MaxStalledCount /\ Remaining(j) \in 0..10
    BY RemainingType DEF TypeInv, TypeOK, QueueTypeOK
  <1> QED
    BY <1>1, BoundsAssumption DEF StepsLeft

LEMMA StepRunsDown == TypeInv /\ [Next]_vars => RunsDown
  <1> SUFFICES ASSUME TypeInv, [Next]_vars, NEW j \in Jobs, ~Rests(j)
               PROVE  StepsLeft(j)' < StepsLeft(j)
    BY DEF RunsDown
  <1>1. Next
    BY DEF vars, jobVars, Rests
  <1>2. TypeInv'
    BY NextTypeInv
  <1>3. /\ stalls[j] \in 0..MaxStalledCount /\ stalls'[j] \in 0..MaxStalledCount
        /\ Remaining(j) \in 0..10
    BY <1>2, RemainingType DEF TypeInv, TypeOK, QueueTypeOK
  <1>4. Remaining(j)' \in 0..10
    BY DEF Remaining
  <1>5. StepsLeft(j)' = 10 * (MaxStalledCount - stalls'[j]) + Remaining(j)'
    BY DEF StepsLeft
  <1> QED
    BY <1>1, <1>3, <1>4, <1>5, StepRuns, BoundsAssumption DEF StepsLeft, GoesOn, StartsAgain

\* A job makes at most 10 * (MaxStalledCount + 1) steps: each that it makes, or that a fault
\* makes of it, leaves it fewer, and nothing ever adds any.  So no job runs round in circles,
\* however often processes crash: with fair workers it ends (EveryJobEnds).
THEOREM JobsRunDown == Spec => []StepsAreNatural /\ [][RunsDown]_vars
  BY StepsLeftType, StepRunsDown, TypeInvariant, PTL DEF Spec

\* A run mails at most once: until its step that sends, no more than the runs before it.
MailInv ==
    \A j \in Jobs :
        /\ mailed[j] <= stalls[j] + 1
        /\ Remaining(j) >= 5 => mailed[j] <= stalls[j]

\* However jobs overlap and whatever fails, a job mails at most once for each of its runs,
\* so MaxStalledCount + 1 times at most: only a crash lets one job repeat its message.
THEOREM MailsAreBounded == Spec => [](\A j \in Jobs : mailed[j] <= MaxStalledCount + 1)
  <1>1. Init => MailInv
    BY DEF Init, MailInv
  <1>2. TypeInv /\ MailInv /\ [Next]_vars => MailInv'
    <2> SUFFICES ASSUME TypeInv, MailInv, [Next]_vars, NEW j \in Jobs
                 PROVE  mailed'[j] <= stalls'[j] + 1 /\ (Remaining(j)' >= 5 => mailed'[j] <= stalls'[j])
      BY DEF MailInv
    <2>1. /\ mailed[j] \in Nat /\ stalls[j] \in Nat /\ Remaining(j) \in 0..10
          /\ Remaining(j)' \in 0..10
          /\ mailed[j] <= stalls[j] + 1 /\ (Remaining(j) >= 5 => mailed[j] <= stalls[j])
      BY RemainingType DEF MailInv, TypeInv, TypeOK, QueueTypeOK, RunTypeOK, Remaining
    <2>2. CASE Rests(j)
      BY <2>1, <2>2 DEF Rests, Remaining
    <2>3. CASE GoesOn(j) \/ StartsAgain(j)
      BY <2>1, <2>3 DEF GoesOn, StartsAgain
    <2>4. CASE UNCHANGED vars
      BY <2>4, <2>2 DEF vars, jobVars, Rests
    <2> QED
      BY <2>2, <2>3, <2>4, StepRuns
  <1>3. TypeInv /\ MailInv => \A j \in Jobs : mailed[j] <= MaxStalledCount + 1
    BY BoundsAssumption DEF MailInv, TypeInv, TypeOK, QueueTypeOK, RunTypeOK
  <1> QED
    BY <1>1, <1>2, <1>3, TypeInvariant, PTL DEF Spec

-----------------------------------------------------------------------------
(* While no two runs overlap and nothing fails *)

\* No two jobs with one key run at the same time.
Apart == \A j, k \in Jobs : Running(j) /\ Running(k) /\ jobData[j] = jobData[k] => j = k

\* What a job knows of its key: it mails only after it found the key free, and once its
\* message is out the key is claimed, or the job is about to claim it.
Settles(j) ==
    /\ jobState[j] # "stalled"
    /\ jobState[j] \in {"unused", "waiting"} => mailed[j] = 0
    /\ pc[j] \in {"tenant", "key", "document", "send"} => mailed[j] = 0
    /\ mailed[j] > 0 => \/ jobData[j] \in idempotencyKeys
                        \/ pc[j] \in {"claim", "commit"} /\ outcome[j] = "SENT"
    /\ pc[j] \in Between => jobData[j] \notin idempotencyKeys

ApartInv == (\A j \in Jobs : Settles(j)) /\ NoDuplicateMail

\* What a step of j does to the other jobs: nothing.
OthersRest(j) ==
    \A k \in Jobs \ {j} :
        /\ jobState'[k] = jobState[k] /\ pc'[k] = pc[k] /\ outcome'[k] = outcome[k]
        /\ mailed'[k] = mailed[k] /\ jobData'[k] = jobData[k]

\* j claims no key but its own, and mails only in the step that sends.
ClaimsOwn(j) ==
    \/ idempotencyKeys' = idempotencyKeys
    \/ Running(j) /\ idempotencyKeys' = idempotencyKeys \cup {jobData[j]}
SendsOnce(j) ==
    \/ mailed'[j] = mailed[j]
    \/ Running(j) /\ pc[j] = "send" /\ jobData'[j] = jobData[j] /\ mailed'[j] = mailed[j] + 1

LEMMA ApartMove ==
    ASSUME TypeInv, Apart, ApartInv,
           NEW j \in Jobs, OthersRest(j), ClaimsOwn(j), SendsOnce(j), Settles(j)',
           jobData'[j] = jobData[j] \/ mailed'[j] = 0
    PROVE  ApartInv'
  <1>1. ASSUME NEW k \in Jobs PROVE pc[k] \in Between => Running(k)
    BY DEF TypeInv, Control, Running, Between
  <1>2. ASSUME NEW k \in Jobs \ {j} PROVE Settles(k)'
    <2>1. Settles(k) /\ (pc[k] \in Between => jobData[k] \notin idempotencyKeys')
      BY <1>1 DEF ApartInv, Settles, Apart, ClaimsOwn
    <2> QED
      BY <2>1 DEF Settles, OthersRest, ClaimsOwn
  <1>3. ASSUME NEW k \in Jobs \ {j}, jobData'[k] = jobData'[j]
        PROVE  mailed'[k] = 0 \/ mailed'[j] = 0
    <2>1. CASE mailed'[j] = mailed[j]
      BY <1>3, <2>1 DEF ApartInv, NoDuplicateMail, OthersRest
    <2>2. CASE Running(j) /\ pc[j] = "send" /\ jobData'[j] = jobData[j]
      <3>1. jobData[k] = jobData[j] /\ mailed'[k] = mailed[k] /\ mailed[k] \in Nat
        BY <1>3, <2>2 DEF OthersRest, TypeInv, TypeOK, RunTypeOK
      <3>2. jobData[k] \notin idempotencyKeys /\ pc[k] \notin {"claim", "commit"}
        BY <1>1, <2>2, <3>1 DEF ApartInv, Settles, Apart, Between
      <3> QED
        BY <3>1, <3>2 DEF ApartInv, Settles
    <2> QED
      BY <2>1, <2>2 DEF SendsOnce
  <1>4. mailed'[j] <= 1
    BY DEF ApartInv, NoDuplicateMail, Settles, SendsOnce
  <1>5. \A k \in Jobs \ {j} : mailed'[k] <= 1
    BY DEF ApartInv, NoDuplicateMail, OthersRest
  <1>6. ASSUME NEW i \in Jobs \ {j}, NEW k \in Jobs \ {j}, i # k, jobData'[i] = jobData'[k]
        PROVE  mailed'[i] = 0 \/ mailed'[k] = 0
    BY <1>6 DEF ApartInv, NoDuplicateMail, OthersRest
  <1>7. NoDuplicateMail'
    BY <1>3, <1>4, <1>5, <1>6 DEF NoDuplicateMail
  <1> QED
    BY <1>2, <1>7 DEF ApartInv

LEMMA FaultsCount ==
    ASSUME TypeInv, Faulty
    PROVE  faults' = faults + 1 /\ faults' # 0
  <1>1. faults \in Nat
    BY BoundsAssumption DEF TypeInv, TypeOK, CounterTypeOK
  <1>2. faults' = faults + 1
    <2>1. CASE FailScan \/ Crash
      BY <2>1 DEF FailScan, Crash, Fault
    <2>2. ASSUME NEW j \in Jobs, LoseSmtpReply(j) PROVE faults' = faults + 1
      BY <2>2 DEF LoseSmtpReply
    <2>3. ASSUME NEW j \in Jobs, FailStatement(j) \/ LoseCommitReply(j)
          PROVE  faults' = faults + 1
      BY <2>3 DEF FailStatement, LoseCommitReply, Fault
    <2> QED
      BY <2>1, <2>2, <2>3 DEF Faulty
  <1> QED
    BY <1>1, <1>2

LEMMA ApartStep ==
    ASSUME TypeInv, Apart, ApartInv, Next, faults' = 0
    PROVE  ApartInv'
  <1>1. ~Faulty
    BY FaultsCount
  <1>2. ASSUME UNCHANGED <<jobState, jobData, pc, outcome, mailed, idempotencyKeys>>
        PROVE  ApartInv'
    BY <1>2 DEF ApartInv, Settles, NoDuplicateMail
  <1>3. CASE Environment
    <2>1. UNCHANGED <<jobState, jobData, pc, outcome, mailed, idempotencyKeys>>
      BY <1>3 DEF Environment, NewDay, CronTick, Edit, RequestScan, UpdateDocument, OverrideStatus,
             ArchiveDocument, ChangeEmail, ChangePolicy, ChangeTenant, jobVars, tables
    <2> QED
      BY <1>2, <2>1
  <1>4. CASE RunScan /\ ~\E j \in Jobs : AddJob(j)
    <2>1. UNCHANGED <<jobState, jobData, pc, outcome, mailed, idempotencyKeys>>
      BY <1>4 DEF RunScan, StartScan, OpenTenant, SelectCandidates, MatchCandidate, FinishTenant,
             FinishScan, ScanStep, jobVars, tables
    <2> QED
      BY <1>2, <2>1
  <1>5. ASSUME NEW j \in Jobs, AddJob(j) PROVE ApartInv'
    <2> USE DEF TypeInv, TypeOK, QueueTypeOK, RunTypeOK
    <2>1. /\ Settles(j) /\ pc[j] = "idle" /\ jobState[j] = "unused"
          /\ jobState' = [jobState EXCEPT ![j] = "waiting"]
          /\ jobData' = [jobData EXCEPT ![j] = scan.hit]
          /\ UNCHANGED <<pc, outcome, mailed, idempotencyKeys>>
      BY <1>5 DEF AddJob, ScanStep, tables, ApartInv, Control
    <2>2. mailed'[j] = 0 /\ Settles(j)'
      BY <2>1 DEF Settles, Between
    <2>3. OthersRest(j) /\ ClaimsOwn(j) /\ SendsOnce(j)
      BY <2>1 DEF OthersRest, ClaimsOwn, SendsOnce
    <2> QED
      BY <2>2, <2>3, ApartMove
  <1>6. ASSUME NEW j \in Jobs, RunJob(j) PROVE ApartInv'
    <2> USE DEF TypeInv, TypeOK, QueueTypeOK, RunTypeOK
    <2>0. Settles(j)
      BY DEF ApartInv
    <2>1. UNCHANGED jobData /\ OthersRest(j)
      BY <1>6 DEF RunJob, TakeJob, CheckTenant, CheckKey, ReadDocument, SendMail, Deliver,
             ClaimKey, Commit, Acknowledge, RecoverStalled, Goto, EndRun, JobStep, OthersRest
    <2>2. ASSUME ClaimsOwn(j), SendsOnce(j), Settles(j)' PROVE ApartInv'
      BY <2>1, <2>2, ApartMove
    <2>3. pc[j] # "idle" => Running(j)
      BY DEF Control, Running
    <2>4. CASE TakeJob(j)
      BY <2>0, <2>2, <2>4 DEF TakeJob, ClaimsOwn, SendsOnce, JobStep, Settles, Between, tables
    <2>5. CASE CheckTenant(j)
      <3>1. ClaimsOwn(j) /\ SendsOnce(j) /\ mailed[j] = 0
        BY <2>0, <2>5 DEF CheckTenant, EndRun, Goto, ClaimsOwn, SendsOnce, Settles, tables
      <3>2. Settles(j)'
        BY <2>5, <3>1 DEF CheckTenant, EndRun, Goto, ClaimsOwn, SendsOnce, Settles, Between, Control
      <3> QED
        BY <2>2, <3>1, <3>2
    <2>6. CASE CheckKey(j)
      <3>1. ClaimsOwn(j) /\ SendsOnce(j) /\ mailed[j] = 0
        BY <2>0, <2>6 DEF CheckKey, Goto, ClaimsOwn, SendsOnce, Settles, tables
      <3>2. Settles(j)'
        BY <2>0, <2>1, <2>6, <3>1 DEF CheckKey, Goto, Settles, Between, tables, Control
      <3> QED
        BY <2>2, <3>1, <3>2
    <2>7. CASE ReadDocument(j)
      <3>1. ClaimsOwn(j) /\ SendsOnce(j) /\ mailed[j] = 0
        BY <2>0, <2>7 DEF ReadDocument, Goto, ClaimsOwn, SendsOnce, Settles, tables
      <3>2. Settles(j)'
        BY <2>0, <2>1, <2>7, <3>1 DEF ReadDocument, Goto, Settles, Between, tables, Control
      <3> QED
        BY <2>2, <3>1, <3>2
    <2>8. CASE SendMail(j)
      <3>1. ClaimsOwn(j) /\ SendsOnce(j) /\ mailed[j] = 0
        BY <2>0, <2>1, <2>3, <2>8
           DEF SendMail, Deliver, Goto, ClaimsOwn, SendsOnce, Settles, tables
      <3>2. Settles(j)'
        BY <2>0, <2>1, <2>8, <3>1 DEF SendMail, Deliver, Goto, Settles, Between, tables, Control
      <3> QED
        BY <2>2, <3>1, <3>2
    <2>9. CASE ClaimKey(j)
      <3>1. ClaimsOwn(j) /\ SendsOnce(j)
        BY <2>9 DEF ClaimKey, EndRun, Goto, ClaimsOwn, SendsOnce, tables
      <3>2. Settles(j)'
        BY <2>0, <2>1, <2>9, <3>1 DEF ClaimKey, EndRun, Goto, Settles, Between, tables, Control
      <3> QED
        BY <2>2, <3>1, <3>2
    <2>10. CASE Commit(j)
      <3>1. ClaimsOwn(j) /\ SendsOnce(j)
        BY <2>3, <2>10 DEF Commit, Publish, ClaimsOwn, SendsOnce
      <3>2. mailed[j] > 0 => jobData[j] \in idempotencyKeys'
        BY <2>0, <2>10 DEF Commit, Publish, Settles, Terminal
      <3>3. jobState'[j] = jobState[j] /\ jobState[j] = "active" /\ pc'[j] = "ack"
            /\ jobData' = jobData /\ mailed' = mailed
        BY <2>1, <2>10 DEF Commit, Goto, Control
      <3>4. Settles(j)'
        BY <3>2, <3>3 DEF Settles, Between
      <3> QED
        BY <2>2, <3>1, <3>4
    <2>11. CASE Acknowledge(j)
      <3>1. ClaimsOwn(j) /\ SendsOnce(j)
        BY <2>11 DEF Acknowledge, EndRun, ClaimsOwn, SendsOnce, tables
      <3>2. Settles(j)'
        BY <2>0, <2>1, <2>11, <3>1 DEF Acknowledge, EndRun, Settles, Between, tables, Control
      <3> QED
        BY <2>2, <3>1, <3>2
    <2>12. ~RecoverStalled(j)
      BY <2>0 DEF Settles, RecoverStalled
    <2> QED
      BY <1>6, <2>4, <2>5, <2>6, <2>7, <2>8, <2>9, <2>10, <2>11, <2>12 DEF RunJob
  <1> QED
    BY <1>1, <1>3, <1>4, <1>5, <1>6 DEF Next

\* While no two jobs of one reminder run at the same time and nothing fails, no reminder
\* is mailed twice, whatever the concurrency and however often scans enqueue it: the claim
\* of threat-model.md (T8), which NoDuplicateMail states and runs refute, is broken only by
\* an overlap between check and claim of the key, or by a fault.
THEOREM OnlyOverlapsAndFaultsRepeatMail ==
    Spec /\ [](Apart /\ faults = 0) => []NoDuplicateMail
  <1>1. Init => ApartInv
    <2> SUFFICES ASSUME Init PROVE ApartInv
      OBVIOUS
    <2>1. ASSUME NEW j \in Jobs
          PROVE  jobState[j] = "unused" /\ pc[j] = "idle" /\ mailed[j] = 0
      BY DEF Init
    <2> QED
      BY <2>1 DEF ApartInv, Settles, NoDuplicateMail, Between
  <1>2. TypeInv /\ ApartInv /\ (Apart /\ faults = 0) /\ (Apart /\ faults = 0)' /\ [Next]_vars
        => ApartInv'
    <2> SUFFICES ASSUME TypeInv, ApartInv, Apart, faults' = 0, [Next]_vars PROVE ApartInv'
      OBVIOUS
    <2>1. CASE Next
      BY <2>1, ApartStep
    <2>2. CASE UNCHANGED vars
      BY <2>2 DEF vars, jobVars, tables, ApartInv, Settles, NoDuplicateMail
    <2> QED
      BY <2>1, <2>2
  <1>3. ApartInv => NoDuplicateMail
    BY DEF ApartInv
  <1> QED
    BY <1>1, <1>2, <1>3, TypeInvariant, PTL DEF Spec

-----------------------------------------------------------------------------
(* How many duplicates a reminder can have *)

\* The messages of a job so far, with the one that its run may still send, and without
\* the one for which its run is about to claim the key.
Ahead(j) == IF pc[j] \in {"document", "send"} THEN mailed[j] + 1 ELSE mailed[j]
Behind(j) == IF pc[j] \in {"claim", "commit"} /\ outcome[j] = "SENT" THEN mailed[j] - 1
             ELSE mailed[j]

\* The messages of a key, the n-th of job j as <<j, n>>: those that are out, those that
\* may be if every run that is open sends, and those that no open run answers for.
Messages(key) == {m \in Jobs \X Nat : jobData[m[1]] = key /\ 1 <= m[2] /\ m[2] <= mailed[m[1]]}
Foreseen(key) == {m \in Jobs \X Nat : jobData[m[1]] = key /\ 1 <= m[2] /\ m[2] <= Ahead(m[1])}
Stray(key) == {m \in Jobs \X Nat : jobData[m[1]] = key /\ 1 <= m[2] /\ m[2] <= Behind(m[1])}

AtMost(S, n) == IsFiniteSet(S) /\ Cardinality(S) <= n

LEMMA AtMostSubset ==
    ASSUME NEW S, NEW T \in SUBSET S, NEW n \in Nat, NEW m \in Nat, AtMost(S, n), n <= m
    PROVE  AtMost(T, m)
  <1>1. IsFiniteSet(T) /\ Cardinality(T) <= Cardinality(S)
    BY FS_Subset DEF AtMost
  <1>2. Cardinality(T) \in Nat /\ Cardinality(S) \in Nat
    BY <1>1, FS_CardinalityType DEF AtMost
  <1> QED
    BY <1>1, <1>2 DEF AtMost

LEMMA AtMostUnion ==
    ASSUME NEW S, NEW T, NEW n \in Nat, NEW m \in Nat, AtMost(S, n), AtMost(T, m)
    PROVE  AtMost(S \cup T, n + m)
  <1>1. /\ IsFiniteSet(S \cup T)
        /\ Cardinality(S \cup T) = Cardinality(S) + Cardinality(T) - Cardinality(S \cap T)
    BY FS_Union DEF AtMost
  <1>2. IsFiniteSet(S \cap T)
    BY FS_Intersection DEF AtMost
  <1>3. Cardinality(S) \in Nat /\ Cardinality(T) \in Nat /\ Cardinality(S \cap T) \in Nat
    BY <1>2, FS_CardinalityType DEF AtMost
  <1> QED
    BY <1>1, <1>3 DEF AtMost

LEMMA SlotsTimes ==
    ASSUME NEW n \in Nat
    PROVE  /\ Concurrency * n \in Nat
           /\ Concurrency * (n + 1) = Concurrency * n + Concurrency
           /\ Concurrency * n <= Concurrency * (n + 1)
  BY BoundsAssumption

\* One message for each slot of the worker: a run sends at most one more.
Near ==
    \A key \in Payload, n \in Nat :
        AtMost(Stray(key), n) => AtMost(Foreseen(key), n + Concurrency)

LEMMA ForeseenIsNear ==
    ASSUME TypeInv, AtMost(ActiveJobs, Concurrency)
    PROVE  Near
  <1> SUFFICES ASSUME NEW key \in Payload, NEW n \in Nat, AtMost(Stray(key), n)
               PROVE  AtMost(Foreseen(key), n + Concurrency)
    BY DEF Near
  <1> DEFINE seat == [j \in ActiveJobs |-> <<j, Ahead(j)>>]
  <1> DEFINE seats == {seat[j] : j \in ActiveJobs}
  <1>1. AtMost(seats, Concurrency)
    <2>1. seat \in Surjection(ActiveJobs, seats)
      BY DEF Surjection
    <2>2. IsFiniteSet(seats) /\ Cardinality(seats) <= Cardinality(ActiveJobs)
      BY <2>1, FS_Surjection DEF AtMost
    <2>3. Cardinality(seats) \in Nat /\ Cardinality(ActiveJobs) \in Nat
      BY <2>2, FS_CardinalityType DEF AtMost
    <2> QED
      BY <2>2, <2>3, BoundsAssumption DEF AtMost
  <1>2. Foreseen(key) \subseteq Stray(key) \cup seats
    <2> SUFFICES ASSUME NEW m \in Foreseen(key), m \notin Stray(key) PROVE m \in seats
      OBVIOUS
    <2> DEFINE j == m[1]
    <2>1. /\ j \in Jobs /\ m[2] \in Nat /\ m = <<j, m[2]>>
          /\ m[2] <= Ahead(j) /\ ~(m[2] <= Behind(j))
      BY DEF Foreseen, Stray
    <2>2. mailed[j] \in Nat
      BY <2>1 DEF TypeInv, TypeOK, RunTypeOK
    <2>3. pc[j] # "idle" /\ m[2] = Ahead(j)
      BY <2>1, <2>2 DEF Ahead, Behind
    <2>4. j \in ActiveJobs
      BY <2>1, <2>3 DEF TypeInv, Control, ActiveJobs, Running
    <2> QED
      BY <2>1, <2>3, <2>4
  <1> HIDE DEF seats
  <1>3. AtMost(Stray(key) \cup seats, n + Concurrency)
    BY <1>1, AtMostUnion, BoundsAssumption
  <1> QED
    BY <1>2, <1>3, AtMostSubset, BoundsAssumption

\* What a step does to the counts of one job: a run looks ahead only on a key that is free,
\* and leaves a message behind only with its key claimed, or in a fault.
Counts(j) ==
    /\ jobData[j] \in idempotencyKeys' => Ahead(j)' <= Ahead(j)
    /\ \/ jobData[j] \in idempotencyKeys'
       \/ Behind(j)' <= Behind(j)
       \/ Faulty /\ Behind(j)' <= Ahead(j)

LEMMA StepCounts ==
    ASSUME TypeInv, Next, NEW j \in Jobs
    PROVE  Counts(j)
  <1> USE DEF TypeInv, TypeOK, QueueTypeOK, RunTypeOK
  <1>0. /\ mailed[j] \in Nat /\ Behind(j) <= mailed[j] /\ mailed[j] <= Ahead(j)
        /\ Ahead(j) \in Int /\ Behind(j) \in Int
    BY DEF Ahead, Behind
  <1>1. ASSUME pc'[j] = pc[j], outcome'[j] = outcome[j], mailed'[j] = mailed[j] PROVE Counts(j)
    BY <1>0, <1>1 DEF Counts, Ahead, Behind
  <1>2. ASSUME pc'[j] = "idle", mailed'[j] = mailed[j], Faulty PROVE Counts(j)
    BY <1>0, <1>2 DEF Counts, Ahead, Behind
  <1>3. CASE Environment
    BY <1>1, <1>3 DEF Environment, NewDay, CronTick, Edit, RequestScan, UpdateDocument,
       OverrideStatus, ArchiveDocument, ChangeEmail, ChangePolicy, ChangeTenant, jobVars
  <1>4. CASE RunScan
    BY <1>1, <1>4 DEF RunScan, StartScan, OpenTenant, SelectCandidates, MatchCandidate, AddJob,
       FinishTenant, FinishScan, jobVars
  <1>5. ASSUME NEW k \in Jobs \ {j}, RunJob(k) PROVE Counts(j)
    <2>1. pc'[j] = pc[j] /\ outcome'[j] = outcome[j] /\ mailed'[j] = mailed[j]
      BY <1>5 DEF RunJob, TakeJob, CheckTenant, CheckKey, ReadDocument, SendMail, Deliver,
         ClaimKey, Commit, Acknowledge, RecoverStalled, Goto, EndRun
    <2> QED
      BY <1>1, <2>1
  <1>6. CASE TakeJob(j) \/ CheckTenant(j) \/ Acknowledge(j) \/ RecoverStalled(j)
    BY <1>0, <1>6 DEF TakeJob, CheckTenant, Acknowledge, RecoverStalled, Goto, EndRun, Control,
       Counts, Ahead, Behind
  <1>7. CASE CheckKey(j)
    BY <1>0, <1>7 DEF CheckKey, Goto, Counts, Ahead, Behind, tables
  <1>8. CASE ReadDocument(j)
    BY <1>0, <1>8 DEF ReadDocument, Goto, Counts, Ahead, Behind
  <1>9. CASE SendMail(j)
    BY <1>0, <1>9 DEF SendMail, Deliver, Goto, Counts, Ahead, Behind
  <1>10. CASE ClaimKey(j)
    BY <1>0, <1>10 DEF ClaimKey, EndRun, Goto, Counts, Ahead, Behind, tables
  <1>11. ASSUME pc[j] = "commit", Publish(j), pc'[j] \in {"ack", "idle"}, mailed' = mailed
         PROVE  Counts(j)
    <2>1. outcome[j] = "SENT" => jobData[j] \in idempotencyKeys'
      BY <1>11 DEF Publish, Terminal
    <2> QED
      BY <1>0, <1>11, <2>1 DEF Counts, Ahead, Behind
  <1>12. CASE Commit(j)
    BY <1>11, <1>12 DEF Commit, Goto
  <1>13. ASSUME NEW k \in Jobs, LoseSmtpReply(k) PROVE Counts(j)
    <2>1. Faulty
      BY <1>13 DEF Faulty
    <2>2. k # j => Counts(j)
      BY <1>1, <1>13 DEF LoseSmtpReply, Goto, Deliver
    <2>3. k = j => Counts(j)
      BY <1>0, <1>13, <2>1 DEF LoseSmtpReply, Goto, Deliver, Counts, Ahead, Behind
    <2> QED
      BY <2>2, <2>3
  <1>14. ASSUME NEW k \in Jobs, LoseCommitReply(k) PROVE Counts(j)
    <2>1. k # j => Counts(j)
      BY <1>1, <1>14 DEF LoseCommitReply, EndRun
    <2>2. k = j => Counts(j)
      BY <1>11, <1>14 DEF LoseCommitReply, EndRun
    <2> QED
      BY <2>1, <2>2
  <1>15. ASSUME NEW k \in Jobs, FailStatement(k) PROVE Counts(j)
    <2>1. Faulty /\ mailed' = mailed
      BY <1>15 DEF Faulty, FailStatement, EndRun
    <2>2. pc'[j] = "idle" \/ (pc'[j] = pc[j] /\ outcome'[j] = outcome[j])
      BY <1>15 DEF FailStatement, EndRun
    <2> QED
      BY <1>1, <1>2, <2>1, <2>2
  <1>16. CASE FailScan
    BY <1>1, <1>16 DEF FailScan, jobVars
  <1>17. CASE Crash
    BY <1>2, <1>17 DEF Crash, Faulty
  <1> QED
    BY <1>3, <1>4, <1>5, <1>6, <1>7, <1>8, <1>9, <1>10, <1>12, <1>13, <1>14, <1>15, <1>16, <1>17
       DEF Next, RunJob, Faulty

\* No slot is taken twice, a job without a reminder has mailed nobody, and each message of
\* a key that is still free is foreseen by a run that is open or left behind by a fault.
SlotsInv ==
    /\ AtMost(ActiveJobs, Concurrency)
    /\ \A j \in Jobs : jobState[j] = "unused" => mailed[j] = 0

RepeatInv ==
    \A key \in Payload :
        /\ AtMost(Foreseen(key), Concurrency * (faults + 1))
        /\ key \notin idempotencyKeys => AtMost(Stray(key), Concurrency * faults)

LEMMA OneMoreSlot ==
    ASSUME TypeInv, SlotsInv, NEW j \in Jobs, TakeJob(j)
    PROVE  AtMost(ActiveJobs, Concurrency)'
  <1>1. ActiveJobs' = ActiveJobs \cup {j}
    BY DEF TakeJob, ActiveJobs, Running, TypeInv, TypeOK, QueueTypeOK
  <1>2. /\ IsFiniteSet(ActiveJobs \cup {j})
        /\ Cardinality(ActiveJobs \cup {j}) \in {Cardinality(ActiveJobs), Cardinality(ActiveJobs) + 1}
    BY FS_AddElement DEF SlotsInv, AtMost
  <1>3. Cardinality(ActiveJobs) \in Nat /\ Cardinality(ActiveJobs) < Concurrency
    BY FS_CardinalityType DEF SlotsInv, AtMost, TakeJob
  <1> QED
    BY <1>1, <1>2, <1>3, BoundsAssumption DEF AtMost

LEMMA NextSlotsInv ==
    ASSUME TypeInv, SlotsInv, Next
    PROVE  SlotsInv'
  <1> USE DEF TypeInv, TypeOK, QueueTypeOK, RunTypeOK
  <1>1. ASSUME ActiveJobs' \subseteq ActiveJobs PROVE AtMost(ActiveJobs, Concurrency)'
    <2>1. AtMost(ActiveJobs', Concurrency)
      BY <1>1, AtMostSubset, BoundsAssumption DEF SlotsInv
    <2> QED
      BY <2>1 DEF AtMost
  <1>2. ASSUME UNCHANGED <<jobState, mailed>> PROVE SlotsInv'
    BY <1>1, <1>2 DEF SlotsInv, ActiveJobs, Running
  <1>3. CASE Environment \/ FailScan
    BY <1>2, <1>3 DEF Environment, NewDay, CronTick, Edit, RequestScan, UpdateDocument,
       OverrideStatus, ArchiveDocument, ChangeEmail, ChangePolicy, ChangeTenant, FailScan, jobVars
  <1>4. CASE RunScan
    <2>1. ASSUME NEW j \in Jobs, AddJob(j) PROVE SlotsInv'
      BY <1>1, <2>1 DEF AddJob, SlotsInv, ActiveJobs, Running
    <2> QED
      BY <1>2, <1>4, <2>1 DEF RunScan, StartScan, OpenTenant, SelectCandidates, MatchCandidate,
         FinishTenant, FinishScan, jobVars
  <1>5. ASSUME NEW j \in Jobs, TakeJob(j) PROVE SlotsInv'
    BY <1>5, OneMoreSlot DEF TakeJob, SlotsInv
  <1>6. ASSUME NEW j \in Jobs, UNCHANGED jobState, pc[j] = "send", Deliver(j) \/ UNCHANGED mailed
        PROVE  SlotsInv'
    BY <1>1, <1>6 DEF Deliver, Control, SlotsInv, ActiveJobs, Running
  <1>7. ASSUME NEW j \in Jobs, jobState' = [jobState EXCEPT ![j] = jobState'[j]],
               jobState'[j] \notin {"unused", "active"}, UNCHANGED mailed
        PROVE  SlotsInv'
    BY <1>1, <1>7 DEF SlotsInv, ActiveJobs, Running
  <1>8. ASSUME NEW j \in Jobs, RunJob(j), ~TakeJob(j) PROVE SlotsInv'
    <2>1. CASE SendMail(j)
      BY <1>6, <2>1 DEF SendMail, Goto
    <2>2. CASE CheckTenant(j) \/ ClaimKey(j) \/ Acknowledge(j) \/ RecoverStalled(j)
      BY <1>2, <1>7, <2>2 DEF CheckTenant, ClaimKey, Acknowledge, RecoverStalled, Goto, EndRun
    <2>3. CASE CheckKey(j) \/ ReadDocument(j) \/ Commit(j)
      BY <1>2, <2>3 DEF CheckKey, ReadDocument, Commit, Goto
    <2> QED
      BY <1>8, <2>1, <2>2, <2>3 DEF RunJob
  <1>9. ASSUME NEW j \in Jobs, LoseSmtpReply(j) \/ FailStatement(j) \/ LoseCommitReply(j)
        PROVE  SlotsInv'
    BY <1>6, <1>7, <1>9 DEF LoseSmtpReply, FailStatement, LoseCommitReply, Goto, EndRun
  <1>10. CASE Crash
    BY <1>1, <1>10 DEF Crash, SlotsInv, ActiveJobs, Running
  <1> QED
    BY <1>3, <1>4, <1>5, <1>8, <1>9, <1>10 DEF Next, Faulty

LEMMA UnusedStaysQuiet ==
    ASSUME TypeInv, SlotsInv, Next, NEW j \in Jobs, jobState[j] = "unused"
    PROVE  Ahead(j)' = 0 /\ Behind(j)' = 0
  <1>1. pc[j] = "idle" /\ mailed[j] = 0
    BY DEF TypeInv, Control, SlotsInv
  <1>2. LeftAlone(j) \/ RunJob(j)
    BY <1>1, StepOfJob DEF LoseSmtpReply, LoseCommitReply
  <1>3. ~RunJob(j)
    BY <1>1 DEF RunJob, TakeJob, CheckTenant, CheckKey, ReadDocument, SendMail, ClaimKey,
       Commit, Acknowledge, RecoverStalled
  <1> QED
    BY <1>1, <1>2, <1>3 DEF LeftAlone, Ahead, Behind

LEMMA CountsType ==
    ASSUME TypeInv, NEW j \in Jobs
    PROVE  /\ mailed[j] \in Nat /\ Ahead(j) \in Int /\ Behind(j) \in Int
           /\ Behind(j) <= mailed[j] /\ mailed[j] <= Ahead(j)
  BY DEF TypeInv, TypeOK, RunTypeOK, Ahead, Behind

\* The same for the messages of a key.
LEMMA StepMessages ==
    ASSUME TypeInv, SlotsInv, Next, NEW key \in Payload
    PROVE  /\ key \in idempotencyKeys' => Foreseen(key)' \subseteq Foreseen(key)
           /\ \/ key \in idempotencyKeys'
              \/ Stray(key)' \subseteq Stray(key)
              \/ Faulty /\ Stray(key)' \subseteq Foreseen(key)
  <1>1. ASSUME NEW j \in Jobs, Ahead(j)' # 0 \/ Behind(j)' # 0
        PROVE  jobData'[j] = jobData[j]
    BY <1>1, UnusedStaysQuiet, StepKeeps DEF Keeps
  <1>2. ASSUME NEW j \in Jobs
        PROVE  /\ Ahead(j) \in Int /\ Behind(j) \in Int /\ Behind(j) <= Ahead(j)
               /\ Ahead(j)' \in Int /\ Behind(j)' \in Int
    <2>1. TypeInv'
      BY NextTypeInv
    <2>2. mailed'[j] \in Nat
      BY <2>1 DEF TypeInv, TypeOK, RunTypeOK
    <2>3. Ahead(j)' \in Int /\ Behind(j)' \in Int
      BY <2>2 DEF Ahead, Behind
    <2> QED
      BY <2>3, CountsType
  <1>3. ASSUME key \in idempotencyKeys', NEW m \in Foreseen(key)' PROVE m \in Foreseen(key)
    <2>1. /\ m[1] \in Jobs /\ m[2] \in Nat /\ m \in Jobs \X Nat
          /\ jobData'[m[1]] = key /\ 1 <= m[2] /\ m[2] <= Ahead(m[1])'
      BY <1>3 DEF Foreseen
    <2>2. jobData[m[1]] = key
      BY <1>1, <1>2, <2>1
    <2>3. Ahead(m[1])' <= Ahead(m[1])
      BY <1>3, <2>1, <2>2, StepCounts DEF Counts
    <2> QED
      BY <1>2, <2>1, <2>2, <2>3 DEF Foreseen
  <1>4. ASSUME key \notin idempotencyKeys', NEW m \in Stray(key)'
        PROVE  m \in Stray(key) \/ (Faulty /\ m \in Foreseen(key))
    <2>1. /\ m[1] \in Jobs /\ m[2] \in Nat /\ m \in Jobs \X Nat
          /\ jobData'[m[1]] = key /\ 1 <= m[2] /\ m[2] <= Behind(m[1])'
      BY <1>4 DEF Stray
    <2>2. jobData[m[1]] = key
      BY <1>1, <1>2, <2>1
    <2>3. Behind(m[1])' <= Behind(m[1]) \/ (Faulty /\ Behind(m[1])' <= Ahead(m[1]))
      BY <1>4, <2>1, <2>2, StepCounts DEF Counts
    <2> QED
      BY <1>2, <2>1, <2>2, <2>3 DEF Foreseen, Stray
  <1>5. Stray(key) \subseteq Foreseen(key)
    BY <1>2 DEF Stray, Foreseen
  <1> QED
    BY <1>3, <1>4, <1>5

LEMMA FaultsStep ==
    ASSUME TypeInv, Next
    PROVE  faults \in Nat /\ faults' \in {faults, faults + 1} /\ (Faulty => faults' = faults + 1)
  <1>1. faults \in Nat
    BY BoundsAssumption DEF TypeInv, TypeOK, CounterTypeOK
  <1>2. CASE Faulty
    BY <1>1, <1>2, FaultsCount
  <1>3. CASE ~Faulty
    <2>1. faults' = faults
      BY <1>3 DEF Next, RunJob, JobStep, TakeJob, CheckTenant, CheckKey, ReadDocument, SendMail,
         ClaimKey, Commit, Acknowledge, RecoverStalled, RunScan, ScanStep, StartScan, OpenTenant,
         SelectCandidates, MatchCandidate, AddJob, FinishTenant, FinishScan, Environment, NewDay,
         CronTick, Edit, RequestScan, UpdateDocument, OverrideStatus, ArchiveDocument, ChangeEmail,
         ChangePolicy, ChangeTenant
    <2> QED
      BY <1>1, <1>3, <2>1
  <1> QED
    BY <1>2, <1>3

LEMMA NextRepeatInv ==
    ASSUME TypeInv, SlotsInv, RepeatInv, Next, Near'
    PROVE  RepeatInv'
  <1> SUFFICES ASSUME NEW key \in Payload
               PROVE  /\ AtMost(Foreseen(key), Concurrency * (faults + 1))'
                      /\ key \notin idempotencyKeys' => AtMost(Stray(key), Concurrency * faults)'
    BY DEF RepeatInv
  <1>1. faults \in Nat /\ faults' \in {faults, faults + 1} /\ (Faulty => faults' = faults + 1)
    BY FaultsStep
  <1>2. /\ Concurrency * faults \in Nat /\ Concurrency * (faults + 1) \in Nat
        /\ Concurrency * faults' \in Nat /\ Concurrency * (faults' + 1) \in Nat
        /\ Concurrency * (faults' + 1) = Concurrency * faults' + Concurrency
        /\ Concurrency * faults <= Concurrency * faults'
        /\ Concurrency * (faults + 1) <= Concurrency * (faults' + 1)
    <2>1. CASE faults' = faults
      BY <1>1, <2>1, SlotsTimes
    <2>2. CASE faults' = faults + 1
      <3>1. faults + 1 \in Nat
        BY <1>1
      <3> QED
        BY <1>1, <2>2, <3>1, SlotsTimes
    <2> QED
      BY <1>1, <2>1, <2>2
  <1>3. AtMost(Foreseen(key), Concurrency * (faults + 1))
    BY DEF RepeatInv
  <1>4. ASSUME key \notin idempotencyKeys' PROVE AtMost(Stray(key)', Concurrency * faults')
    <2>1. AtMost(Stray(key), Concurrency * faults)
      <3>1. key \notin idempotencyKeys
        BY <1>4, StepGrows DEF Grows
      <3> QED
        BY <3>1 DEF RepeatInv
    <2>2. CASE Stray(key)' \subseteq Stray(key)
      BY <1>2, <2>1, <2>2, AtMostSubset
    <2>3. CASE Faulty /\ Stray(key)' \subseteq Foreseen(key)
      BY <1>1, <1>2, <1>3, <2>3, AtMostSubset
    <2> QED
      BY <1>4, <2>2, <2>3, StepMessages
  <1>5. AtMost(Foreseen(key)', Concurrency * (faults' + 1))
    <2>1. CASE key \in idempotencyKeys'
      BY <1>2, <1>3, <2>1, StepMessages, AtMostSubset
    <2>2. CASE key \notin idempotencyKeys'
      <3>1. AtMost(Stray(key)', Concurrency * faults')
        BY <1>4, <2>2
      <3>2. AtMost(Foreseen(key)', Concurrency * faults' + Concurrency)
        BY <1>2, <3>1 DEF Near, AtMost
      <3> QED
        BY <1>2, <3>2
    <2> QED
      BY <2>1, <2>2
  <1> QED
    BY <1>4, <1>5 DEF AtMost

LEMMA SlotsInvariant == Spec => []SlotsInv
  <1>1. Init => SlotsInv
    <2> SUFFICES ASSUME Init PROVE SlotsInv
      OBVIOUS
    <2>1. ActiveJobs = {}
      BY DEF Init, ActiveJobs, Running
    <2>2. IsFiniteSet({}) /\ Cardinality({}) = 0
      BY FS_EmptySet
    <2>3. AtMost(ActiveJobs, Concurrency)
      BY <2>1, <2>2, BoundsAssumption DEF AtMost
    <2> QED
      BY <2>3 DEF Init, SlotsInv
  <1>2. TypeInv /\ SlotsInv /\ [Next]_vars => SlotsInv'
    <2>1. ASSUME SlotsInv, UNCHANGED vars PROVE SlotsInv'
      BY <2>1 DEF vars, jobVars, SlotsInv, AtMost, ActiveJobs, Running
    <2> QED
      BY <2>1, NextSlotsInv
  <1> QED
    BY <1>1, <1>2, TypeInvariant, PTL DEF Spec

\* A message for each slot, and as many again for each fault.
MailsOfEachKey ==
    \A key \in Payload : AtMost(Messages(key), Concurrency * (faults + 1))

\* However many jobs carry a key, however they overlap and whatever fails, its employee gets
\* at most Concurrency messages, and Concurrency more for each fault: the claim of
\* threat-model.md (T8), which runs refute, fails by so much at most.
THEOREM DuplicatesAreBounded == Spec => []MailsOfEachKey
  <1>1. Init => RepeatInv
    <2> SUFFICES ASSUME Init, NEW key \in Payload
                 PROVE  /\ AtMost(Foreseen(key), Concurrency * (faults + 1))
                        /\ AtMost(Stray(key), Concurrency * faults)
      BY DEF RepeatInv
    <2>1. Foreseen(key) = {} /\ Stray(key) = {}
      <3>1. \A j \in Jobs : Ahead(j) = 0 /\ Behind(j) = 0
        BY DEF Init, Ahead, Behind
      <3> QED
        BY <3>1 DEF Foreseen, Stray
    <2>2. Concurrency * faults \in Nat /\ Concurrency * (faults + 1) \in Nat
      BY SlotsTimes DEF Init
    <2>3. IsFiniteSet({}) /\ Cardinality({}) = 0
      BY FS_EmptySet
    <2> QED
      BY <2>1, <2>2, <2>3 DEF AtMost
  <1>2. TypeInv /\ SlotsInv => Near
    BY ForeseenIsNear DEF SlotsInv
  <1>3. TypeInv /\ SlotsInv /\ RepeatInv /\ Near' /\ [Next]_vars => RepeatInv'
    <2>1. ASSUME RepeatInv, UNCHANGED vars PROVE RepeatInv'
      <3>1. ASSUME NEW j \in Jobs PROVE Ahead(j)' = Ahead(j) /\ Behind(j)' = Behind(j)
        BY <2>1 DEF vars, jobVars, Ahead, Behind
      <3>2. ASSUME NEW key PROVE Foreseen(key)' = Foreseen(key) /\ Stray(key)' = Stray(key)
        BY <2>1, <3>1 DEF vars, jobVars, Foreseen, Stray
      <3> QED
        BY <2>1, <3>2 DEF vars, tables, RepeatInv, AtMost
    <2> QED
      BY <2>1, NextRepeatInv
  <1>4. TypeInv /\ RepeatInv => MailsOfEachKey
    <2> SUFFICES ASSUME TypeInv, RepeatInv, NEW key \in Payload
                 PROVE  AtMost(Messages(key), Concurrency * (faults + 1))
      BY DEF MailsOfEachKey
    <2>1. Messages(key) \subseteq Foreseen(key)
      BY CountsType DEF Messages, Foreseen
    <2>2. faults + 1 \in Nat
      BY BoundsAssumption DEF TypeInv, TypeOK, CounterTypeOK
    <2> QED
      BY <2>1, <2>2, SlotsTimes, AtMostSubset DEF RepeatInv
  <1> QED
    BY <1>1, <1>2, <1>3, <1>4, TypeInvariant, SlotsInvariant, PTL DEF Spec

\* A worker that runs one job at a time mails no reminder twice while nothing fails: the
\* claim of threat-model.md (T8) would hold with concurrency 1 and no faults, even when
\* scans enqueue the reminder again and again.
THEOREM OneAtATimeMailsOnce ==
    ASSUME Concurrency = 1
    PROVE  Spec /\ [](faults = 0) => []NoDuplicateMail
  <1>1. TypeInv /\ SlotsInv /\ MailsOfEachKey /\ faults = 0 => NoDuplicateMail
    <2> SUFFICES ASSUME TypeInv, SlotsInv, MailsOfEachKey, faults = 0 PROVE NoDuplicateMail
      OBVIOUS
    <2>1. ASSUME NEW key \in Payload, NEW m \in Messages(key), NEW n \in Messages(key)
          PROVE  m = n
      <3>1. IsFiniteSet(Messages(key)) /\ Cardinality(Messages(key)) <= 1
        BY DEF MailsOfEachKey, AtMost
      <3>2. Cardinality(Messages(key)) = 0 \/ Cardinality(Messages(key)) = 1
        BY <3>1, FS_CardinalityType
      <3>3. Messages(key) = {} \/ \E x : Messages(key) = {x}
        BY <3>1, <3>2, FS_EmptySet, FS_Singleton
      <3> QED
        BY <3>3
    <2>2. ASSUME NEW j \in Jobs, NEW n \in Nat, 1 <= n, n <= mailed[j]
          PROVE  jobData[j] \in Payload /\ <<j, n>> \in Messages(jobData[j])
      BY <2>2 DEF TypeInv, Control, SlotsInv, Messages
    <2>3. ASSUME NEW j \in Jobs PROVE mailed[j] <= 1
      <3>1. mailed[j] \in Nat
        BY DEF TypeInv, TypeOK, RunTypeOK
      <3> SUFFICES ASSUME ~(mailed[j] <= 1) PROVE FALSE
        OBVIOUS
      <3>2. /\ jobData[j] \in Payload
            /\ <<j, 1>> \in Messages(jobData[j]) /\ <<j, 2>> \in Messages(jobData[j])
        BY <2>2, <3>1
      <3>3. <<j, 1>> = <<j, 2>>
        BY <2>1, <3>2
      <3> QED
        BY <3>3
    <2>4. ASSUME NEW j \in Jobs, NEW k \in Jobs, j # k, jobData[j] = jobData[k],
                 mailed[j] # 0, mailed[k] # 0
          PROVE  FALSE
      <3>1. mailed[j] \in Nat /\ mailed[k] \in Nat
        BY DEF TypeInv, TypeOK, RunTypeOK
      <3>2. /\ jobData[j] \in Payload
            /\ <<j, 1>> \in Messages(jobData[j]) /\ <<k, 1>> \in Messages(jobData[j])
        BY <2>2, <2>4, <3>1
      <3>3. <<j, 1>> = <<k, 1>>
        BY <2>1, <3>2
      <3> QED
        BY <2>4, <3>3
    <2> QED
      BY <2>3, <2>4 DEF NoDuplicateMail
  <1> QED
    BY <1>1, DuplicatesAreBounded, TypeInvariant, SlotsInvariant, PTL

-----------------------------------------------------------------------------
(* Reminders that are settled for good *)

PastTheKeyTest(j) == pc[j] \in {"document", "send", "claim", "commit"}

\* The key is claimed and the runs that had found it free are over.
Settled(key) ==
    key \in idempotencyKeys /\ \A j \in Jobs : jobData[j] = key => ~PastTheKeyTest(j)

RowsOfKey(key) == {row \in notificationLog : KeyOfRow(row) = key}

\* Nobody is mailed for a key and nothing logged of it.
QuietAbout(key) ==
    /\ Settled(key)'
    /\ \A j \in Jobs : jobData'[j] = key => mailed'[j] = mailed[j]
    /\ RowsOfKey(key)' = RowsOfKey(key)

LEMMA SettledRuns ==
    ASSUME TypeInv, Next, NEW key, Settled(key), NEW j \in Jobs, jobData'[j] = key
    PROVE  ~PastTheKeyTest(j)' /\ mailed'[j] = mailed[j]
  <1> USE DEF TypeInv, TypeOK, QueueTypeOK, RunTypeOK
  <1>1. CASE LeftAlone(j)
    <2>1. PastTheKeyTest(j)' => PastTheKeyTest(j)
      BY <1>1 DEF LeftAlone, PastTheKeyTest
    <2>2. PastTheKeyTest(j) => jobData'[j] = jobData[j]
      BY StepKeeps DEF Keeps, Control, PastTheKeyTest
    <2> QED
      BY <1>1, <2>1, <2>2 DEF LeftAlone, Settled
  <1>2. CASE RunJob(j) \/ LoseSmtpReply(j) \/ LoseCommitReply(j)
    <2>1. jobData[j] = key
      BY <1>2 DEF RunJob, LoseSmtpReply, LoseCommitReply, JobStep, Fault, TakeJob, CheckTenant,
             CheckKey, ReadDocument, SendMail, ClaimKey, Commit, Acknowledge, RecoverStalled
    <2>2. ~PastTheKeyTest(j) /\ jobData[j] \in idempotencyKeys
      BY <2>1 DEF Settled
    <2>3. TakeJob(j) \/ CheckTenant(j) \/ CheckKey(j) \/ Acknowledge(j) \/ RecoverStalled(j)
      BY <1>2, <2>2 DEF RunJob, ReadDocument, SendMail, ClaimKey, Commit, LoseSmtpReply,
             LoseCommitReply, PastTheKeyTest
    <2> QED
      BY <2>2, <2>3 DEF TakeJob, CheckTenant, CheckKey, Acknowledge, RecoverStalled, Goto, EndRun,
             PastTheKeyTest
  <1> QED
    BY <1>1, <1>2, StepOfJob

LEMMA SettledRows ==
    ASSUME TypeInv, SettleInv, Next, NEW key, Settled(key)
    PROVE  RowsOfKey(key)' = RowsOfKey(key)
  <1>1. \A row \in notificationLog : KeyOfRow(row)' = KeyOfRow(row)
    BY RowsKeepKeys
  <1>2. CASE UNCHANGED tables
    BY <1>1, <1>2 DEF RowsOfKey, tables
  <1>3. ASSUME NEW j \in Jobs, pc[j] = "commit", Publish(j), UNCHANGED jobData
        PROVE  RowsOfKey(key)' = RowsOfKey(key)
    <2>1. jobData[j] # key
      BY <1>3 DEF Settled, PastTheKeyTest
    <2>2. PICK row : row = RowOf(j)
      OBVIOUS
    <2>3. KeyOfRow(row)' # key /\ notificationLog' = notificationLog \cup {row}
      BY <1>3, <2>1, <2>2 DEF KeyOfRow, RowOf, Publish
    <2> QED
      BY <1>1, <2>3 DEF RowsOfKey
  <1> QED
    BY <1>2, <1>3, StepTables

\* A reminder that is settled stays silent: once its key is claimed and the runs that had found
\* it free are over, no message is delivered and no row logged for it ever again, however often
\* scans enqueue it.  The key is the document and the number of days, so the reminder of a
\* document that is renewed falls silent with that of its old date.
THEOREM SettledForGood == Spec => [][\A key \in Payload : Settled(key) => QuietAbout(key)]_vars
  <1>1. TypeInv /\ SettleInv /\ [Next]_vars
        => [\A key \in Payload : Settled(key) => QuietAbout(key)]_vars
    <2> SUFFICES ASSUME TypeInv, SettleInv, Next, NEW key \in Payload, Settled(key)
                 PROVE  QuietAbout(key)
      OBVIOUS
    <2>1. key \in idempotencyKeys'
      BY StepGrows DEF Grows, Settled
    <2> QED
      BY <2>1, SettledRuns, SettledRows DEF QuietAbout, Settled
  <1> QED
    BY <1>1, TypeInvariant, SettleInvariant, PTL DEF Spec

-----------------------------------------------------------------------------
(* The scanner: it ends, whatever is edited meanwhile.                     *)

\* The steps a tenant takes at most: to open it, to read it, two for each of its documents,
\* and to finish it.
Turn == 2 * Cardinality(Docs) + 3

\* The steps that are left of the scan of the tenant that is open.
OfTenant ==
    CASE scan.step = "tenants" -> 1
      [] scan.step = "query" -> 2 * Cardinality(Docs) + 3
      [] scan.step = "match" -> 2 * Cardinality(scan.candidates) + 2
      [] scan.step = "add" -> 2 * Cardinality(scan.candidates) + 3
      [] OTHER -> 0

\* The steps that are left of a scan.
ScanLeft == Turn * Cardinality(scan.left) + OfTenant

\* A scan has at most a turn for each tenant to make, and its last step.
ScanIsShort == ScanLeft \in 0..(Turn * Cardinality(Tenants) + 1)

\* Every step of the scanner leaves it fewer, and so does what interrupts it.
ScanRuns == scan.step # "idle" => ScanLeft' < ScanLeft \/ (scan' = scan /\ ~RunScan)

LEMMA Times ==
    ASSUME NEW k \in Nat, NEW n \in Nat
    PROVE  /\ k * n \in Nat
           /\ k * (n + 1) = k * n + k
           /\ \A m \in Nat : m <= n => k * m <= k * n
  <1>1. k * n \in Nat /\ k * (n + 1) = k * n + k
    OBVIOUS
  <1>2. ASSUME NEW m \in Nat, m <= n PROVE k * m <= k * n
    <2>1. n - m \in Nat /\ k * (n - m) \in Nat
      BY <1>2
    <2>2. k * n = k * m + k * (n - m)
      OBVIOUS
    <2> QED
      BY <1>1, <2>1, <2>2
  <1> QED
    BY <1>1, <1>2

LEMMA DocsOfCandidates ==
    ASSUME TypeInv, IsFiniteSet(Docs), SelectCandidates
    PROVE  IsFiniteSet(scan'.candidates) /\ Cardinality(scan'.candidates) <= Cardinality(Docs)
  <1> DEFINE selected == {d \in Docs : /\ TenantOf[d] = scan.tenant
                                       /\ ~documents[d].deleted
                                       /\ documents[d].expiryDate # NoDate
                                       /\ documents[d].expiryStatus = "EXPIRING_SOON"}
             Read(d) == [documentId |-> d, expiryDate |-> documents[d].expiryDate]
             found == {Read(d) : d \in selected}
             f == [d \in selected |-> Read(d)]
  <1>1. scan'.candidates = found
    BY DEF SelectCandidates, TypeInv, TypeOK, ScanState
  <1>2. f \in Surjection(selected, found)
    BY DEF Surjection
  <1> HIDE DEF f, found
  <1>3. IsFiniteSet(selected) /\ Cardinality(selected) <= Cardinality(Docs)
    BY FS_Subset
  <1> HIDE DEF selected
  <1>4. IsFiniteSet(found) /\ Cardinality(found) <= Cardinality(selected)
    BY <1>2, <1>3, FS_Surjection
  <1>5. /\ Cardinality(found) \in Nat /\ Cardinality(selected) \in Nat
        /\ Cardinality(Docs) \in Nat
    BY <1>3, <1>4, FS_CardinalityType
  <1> QED
    BY <1>1, <1>3, <1>4, <1>5

LEMMA ScanGoesDown ==
    ASSUME TypeInv, IsFiniteSet(Docs), IsFiniteSet(Tenants), IsFiniteSet(scan.candidates),
           RunScan, scan.step # "idle"
    PROVE  IsFiniteSet(scan'.candidates) /\ ScanLeft' < ScanLeft
  <1> DEFINE L == Cardinality(scan.left)
             C == Cardinality(scan.candidates)
             D == Cardinality(Docs)
             L2 == Cardinality(scan'.left)
             C2 == Cardinality(scan'.candidates)
  <1>0. scan \in ScanState
    BY DEF TypeInv, TypeOK
  <1>1. IsFiniteSet(scan.left) /\ L \in Nat /\ C \in Nat /\ D \in Nat
    BY <1>0, FS_Subset, FS_CardinalityType DEF ScanState
  <1>2. /\ ScanLeft = (2 * D + 3) * L + OfTenant
        /\ ScanLeft' = (2 * D + 3) * L2 + OfTenant'
    BY DEF ScanLeft, Turn
  <1>3. CASE \E t \in scan.left : OpenTenant(t)
    <2>1. PICK t \in scan.left : OpenTenant(t)
      BY <1>3
    <2>2. /\ scan'.left = scan.left \ {t} /\ scan'.candidates = scan.candidates
          /\ scan.step = "tenants" /\ scan'.step \in {"query", "tenants"}
      BY <1>0, <2>1 DEF OpenTenant, ScanState
    <2>3. L2 = L - 1 /\ L2 \in Nat
      BY <1>1, <2>2, FS_RemoveElement, FS_CardinalityType
    <2>4. OfTenant = 1 /\ OfTenant' \in {1, 2 * D + 3}
      BY <2>2 DEF OfTenant
    <2> HIDE DEF L, L2, D
    <2>5. (2 * D + 3) * L = (2 * D + 3) * L2 + (2 * D + 3) /\ (2 * D + 3) * L2 \in Nat
      <3>1. 2 * D + 3 \in Nat /\ L = L2 + 1
        BY <1>1, <2>3
      <3> QED
        BY <2>3, <3>1, Times
    <2>6. ScanLeft' < ScanLeft
      BY <1>1, <1>2, <2>4, <2>5
    <2> QED
      BY <2>2, <2>6
  <1>4. ASSUME L2 = L, OfTenant \in Nat, OfTenant' \in Nat, OfTenant' < OfTenant
        PROVE  ScanLeft' < ScanLeft
    <2> HIDE DEF L, L2, D
    <2>1. (2 * D + 3) * L \in Nat
      <3>1. 2 * D + 3 \in Nat
        BY <1>1
      <3> QED
        BY <1>1, <3>1, Times
    <2> QED
      BY <1>2, <1>4, <2>1
  <1>5. CASE SelectCandidates
    <2>1. scan'.left = scan.left /\ scan.step = "query" /\ scan'.step = "match"
      BY <1>0, <1>5 DEF SelectCandidates, ScanState
    <2>2. IsFiniteSet(scan'.candidates) /\ C2 <= D /\ C2 \in Nat
      BY <1>5, DocsOfCandidates, FS_CardinalityType
    <2>3. OfTenant = 2 * D + 3 /\ OfTenant' = 2 * C2 + 2
      BY <2>1 DEF OfTenant
    <2> HIDE DEF C2, D
    <2>4. OfTenant \in Nat /\ OfTenant' \in Nat /\ OfTenant' < OfTenant
      BY <1>1, <2>2, <2>3
    <2> QED
      BY <1>4, <2>1, <2>2, <2>4
  <1>6. CASE \E c \in scan.candidates : MatchCandidate(c)
    <2>1. PICK c \in scan.candidates : MatchCandidate(c)
      BY <1>6
    <2>2. /\ scan'.left = scan.left /\ scan'.candidates = scan.candidates \ {c}
          /\ scan.step = "match" /\ scan'.step \in {"match", "add"}
      BY <1>0, <2>1 DEF MatchCandidate, ScanState
    <2>3. IsFiniteSet(scan'.candidates) /\ C2 = C - 1 /\ C2 \in Nat
      BY <2>2, FS_RemoveElement, FS_CardinalityType
    <2>4. OfTenant = 2 * C + 2 /\ OfTenant' \in {2 * C2 + 2, 2 * C2 + 3}
      BY <2>2 DEF OfTenant
    <2> HIDE DEF C2, C
    <2>5. OfTenant \in Nat /\ OfTenant' \in Nat /\ OfTenant' < OfTenant
      BY <1>1, <2>3, <2>4
    <2> QED
      BY <1>4, <2>2, <2>3, <2>5
  <1>7. CASE \E j \in Jobs : AddJob(j)
    <2>1. /\ scan'.left = scan.left /\ scan'.candidates = scan.candidates
          /\ scan.step = "add" /\ scan'.step = "match"
      BY <1>0, <1>7 DEF AddJob, ScanState
    <2>2. OfTenant = 2 * C + 3 /\ OfTenant' = 2 * C + 2
      BY <2>1 DEF OfTenant
    <2> HIDE DEF C
    <2>3. OfTenant \in Nat /\ OfTenant' \in Nat /\ OfTenant' < OfTenant
      BY <1>1, <2>2
    <2> QED
      BY <1>4, <2>1, <2>3
  <1>8. CASE FinishTenant
    <2>1. /\ scan'.left = scan.left /\ scan'.candidates = scan.candidates
          /\ scan.step = "match" /\ scan'.step = "tenants"
      BY <1>0, <1>8 DEF FinishTenant, ScanState
    <2>2. OfTenant = 2 * C + 2 /\ OfTenant' = 1
      BY <2>1 DEF OfTenant
    <2> HIDE DEF C
    <2>3. OfTenant \in Nat /\ OfTenant' \in Nat /\ OfTenant' < OfTenant
      BY <1>1, <2>2
    <2> QED
      BY <1>4, <2>1, <2>3
  <1>9. CASE FinishScan
    <2>1. /\ scan'.left = scan.left /\ scan'.candidates = {}
          /\ scan.step = "tenants" /\ scan'.step = "idle"
      BY <1>9 DEF FinishScan, Idle
    <2>2. OfTenant = 1 /\ OfTenant' = 0
      BY <2>1 DEF OfTenant
    <2> QED
      BY <1>4, <2>1, <2>2, FS_EmptySet
  <1> QED
    BY <1>3, <1>5, <1>6, <1>7, <1>8, <1>9 DEF RunScan, StartScan

LEMMA IdleIsNothingLeft ==
    ASSUME IsFiniteSet(Docs), scan = Idle
    PROVE  ScanLeft = 0 /\ IsFiniteSet(scan.candidates)
  <1>1. Cardinality(scan.left) = 0 /\ OfTenant = 0 /\ scan.candidates = {}
    BY FS_EmptySet DEF Idle, OfTenant
  <1>2. 2 * Cardinality(Docs) + 3 \in Nat
    BY FS_CardinalityType
  <1>3. Turn \in Nat /\ Turn * 0 = 0
    BY <1>2 DEF Turn
  <1> QED
    BY <1>1, <1>3, FS_EmptySet DEF ScanLeft

LEMMA StartedScan ==
    ASSUME TypeInv, IsFiniteSet(Docs), IsFiniteSet(Tenants), NEW source, StartScan(source)
    PROVE  ScanIsShort' /\ IsFiniteSet(scan'.candidates)
  <1>1. /\ scan'.left = activeTenants /\ scan'.candidates = {} /\ scan'.step = "tenants"
        /\ activeTenants \in SUBSET Tenants
    BY DEF StartScan, Idle, TypeInv, TypeOK, ApiTypeOK
  <1>2. /\ Cardinality(scan'.left) \in Nat /\ Cardinality(Tenants) \in Nat
        /\ Cardinality(scan'.left) <= Cardinality(Tenants)
    BY <1>1, FS_Subset, FS_CardinalityType
  <1>3. 2 * Cardinality(Docs) + 3 \in Nat
    BY FS_CardinalityType
  <1>4. Turn' = Turn /\ Turn \in Nat /\ OfTenant' = 1
    BY <1>1, <1>3 DEF Turn, OfTenant
  <1>5. /\ Turn * Cardinality(scan'.left) <= Turn * Cardinality(Tenants)
        /\ Turn * Cardinality(scan'.left) \in Nat /\ Turn * Cardinality(Tenants) \in Nat
    BY <1>2, <1>4, Times
  <1>6. ScanLeft' = Turn * Cardinality(scan'.left) + 1
    BY <1>4 DEF ScanLeft
  <1>7. ScanLeft' \in 0..(Turn * Cardinality(Tenants) + 1)
    BY <1>5, <1>6
  <1> QED
    BY <1>1, <1>4, <1>7, FS_EmptySet DEF ScanIsShort

LEMMA ScanLeftType ==
    ASSUME TypeInv, IsFiniteSet(Docs), IsFiniteSet(Tenants), IsFiniteSet(scan.candidates)
    PROVE  ScanLeft \in Nat /\ Turn * Cardinality(Tenants) \in Nat
  <1>1. scan.left \in SUBSET Tenants
    BY DEF TypeInv, TypeOK, ScanState
  <1>2. /\ Cardinality(scan.left) \in Nat /\ Cardinality(Tenants) \in Nat
        /\ Cardinality(Docs) \in Nat /\ Cardinality(scan.candidates) \in Nat
    BY <1>1, FS_Subset, FS_CardinalityType
  <1>3. OfTenant \in Nat /\ Turn \in Nat
    BY <1>2 DEF OfTenant, Turn
  <1> QED
    BY <1>2, <1>3, Times DEF ScanLeft

LEMMA IdleIsOver ==
    ASSUME IsFiniteSet(Docs), scan' = Idle
    PROVE  ScanLeft' = 0 /\ IsFiniteSet(scan'.candidates)
  <1>1. Cardinality(scan'.left) = 0 /\ OfTenant' = 0 /\ scan'.candidates = {}
    BY FS_EmptySet DEF Idle, OfTenant
  <1>2. 2 * Cardinality(Docs) + 3 \in Nat
    BY FS_CardinalityType
  <1>3. Turn' = Turn /\ Turn \in Nat /\ Turn * 0 = 0
    BY <1>2 DEF Turn
  <1> QED
    BY <1>1, <1>3, FS_EmptySet DEF ScanLeft

LEMMA ScanLeftAfter ==
    ASSUME TypeInv', IsFiniteSet(Docs), IsFiniteSet(Tenants), IsFiniteSet(scan'.candidates)
    PROVE  ScanLeft' \in Nat
  <1>1. scan'.left \in SUBSET Tenants
    BY DEF TypeInv, TypeOK, ScanState
  <1>2. /\ Cardinality(scan'.left) \in Nat /\ Cardinality(Docs) \in Nat
        /\ Cardinality(scan'.candidates) \in Nat
    BY <1>1, FS_Subset, FS_CardinalityType
  <1>3. OfTenant' \in Nat /\ Turn \in Nat /\ Turn' = Turn
    BY <1>2 DEF OfTenant, Turn
  <1> QED
    BY <1>2, <1>3, Times DEF ScanLeft

LEMMA ScanStaysShort ==
    ASSUME TypeInv, IsFiniteSet(Docs), IsFiniteSet(Tenants), ScanIsShort,
           IsFiniteSet(scan.candidates), [Next]_vars
    PROVE  ScanIsShort' /\ IsFiniteSet(scan'.candidates) /\ ScanRuns
  <1>1. ScanLeft \in Nat /\ Turn * Cardinality(Tenants) \in Nat /\ Turn' = Turn
    BY ScanLeftType DEF Turn
  <1>2. ScanLeft \in 0..(Turn * Cardinality(Tenants) + 1)
    BY DEF ScanIsShort
  <1> DEFINE most == Turn * Cardinality(Tenants) + 1
  <1>3. ScanIsShort' <=> ScanLeft' \in 0..most
    BY <1>1 DEF ScanIsShort
  <1>4. most \in Nat
    BY <1>1
  <1> HIDE DEF most
  <1>5. CASE scan' = scan /\ ~RunScan
    <2>1. ScanLeft' = ScanLeft
      BY <1>5 DEF ScanLeft, OfTenant, Turn
    <2> QED
      BY <1>2, <1>3, <1>5, <2>1 DEF ScanRuns, most
  <1>6. CASE scan' = Idle
    <2>1. ScanLeft' = 0 /\ IsFiniteSet(scan'.candidates)
      BY <1>6, IdleIsOver
    <2>2. scan.step # "idle" => 0 < ScanLeft
      <3>1. scan.step # "idle" => OfTenant # 0 /\ OfTenant \in Nat
        <4>1. /\ Cardinality(Docs) \in Nat /\ Cardinality(scan.candidates) \in Nat
              /\ scan.step \in ScanSteps
          BY FS_CardinalityType DEF TypeInv, TypeOK, ScanState
        <4> QED
          BY <4>1 DEF OfTenant, ScanSteps
      <3>2. Turn * Cardinality(scan.left) \in Nat
        <4>1. Cardinality(scan.left) \in Nat /\ Cardinality(Docs) \in Nat
          BY FS_Subset, FS_CardinalityType DEF TypeInv, TypeOK, ScanState
        <4>2. Turn \in Nat
          BY <4>1 DEF Turn
        <4> QED
          BY <4>1, <4>2, Times
      <3> QED
        BY <3>1, <3>2 DEF ScanLeft
    <2>3. 0 \in 0..most
      BY <1>4
    <2> QED
      BY <1>3, <2>1, <2>2, <2>3 DEF ScanRuns
  <1>7. CASE RunScan
    <2>1. CASE scan.step # "idle"
      <3>1. IsFiniteSet(scan'.candidates) /\ ScanLeft' < ScanLeft
        BY <1>7, <2>1, ScanGoesDown
      <3>2. TypeInv'
        BY <1>7, ScanTypes
      <3>3. ScanLeft' \in Nat
        BY <3>1, <3>2, ScanLeftAfter
      <3> QED
        BY <1>1, <1>2, <1>3, <1>4, <3>1, <3>3 DEF ScanRuns, most
    <2>2. CASE scan.step = "idle"
      <3>1. \E source \in scanRequests : StartScan(source)
        <4>1. scan \in ScanState /\ ScanControl
          BY DEF TypeInv, TypeOK
        <4> QED
          BY <1>7, <2>2, <4>1 DEF RunScan, OpenTenant, SelectCandidates, MatchCandidate, AddJob,
             FinishTenant, FinishScan
      <3> QED
        BY <2>2, <3>1, StartedScan DEF ScanRuns
    <2> QED
      BY <2>1, <2>2
  <1>8. CASE UNCHANGED vars
    <2>1. scan' = scan /\ UNCHANGED jobVars
      BY <1>8 DEF vars
    <2>2. CASE RunScan
      BY <1>7, <2>2
    <2> QED
      BY <1>5, <2>1, <2>2
  <1>9. CASE Next
    BY <1>5, <1>6, <1>7, <1>9, StepScan
  <1> QED
    BY <1>8, <1>9

\* A scan takes at most 2 * Cardinality(Docs) + 3 steps for each tenant and one more, whatever is
\* edited meanwhile: each step of it, and whatever ends it early, leaves it fewer, and nothing
\* adds any until the next scan starts.  Scans run one at a time, so one that went round in
\* circles would block all others; that a scan goes on while it can is the fairness of
\* EveryScanEnds.
THEOREM ScanRunsDown ==
    ASSUME IsFiniteSet(Docs), IsFiniteSet(Tenants)
    PROVE  Spec => []ScanIsShort /\ [][ScanRuns]_vars
  <1> DEFINE FewLeft == ScanIsShort /\ IsFiniteSet(scan.candidates)
  <1>1. Init => FewLeft
    <2> SUFFICES ASSUME Init PROVE FewLeft
      OBVIOUS
    <2>1. ScanLeft = 0 /\ IsFiniteSet(scan.candidates)
      BY IdleIsNothingLeft DEF Init
    <2>2. Turn * Cardinality(Tenants) \in Nat
      BY ScanLeftType, InitTypeInv, <2>1
    <2> QED
      BY <2>1, <2>2 DEF ScanIsShort
  <1>2. TypeInv /\ FewLeft /\ [Next]_vars => FewLeft' /\ ScanRuns
    BY ScanStaysShort
  <1>3. FewLeft => ScanIsShort
    OBVIOUS
  <1> HIDE DEF FewLeft
  <1> QED
    BY <1>1, <1>2, <1>3, TypeInvariant, PTL DEF Spec
=============================================================================
