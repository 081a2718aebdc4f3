--------------------------- MODULE ImportsProofs ----------------------------
(***************************************************************************)
(* Theorems about Imports, for any number of uploads, files of any length, *)
(* any employees, edits and faults.                                        *)
(***************************************************************************)
EXTENDS Imports, FiniteSetTheorems, TLAPS

USE DEF Running, Answered, Stages

\* What the stage of an upload says of its batch and its row.
StageInv(u) ==
    /\ batches[u] # Absent => batches[u].file = file[u]
    /\ stage[u] \in {"unsent", "find", "insert"} => batches[u] = Absent
    /\ stage[u] \in {"lookup", "write"} =>
          batches[u] # Absent /\ batches[u].status = "PROCESSING"
    /\ stage[u] = "enqueue" => batches[u] # Absent /\ batches[u].status = "COMPLETED"
    /\ row[u] <= Length(file[u]) + 1
    /\ stage[u] = "write" => row[u] <= Length(file[u]) /\ Code(u) \in Codes

CounterTypeOK == edits \in 0..MaxEdits /\ faults \in 0..MaxFaults

TypeInv == TypeOK /\ \A u \in Uploads : StageInv(u)

LEMMA LengthType == \A f \in Files : Length(f) \in Nat
  BY RowsAssumption DEF Length

LEMMA CodeType ==
    ASSUME TypeInv, NEW u \in Uploads, AtRow(u)
    PROVE  Code(u) \in Codes \cup {Malformed}
  <1>1. RowsOf[file[u]] \in Seq(Codes \cup {Malformed})
    BY RowsAssumption DEF TypeInv, TypeOK, UploadTypeOK
  <1>2. row[u] \in 1..Len(RowsOf[file[u]])
    BY <1>1 DEF TypeInv, TypeOK, UploadTypeOK, AtRow, Length
  <1> QED
    BY <1>1, <1>2 DEF Code

\* A row is never the value that stands for its absence.
LEMMA Present == Absent \notin Employee /\ Absent \notin Batch
  BY NamesAssumption DEF Employee, Batch

LEMMA InitTypeInv == Init => TypeInv
  <1> SUFFICES ASSUME Init PROVE TypeInv
    OBVIOUS
  <1> USE ImportsBoundsAssumption
  <1>1. PICK present \in SUBSET Codes :
            employees = [c \in Codes |->
                IF c \in present THEN [version |-> 1, deleted |-> FALSE, by |-> "api"] ELSE Absent]
    BY DEF Init
  <1>2. employees \in [Codes -> Employee \cup {Absent}]
    BY <1>1 DEF Employee
  <1>3. TableTypeOK
    <2>1. tenantActive \in BOOLEAN
      BY Zenon DEF Init
    <2> QED
      BY <1>2, <2>1 DEF Init, TableTypeOK
  <1>4. UploadTypeOK
    BY DEF Init, UploadTypeOK
  <1>5. SignalTypeOK
    BY DEF Init, SignalTypeOK, SignalStates
  <1>6. \A u \in Uploads : StageInv(u)
    BY <1>4, LengthType DEF Init, StageInv, UploadTypeOK
  <1> QED
    BY <1>3, <1>4, <1>5, <1>6 DEF Init, TypeInv, TypeOK

-----------------------------------------------------------------------------
(* Type correctness: the steps *)

\* What a step does to an upload and its batch when it is the step of another.
Untouched(u) ==
    /\ batches'[u] = batches[u]
    /\ file'[u] = file[u]
    /\ stage'[u] = stage[u]
    /\ row'[u] = row[u]
    /\ seen'[u] = seen[u]
    /\ processed'[u] = processed[u]
    /\ errors'[u] = errors[u]
    /\ written'[u] = written[u]

LEMMA UntouchedStage ==
    ASSUME NEW u, StageInv(u), Untouched(u)
    PROVE  StageInv(u)'
  BY DEF StageInv, Untouched, Length, Code

\* The uploads that do not take a step of theirs.
StepOf(u) ==
    \/ Send(u) \/ Serve(u)
    \/ FailRow(u) \/ LoseRowReply(u) \/ FailUpload(u) \/ LoseReply(u)

LEMMA OthersUntouched ==
    ASSUME TypeInv, NEW u \in Uploads, StepOf(u)
    PROVE  \A v \in Uploads \ {u} : Untouched(v)
  <1> USE DEF TypeInv, TypeOK, TableTypeOK, UploadTypeOK, Untouched, Goto, CountError, CountProcessed,
              NextRow, Upserted, Begun, Completed
  <1>1. CASE Send(u)
    BY <1>1 DEF Send
  <1>2. CASE FindExistingBatch(u)
    BY <1>2 DEF FindExistingBatch
  <1>3. CASE InsertBatch(u)
    BY <1>3 DEF InsertBatch
  <1>4. CASE LookupRow(u)
    BY <1>4 DEF LookupRow
  <1>5. CASE WriteRow(u)
    BY <1>5 DEF WriteRow
  <1>6. CASE CompleteBatch(u)
    BY <1>6 DEF CompleteBatch
  <1>7. CASE EnqueueCompletion(u)
    BY <1>7 DEF EnqueueCompletion
  <1>8. CASE FailRow(u)
    BY <1>8 DEF FailRow
  <1>9. CASE LoseRowReply(u)
    BY <1>9 DEF LoseRowReply
  <1>10. CASE FailUpload(u)
    BY <1>10 DEF FailUpload
  <1>11. CASE LoseReply(u)
    BY <1>11 DEF LoseReply
  <1> QED
    BY <1>1, <1>2, <1>3, <1>4, <1>5, <1>6, <1>7, <1>8, <1>9, <1>10, <1>11 DEF StepOf, Serve

\* What every step of an upload leaves to be shown: its own row of the tables.
LEMMA StepTypes ==
    ASSUME TypeInv, NEW u \in Uploads, StepOf(u),
           employees' \in [Codes -> Employee \cup {Absent}],
           batches' \in [Uploads -> Batch \cup {Absent}],
           auditEvents' \subseteq [batch : Uploads, outcome : Outcomes],
           UploadTypeOK', SignalTypeOK', StageInv(u)',
           UNCHANGED <<importKeys, tenantActive, edits>>,
           faults' \in 0..MaxFaults
    PROVE  TypeInv'
  <1>1. TableTypeOK'
    <2>1. tenantActive' \in BOOLEAN
      BY Zenon DEF TypeInv, TypeOK, TableTypeOK
    <2> QED
      BY <2>1 DEF TypeInv, TypeOK, TableTypeOK
  <1>2. \A v \in Uploads : StageInv(v)'
    BY OthersUntouched, UntouchedStage DEF TypeInv
  <1> QED
    BY <1>1, <1>2 DEF TypeInv, TypeOK

LEMMA UpsertTypes ==
    ASSUME TypeInv, NEW u \in Uploads, stage[u] = "write", Upserted(u)
    PROVE  /\ employees' \in [Codes -> Employee \cup {Absent}]
           /\ written' \in [Uploads -> SUBSET Nat]
  <1>1. Code(u) \in Codes
    BY DEF TypeInv, StageInv
  <1>2. employees[Code(u)] # Absent => employees[Code(u)].version \in Nat
    BY <1>1 DEF TypeInv, TypeOK, TableTypeOK, Employee
  <1> DEFINE new == [version |-> IF employees[Code(u)] = Absent THEN 1
                                 ELSE employees[Code(u)].version + 1,
                     deleted |-> FALSE, by |-> u]
  <1>3. new \in Employee
    BY <1>2 DEF Employee
  <1>4. employees' = [employees EXCEPT ![Code(u)] = new]
    BY DEF Upserted
  <1> HIDE DEF new
  <1>5. employees' \in [Codes -> Employee \cup {Absent}]
    BY <1>3, <1>4 DEF TypeInv, TypeOK, TableTypeOK
  <1>6. written' \in [Uploads -> SUBSET Nat]
    BY DEF Upserted, TypeInv, TypeOK, UploadTypeOK
  <1> QED
    BY <1>5, <1>6

LEMMA CompletedTypes ==
    ASSUME TypeInv, NEW u \in Uploads, AllRowsDone(u), Completed(u)
    PROVE  /\ batches' \in [Uploads -> Batch \cup {Absent}]
           /\ batches'[u] \in Batch
           /\ batches'[u].file = file[u]
           /\ batches'[u].status = "COMPLETED"
           /\ batches'[u].processedRows = processed[u]
           /\ batches'[u].errorRows = errors[u]
  <1>1. batches[u] \in Batch /\ batches[u].file = file[u]
    BY DEF TypeInv, TypeOK, TableTypeOK, StageInv, AllRowsDone
  <1>2. batches' = [batches EXCEPT ![u] =
            [file |-> batches[u].file, status |-> "COMPLETED",
             processedRows |-> processed[u], errorRows |-> errors[u]]]
    BY DEF Completed
  <1> QED
    BY <1>1, <1>2 DEF TypeInv, TypeOK, TableTypeOK, UploadTypeOK, Batch

LEMMA OutcomeTypes ==
    ASSUME NEW u \in Uploads
    PROVE  EventOf(u) \in [batch : Uploads, outcome : Outcomes]
  BY DEF EventOf, Outcome, Outcomes


LEMMA CountTypes ==
    ASSUME TypeInv, NEW u \in Uploads, CountError(u) \/ CountProcessed(u),
           stage[u] \in {"lookup", "write"}, row[u] <= Length(file[u]),
           written' \in [Uploads -> SUBSET Nat], UNCHANGED batches
    PROVE  UploadTypeOK' /\ StageInv(u)'
  <1>1. UploadTypeOK'
    BY DEF TypeInv, TypeOK, UploadTypeOK, CountError, CountProcessed, NextRow
  <1>2. row'[u] = row[u] + 1 /\ stage'[u] = "lookup" /\ file'[u] = file[u]
    BY DEF TypeInv, TypeOK, UploadTypeOK, CountError, CountProcessed, NextRow
  <1>3. row[u] \in Nat /\ Length(file[u]) \in Nat
    BY LengthType DEF TypeInv, TypeOK, UploadTypeOK
  <1>4. StageInv(u)'
    BY <1>2, <1>3 DEF TypeInv, StageInv, Length
  <1> QED
    BY <1>1, <1>4

LEMMA UploadStepTypes ==
    ASSUME TypeInv, NEW u \in Uploads, StepOf(u)
    PROVE  TypeInv'
  <1> USE ImportsBoundsAssumption, LengthType
  <1> USE DEF TypeInv, TypeOK, UploadTypeOK, Goto, UploadStep, signalVars, StageInv, Length
  <1>1. CASE Send(u)
    <2>1. UploadTypeOK' /\ StageInv(u)'
      BY <1>1 DEF Send
    <2> QED
      BY <1>1, <2>1, StepTypes DEF Send, TableTypeOK, SignalTypeOK
  <1>2. CASE FindExistingBatch(u)
    <2>1. UploadTypeOK' /\ StageInv(u)'
      BY <1>2 DEF FindExistingBatch
    <2> QED
      BY <1>2, <2>1, StepTypes DEF FindExistingBatch, TableTypeOK, SignalTypeOK
  <1>3. ASSUME Begun(u), stage[u] = "insert"
        PROVE  /\ batches' \in [Uploads -> Batch \cup {Absent}]
               /\ batches'[u] # Absent
               /\ batches'[u].file = file[u] /\ batches'[u].status = "PROCESSING"
    BY <1>3, Present DEF Begun, TableTypeOK, Batch
  <1>4. CASE InsertBatch(u)
    <2>1. UploadTypeOK' /\ StageInv(u)' /\ batches' \in [Uploads -> Batch \cup {Absent}]
      BY <1>3, <1>4 DEF InsertBatch, TableTypeOK
    <2> QED
      BY <1>4, <2>1, StepTypes DEF InsertBatch, TableTypeOK, SignalTypeOK
  <1>5. CASE LookupRow(u)
    <2>1. CASE Code(u) = Malformed \/ Archived(Code(u))
      <3>1. UploadTypeOK' /\ StageInv(u)'
        BY <1>5, <2>1, CountTypes DEF LookupRow, AtRow
      <3> QED
        BY <1>5, <3>1, StepTypes DEF LookupRow, TableTypeOK, SignalTypeOK
    <2>2. CASE ~(Code(u) = Malformed \/ Archived(Code(u)))
      <3>1. Code(u) \in Codes
        BY <1>5, <2>2, CodeType DEF LookupRow
      <3>2. UploadTypeOK'
        <4>1. employees[Code(u)] \in Employee \cup {Absent}
          BY <3>1 DEF TableTypeOK
        <4> QED
          BY <1>5, <2>2, <4>1 DEF LookupRow
      <3>3. StageInv(u)'
        BY <1>5, <2>2, <3>1 DEF LookupRow, AtRow, Code
      <3> QED
        BY <1>5, <3>2, <3>3, StepTypes DEF LookupRow, TableTypeOK, SignalTypeOK
    <2> QED
      BY <2>1, <2>2
  <1>7. CASE WriteRow(u)
    <2>1. /\ employees' \in [Codes -> Employee \cup {Absent}]
          /\ written' \in [Uploads -> SUBSET Nat]
      BY <1>7, UpsertTypes DEF WriteRow, TableTypeOK
    <2>2. UploadTypeOK' /\ StageInv(u)'
      BY <1>7, <2>1, CountTypes DEF WriteRow
    <2> QED
      BY <1>7, <2>1, <2>2, StepTypes DEF WriteRow, TableTypeOK, SignalTypeOK
  <1>8. CASE CompleteBatch(u)
    <2>1. UploadTypeOK'
      BY <1>8 DEF CompleteBatch
    <2>2. batches' \in [Uploads -> Batch \cup {Absent}] /\ StageInv(u)'
      BY <1>8, CompletedTypes, Present DEF CompleteBatch
    <2>3. auditEvents' \subseteq [batch : Uploads, outcome : Outcomes]
      BY <1>8, OutcomeTypes DEF CompleteBatch, TableTypeOK
    <2>4. faults' \in 0..MaxFaults
      BY <1>8 DEF CompleteBatch
    <2> QED
      BY <1>8, <2>1, <2>2, <2>3, <2>4, StepTypes DEF CompleteBatch, TableTypeOK, SignalTypeOK
  <1>9. CASE EnqueueCompletion(u)
    <2>1. UploadTypeOK' /\ StageInv(u)'
      BY <1>9 DEF EnqueueCompletion
    <2>2. SignalTypeOK'
      BY <1>9 DEF EnqueueCompletion, SignalTypeOK, SignalStates
    <2> QED
      BY <1>9, <2>1, <2>2, StepTypes DEF EnqueueCompletion, TableTypeOK
  <1>10. ASSUME Fault PROVE faults' \in 0..MaxFaults /\ UNCHANGED <<tenantActive, edits>>
    BY <1>10 DEF Fault
  <1>11. CASE FailRow(u)
    <2>1. UploadTypeOK' /\ StageInv(u)'
      BY <1>11, CountTypes DEF FailRow, AtRow
    <2> QED
      BY <1>10, <1>11, <2>1, StepTypes DEF FailRow, TableTypeOK, SignalTypeOK
  <1>12. CASE LoseRowReply(u)
    <2>1. /\ employees' \in [Codes -> Employee \cup {Absent}]
          /\ written' \in [Uploads -> SUBSET Nat]
      BY <1>12, UpsertTypes DEF LoseRowReply
    <2>2. UploadTypeOK' /\ StageInv(u)'
      BY <1>12, <2>1, CountTypes DEF LoseRowReply
    <2> QED
      BY <1>10, <1>12, <2>1, <2>2, StepTypes DEF LoseRowReply, TableTypeOK, SignalTypeOK
  <1>13. CASE FailUpload(u)
    <2>1. UploadTypeOK' /\ StageInv(u)'
      BY <1>13 DEF FailUpload, AllRowsDone
    <2> QED
      BY <1>10, <1>13, <2>1, StepTypes DEF FailUpload, TableTypeOK, SignalTypeOK
  <1>14. CASE LoseReply(u)
    <2>1. UploadTypeOK'
      BY <1>14 DEF LoseReply
    <2>2. batches' \in [Uploads -> Batch \cup {Absent}] /\ StageInv(u)'
      <3>1. CASE stage[u] = "insert"
        BY <1>3, <1>14, <3>1 DEF LoseReply, AllRowsDone
      <3>2. CASE AllRowsDone(u)
        BY <1>14, <3>2, CompletedTypes, Present DEF LoseReply, AllRowsDone
      <3>3. CASE stage[u] = "enqueue"
        BY <1>14, <3>3 DEF LoseReply, AllRowsDone, TableTypeOK
      <3> QED
        BY <1>14, <3>1, <3>2, <3>3 DEF LoseReply
    <2>3. auditEvents' \subseteq [batch : Uploads, outcome : Outcomes]
      BY <1>14, OutcomeTypes DEF LoseReply, TableTypeOK
    <2>4. SignalTypeOK'
      BY <1>14 DEF LoseReply, SignalTypeOK, SignalStates
    <2> QED
      BY <1>10, <1>14, <2>1, <2>2, <2>3, <2>4, StepTypes DEF LoseReply, TableTypeOK
  <1> QED
    BY <1>1, <1>2, <1>4, <1>5, <1>7, <1>8, <1>9, <1>11, <1>12, <1>13, <1>14 DEF StepOf, Serve

\* The steps that no upload takes: other requests, the worker, its crash.
Aside == OtherRequest \/ CrashWorker \/ \E u \in Uploads : Work(u) \/ FailSignal(u)

LEMMA AsideUntouched ==
    ASSUME Aside
    PROVE  /\ \A u \in Uploads : Untouched(u)
           /\ UNCHANGED <<batches, auditEvents, uploadVars>>
  BY DEF Aside, OtherRequest, CreateEmployee, PatchEmployee, ArchiveEmployee, ChangeTenant, Edit,
         Work, TakeSignal, ProcessSignal, AcknowledgeSignal, RecoverStalled, SignalStep,
         FailSignal, CrashWorker, Fault, uploadVars, Untouched

LEMMA EditTypes ==
    ASSUME TypeInv, OtherRequest
    PROVE  /\ employees' \in [Codes -> Employee \cup {Absent}]
           /\ tenantActive' \in BOOLEAN
           /\ edits' \in 0..MaxEdits
           /\ UNCHANGED <<signalVars, faults>>
  <1>1. Edit
    BY DEF OtherRequest, CreateEmployee, PatchEmployee, ArchiveEmployee, ChangeTenant
  <1>2. edits' \in 0..MaxEdits /\ UNCHANGED <<signalVars, faults>>
    BY <1>1, ImportsBoundsAssumption DEF Edit, TypeInv, TypeOK
  <1>3. employees' \in [Codes -> Employee \cup {Absent}]
    <2>1. ASSUME NEW c \in Codes, CreateEmployee(c) \/ PatchEmployee(c) \/ ArchiveEmployee(c)
          PROVE  employees' \in [Codes -> Employee \cup {Absent}]
      <3>1. Live(c) => employees[c].version \in Nat
        BY DEF Live, Employee, TypeInv, TypeOK, TableTypeOK
      <3>2. \A n \in Nat, gone \in BOOLEAN :
                [version |-> n, deleted |-> gone, by |-> "api"] \in Employee
        BY DEF Employee
      <3>3. CASE CreateEmployee(c)
        BY <3>2, <3>3 DEF CreateEmployee, TypeInv, TypeOK, TableTypeOK
      <3>4. CASE PatchEmployee(c)
        <4>1. employees[c].version + 1 \in Nat
          BY <3>1, <3>4 DEF PatchEmployee
        <4>2. [version |-> employees[c].version + 1, deleted |-> FALSE, by |-> "api"] \in Employee
          BY <3>2, <4>1
        <4> QED
          BY <3>4, <4>2 DEF PatchEmployee, TypeInv, TypeOK, TableTypeOK
      <3>5. CASE ArchiveEmployee(c)
        BY <3>1, <3>2, <3>5 DEF ArchiveEmployee, TypeInv, TypeOK, TableTypeOK
      <3> QED
        BY <2>1, <3>3, <3>4, <3>5
    <2> QED
      BY <2>1 DEF OtherRequest, ChangeTenant, TypeInv, TypeOK, TableTypeOK
  <1>4. tenantActive' \in BOOLEAN
    <2>1. CASE ChangeTenant
      BY <2>1, Zenon DEF ChangeTenant
    <2>2. ASSUME NEW c \in Codes, CreateEmployee(c) \/ PatchEmployee(c) \/ ArchiveEmployee(c)
          PROVE  tenantActive' = tenantActive
      BY <2>2, Zenon DEF CreateEmployee, PatchEmployee, ArchiveEmployee
    <2> QED
      BY <2>1, <2>2, Zenon DEF OtherRequest, TypeInv, TypeOK, TableTypeOK
  <1> QED
    BY <1>2, <1>3, <1>4

LEMMA WorkTypes ==
    ASSUME TypeInv, NEW u \in Uploads, Work(u) \/ FailSignal(u)
    PROVE  /\ importKeys' \subseteq Uploads
           /\ SignalTypeOK'
           /\ faults' \in 0..MaxFaults
           /\ UNCHANGED <<employees, tenantActive, edits>>
  <1> USE ImportsBoundsAssumption
  <1> USE DEF TypeInv, TypeOK, TableTypeOK, SignalTypeOK, SignalStates, SignalStep
  <1>1. CASE TakeSignal(u)
    BY <1>1 DEF TakeSignal
  <1>2. CASE ProcessSignal(u)
    BY <1>2 DEF ProcessSignal
  <1>3. CASE AcknowledgeSignal(u)
    BY <1>3 DEF AcknowledgeSignal
  <1>4. CASE RecoverStalled(u)
    BY <1>4 DEF RecoverStalled
  <1>5. CASE FailSignal(u)
    BY <1>5 DEF FailSignal, Fault
  <1> QED
    BY <1>1, <1>2, <1>3, <1>4, <1>5 DEF Work

LEMMA AsideTypes ==
    ASSUME TypeInv, Aside
    PROVE  TypeInv'
  <1>1. UploadTypeOK'
    BY AsideUntouched DEF TypeInv, TypeOK, UploadTypeOK, uploadVars
  <1>2. \A u \in Uploads : StageInv(u)'
    BY AsideUntouched, UntouchedStage DEF TypeInv
  <1>3. /\ batches' \in [Uploads -> Batch \cup {Absent}]
        /\ auditEvents' \subseteq [batch : Uploads, outcome : Outcomes]
    BY AsideUntouched DEF TypeInv, TypeOK, TableTypeOK
  <1>4. tenantActive \in BOOLEAN
    BY DEF TypeInv, TypeOK, TableTypeOK
  <1>5. CASE OtherRequest
    <2>1. importKeys' \subseteq Uploads /\ SignalTypeOK' /\ faults' \in 0..MaxFaults
      BY <1>5, EditTypes DEF TypeInv, TypeOK, TableTypeOK, SignalTypeOK, signalVars
    <2>2. TableTypeOK'
      BY <1>3, <1>5, <2>1, EditTypes, Zenon DEF TableTypeOK
    <2> QED
      BY <1>1, <1>2, <1>5, <2>1, <2>2, EditTypes DEF TypeInv, TypeOK
  <1>6. CASE \E u \in Uploads : Work(u) \/ FailSignal(u)
    <2>1. tenantActive' \in BOOLEAN
      BY <1>4, <1>6, WorkTypes, Zenon
    <2>2. TableTypeOK'
      BY <1>3, <1>6, <2>1, WorkTypes DEF TypeInv, TypeOK, TableTypeOK
    <2> QED
      BY <1>1, <1>2, <1>6, <2>2, WorkTypes DEF TypeInv, TypeOK
  <1>7. CASE CrashWorker
    <2>1. SignalTypeOK' /\ faults' \in 0..MaxFaults
      BY <1>7, ImportsBoundsAssumption
      DEF CrashWorker, Fault, TypeInv, TypeOK, SignalTypeOK, SignalStates
    <2>2. tenantActive' \in BOOLEAN
      BY <1>4, <1>7, Zenon DEF CrashWorker, Fault
    <2>3. TableTypeOK'
      BY <1>3, <1>7, <2>2 DEF CrashWorker, Fault, TypeInv, TypeOK, TableTypeOK
    <2> QED
      BY <1>1, <1>2, <1>7, <2>1, <2>3 DEF CrashWorker, Fault, TypeInv, TypeOK
  <1> QED
    BY <1>5, <1>6, <1>7 DEF Aside

LEMMA CrashTypes ==
    ASSUME TypeInv, CrashApi
    PROVE  TypeInv'
  <1>1. tenantActive' \in BOOLEAN
    BY Zenon DEF CrashApi, Fault, TypeInv, TypeOK, TableTypeOK
  <1>2. TableTypeOK' /\ SignalTypeOK'
    BY <1>1 DEF CrashApi, Fault, TypeInv, TypeOK, TableTypeOK, SignalTypeOK, signalVars
  <1>3. UploadTypeOK'
    BY DEF CrashApi, TypeInv, TypeOK, UploadTypeOK
  <1>4. \A u \in Uploads : StageInv(u)'
    BY DEF CrashApi, TypeInv, TypeOK, UploadTypeOK, StageInv, Length, Code
  <1> QED
    BY <1>2, <1>3, <1>4, ImportsBoundsAssumption DEF CrashApi, Fault, TypeInv, TypeOK

LEMMA NextSteps ==
    ASSUME Next
    PROVE  (\E u \in Uploads : StepOf(u)) \/ Aside \/ CrashApi
  BY DEF Next, StepOf, Aside, Faulty

LEMMA NextTypeInv ==
    ASSUME TypeInv, [Next]_vars
    PROVE  TypeInv'
  <1>1. CASE UNCHANGED vars
    <2>1. tenantActive' \in BOOLEAN
      BY <1>1, Zenon DEF vars, TypeInv, TypeOK, TableTypeOK
    <2> QED
      BY <1>1, <2>1 DEF vars, uploadVars, signalVars, TypeInv, TypeOK, TableTypeOK, UploadTypeOK,
                        SignalTypeOK, StageInv, Length, Code
  <1>2. CASE Next
    BY <1>2, NextSteps, UploadStepTypes, AsideTypes, CrashTypes
  <1> QED
    BY <1>1, <1>2

\* Every variable of the import keeps its type, for any files, uploads, edits and faults:
\* no row is read beyond the end of its file, and no batch completed that was not begun.
THEOREM TypeCorrectness == Spec => []TypeOK
  <1>1. Init => TypeInv
    BY InitTypeInv
  <1>2. TypeInv /\ [Next]_vars => TypeInv'
    BY NextTypeInv
  <1>3. TypeInv => TypeOK
    BY DEF TypeInv
  <1> QED
    BY <1>1, <1>2, <1>3, PTL DEF Spec

-----------------------------------------------------------------------------
(* Archived employees *)

LEMMA UpsertOnly ==
    ASSUME TypeInv, NEW u \in Uploads, WriteRow(u) \/ LoseRowReply(u), employees' # employees
    PROVE  stage[u] = "write" /\ Accepts(u) /\ Upserted(u)
  BY DEF WriteRow, LoseRowReply

\* What changes an employee is the write of a row, or another request.
LEMMA WhoChanges ==
    ASSUME TypeInv, [Next]_vars, employees' # employees
    PROVE  \/ \E u \in Uploads : stage[u] = "write" /\ Accepts(u) /\ Upserted(u)
           \/ \E c \in Codes : CreateEmployee(c) \/ PatchEmployee(c) \/ ArchiveEmployee(c)
  <1>1. CASE UNCHANGED vars
    BY <1>1 DEF vars
  <1>2. ASSUME NEW u \in Uploads, StepOf(u)
        PROVE  stage[u] = "write" /\ Accepts(u) /\ Upserted(u)
    <2>1. WriteRow(u) \/ LoseRowReply(u)
      BY <1>2 DEF StepOf, Serve, Send, FindExistingBatch, InsertBatch, LookupRow, CompleteBatch,
                  EnqueueCompletion, FailRow, FailUpload, LoseReply
    <2> QED
      BY <2>1, UpsertOnly
  <1>3. CASE OtherRequest
    BY <1>3 DEF OtherRequest, ChangeTenant
  <1>4. CASE Aside /\ ~OtherRequest
    BY <1>4, WorkTypes DEF Aside, CrashWorker
  <1>5. CASE CrashApi
    BY <1>5 DEF CrashApi
  <1> QED
    BY <1>1, <1>2, <1>3, <1>4, <1>5, NextSteps

\* Whoever changes an employee finds it absent or alive, and leaves every other as it is.
LEMMA Changes ==
    ASSUME TypeInv, [Next]_vars, NEW c \in Codes, employees'[c] # employees[c]
    PROVE  /\ ~Archived(c)
           /\ employees'[c] \in Employee
           /\ Live(c) => employees'[c].deleted \/ employees'[c].version > employees[c].version
  <1> USE DEF TypeInv, TypeOK, TableTypeOK
  <1>1. employees[c] # Absent => employees[c] \in Employee /\ employees[c].version \in Nat
    BY DEF Employee
  <1>2. employees' \in [Codes -> Employee \cup {Absent}]
    BY NextTypeInv
  <1>3. ASSUME NEW u \in Uploads, stage[u] = "write", Accepts(u), Upserted(u)
        PROVE  /\ ~Archived(c) /\ employees'[c] # Absent
               /\ Live(c) => employees'[c].version > employees[c].version
    <2>1. c = Code(u)
      BY <1>3 DEF Upserted
    <2>2. ~Archived(c)
      BY <1>3, <2>1 DEF Accepts, Archived, Live
    <2>3. employees'[c] = [version |-> IF employees[c] = Absent THEN 1 ELSE employees[c].version + 1,
                           deleted |-> FALSE, by |-> u]
      BY <1>3, <2>1 DEF Upserted
    <2>4. employees'[c] \in Employee
      BY <1>1, <2>3 DEF Employee
    <2>5. Live(c) => employees'[c].version = employees[c].version + 1
      BY <2>3 DEF Live
    <2> QED
      BY <1>1, <2>2, <2>4, <2>5, Present DEF Live
  <1>4. ASSUME NEW d \in Codes, CreateEmployee(d) \/ PatchEmployee(d) \/ ArchiveEmployee(d)
        PROVE  /\ ~Archived(c) /\ employees'[c] # Absent
               /\ Live(c) => employees'[c].deleted \/ employees'[c].version > employees[c].version
    <2>1. c = d
      BY <1>4 DEF CreateEmployee, PatchEmployee, ArchiveEmployee
    <2>2. ~Archived(c)
      BY <1>4, <2>1 DEF CreateEmployee, PatchEmployee, ArchiveEmployee, Archived, Live
    <2>3. CASE CreateEmployee(d)
      <3>1. employees'[c] = [version |-> 1, deleted |-> FALSE, by |-> "api"] /\ ~Live(c)
        BY <2>1, <2>3 DEF CreateEmployee, Live
      <3>2. employees'[c] \in Employee
        BY <3>1 DEF Employee
      <3> QED
        BY <2>2, <3>1, <3>2, Present
    <2>4. CASE PatchEmployee(d)
      <3>1. /\ employees[c] # Absent
            /\ employees'[c] = [version |-> employees[c].version + 1, deleted |-> FALSE, by |-> "api"]
        BY <2>1, <2>4 DEF PatchEmployee, Live
      <3>2. employees'[c] \in Employee
        BY <1>1, <3>1 DEF Employee
      <3>3. employees'[c].version = employees[c].version + 1
        BY <3>1
      <3>4. employees'[c].version > employees[c].version
        BY <1>1, <3>1, <3>3
      <3> QED
        BY <2>2, <3>2, <3>4, Present
    <2>5. CASE ArchiveEmployee(d)
      <3>1. /\ employees[c] # Absent
            /\ employees'[c] = [version |-> employees[c].version, deleted |-> TRUE, by |-> "api"]
        BY <2>1, <2>5 DEF ArchiveEmployee, Live
      <3>2. employees'[c] \in Employee
        BY <1>1, <3>1 DEF Employee
      <3>3. employees'[c].deleted
        BY <3>1
      <3> QED
        BY <2>2, <3>2, <3>3, Present
    <2> QED
      BY <1>4, <2>3, <2>4, <2>5
  <1> QED
    BY <1>2, <1>3, <1>4, WhoChanges

\* An archived employee is final for every import: the row of a file that names it, or an
\* import that looked it up alive, leaves it as it is.
THEOREM ArchivedIsFinal == Spec => ArchivedStaysArchived
  <1>1. Init => TypeInv
    BY InitTypeInv
  <1>2. TypeInv /\ [Next]_vars => TypeInv'
    BY NextTypeInv
  <1>3. TypeInv /\ [Next]_vars =>
            [\A c \in Codes : Archived(c) => employees'[c] = employees[c]]_vars
    BY Changes
  <1> QED
    BY <1>1, <1>2, <1>3, PTL DEF Spec, ArchivedStaysArchived

-----------------------------------------------------------------------------
(* The row that is replaced is the row that was looked up *)

\* Since its lookup the employee of a row is as it was, or archived, or has gone on.
SeenInv ==
    \A u \in Uploads : stage[u] = "write" /\ seen[u] # Absent =>
        /\ ~seen[u].deleted
        /\ employees[Code(u)] # Absent
        /\ \/ employees[Code(u)] = seen[u]
           \/ employees[Code(u)].deleted
           \/ employees[Code(u)].version > seen[u].version

LEMMA ReplacesSeen ==
    ASSUME TypeInv, SeenInv, NEW u \in Uploads, stage[u] = "write", Accepts(u)
    PROVE  employees[Code(u)] = seen[u]
  <1>1. CASE seen[u] = Absent
    BY <1>1 DEF Accepts
  <1>2. CASE seen[u] # Absent
    <2>1. seen[u].version \in Nat
      BY <1>2 DEF TypeInv, TypeOK, UploadTypeOK, Employee
    <2> QED
      BY <1>2, <2>1 DEF SeenInv, Accepts, Live
  <1> QED
    BY <1>1, <1>2

LEMMA NextSeenInv ==
    ASSUME TypeInv, SeenInv, [Next]_vars
    PROVE  SeenInv'
  <1> SUFFICES ASSUME NEW u \in Uploads, stage'[u] = "write", seen'[u] # Absent
               PROVE  /\ ~seen'[u].deleted
                      /\ employees'[Code(u)'] # Absent
                      /\ \/ employees'[Code(u)'] = seen'[u]
                         \/ employees'[Code(u)'].deleted
                         \/ employees'[Code(u)'].version > seen'[u].version
    BY DEF SeenInv
  <1>1. \/ /\ LookupRow(u) /\ Code(u) \in Codes /\ ~Archived(Code(u)) /\ Code(u)' = Code(u)
           /\ seen'[u] = employees[Code(u)] /\ UNCHANGED employees
        \/ stage[u] = "write" /\ seen'[u] = seen[u] /\ Code(u)' = Code(u)
    <2>1. CASE UNCHANGED vars
      BY <2>1 DEF vars, uploadVars, Code
    <2>2. CASE Untouched(u)
      BY <2>2 DEF Untouched, Code
    <2>3. CASE StepOf(u)
      <3>1. LookupRow(u) /\ Code(u) # Malformed /\ ~Archived(Code(u))
        BY <2>3 DEF StepOf, Serve, Send, FindExistingBatch, InsertBatch, LookupRow, WriteRow,
                    CompleteBatch, EnqueueCompletion, FailRow, LoseRowReply, FailUpload, LoseReply,
                    Goto, CountError, CountProcessed, NextRow, TypeInv, TypeOK, UploadTypeOK
      <3>2. Code(u) \in Codes
        BY <3>1, CodeType DEF LookupRow
      <3> QED
        BY <3>1, <3>2 DEF LookupRow, Code, TypeInv, TypeOK, UploadTypeOK
    <2>4. CASE CrashApi
      BY <2>4 DEF CrashApi, Code
    <2> QED
      BY <2>1, <2>2, <2>3, <2>4, NextSteps, OthersUntouched, AsideUntouched
  <1>2. CASE LookupRow(u) /\ Code(u) \in Codes /\ ~Archived(Code(u)) /\ Code(u)' = Code(u)
             /\ seen'[u] = employees[Code(u)] /\ UNCHANGED employees
    BY <1>2 DEF Archived
  <1>3. CASE stage[u] = "write" /\ seen'[u] = seen[u] /\ Code(u)' = Code(u)
    <2> DEFINE c == Code(u)
    <2>1. c \in Codes
      BY <1>3 DEF TypeInv, StageInv
    <2>2. /\ ~seen[u].deleted /\ employees[c] # Absent
          /\ employees[c] = seen[u] \/ employees[c].deleted \/ employees[c].version > seen[u].version
      BY <1>3 DEF SeenInv
    <2>3. seen[u].version \in Nat /\ employees[c].version \in Nat
      BY <1>3, <2>1, <2>2 DEF TypeInv, TypeOK, UploadTypeOK, TableTypeOK, Employee
    <2>4. CASE employees'[c] = employees[c]
      BY <1>3, <2>2, <2>4
    <2>5. CASE employees'[c] # employees[c]
      <3>1. /\ Live(c)
            /\ employees'[c] \in Employee
            /\ employees'[c].deleted \/ employees'[c].version > employees[c].version
        BY <2>1, <2>2, <2>5, Changes DEF Archived, Live
      <3>2. employees'[c].version \in Nat
        BY <3>1 DEF Employee
      <3> QED
        BY <1>3, <2>2, <2>3, <3>1, <3>2, Present DEF Live
    <2> QED
      BY <2>4, <2>5
  <1> QED
    BY <1>1, <1>2, <1>3

\* What changes the rows that count as written is the write of a row.
LEMMA WhoWrites ==
    ASSUME TypeInv, [Next]_vars, NEW u \in Uploads, written'[u] # written[u]
    PROVE  stage[u] = "write" /\ Accepts(u)
  <1>1. StepOf(u)
    BY NextSteps, OthersUntouched, AsideUntouched DEF Untouched, CrashApi, vars, uploadVars
  <1> QED
    BY <1>1 DEF StepOf, Serve, Send, FindExistingBatch, InsertBatch, LookupRow, WriteRow,
                CompleteBatch, EnqueueCompletion, FailRow, LoseRowReply, FailUpload, LoseReply, Goto

\* An import replaces the very row it looked up, or inserts one where there was none,
\* whoever commits between its two transactions.
THEOREM ReplacesWhatWasSeen == Spec => ReplacesWhatItSaw
  <1>1. Init => TypeInv /\ SeenInv
    BY InitTypeInv DEF Init, SeenInv
  <1>2. TypeInv /\ SeenInv /\ [Next]_vars => TypeInv' /\ SeenInv'
    BY NextTypeInv, NextSeenInv
  <1>3. TypeInv /\ SeenInv /\ [Next]_vars =>
            [\A u \in Uploads : written'[u] # written[u] => employees[Code(u)] = seen[u]]_vars
    BY ReplacesSeen, WhoWrites
  <1> QED
    BY <1>1, <1>2, <1>3, PTL DEF Spec, ReplacesWhatItSaw

-----------------------------------------------------------------------------
(* Counts, outcomes and what was written *)

\* The rows up to the current one are counted once each.
CountInv(u) ==
    /\ written[u] \subseteq 1..(row[u] - 1)
    /\ processed[u] + errors[u] = row[u] - 1
    /\ errors[u] = 0 => written[u] = 1..(row[u] - 1)
    /\ processed[u] <= Cardinality(written[u])
    /\ Cardinality(written[u]) <= processed[u] + faults

\* A batch that is complete has the counts of its upload, at the end of the file.
CompleteInv(u) ==
    /\ batches[u] = Absent => row[u] = 1
    /\ batches[u] # Absent /\ batches[u].status = "COMPLETED" =>
          /\ row[u] = Length(file[u]) + 1
          /\ batches[u].processedRows = processed[u]
          /\ batches[u].errorRows = errors[u]

\* The audit trail speaks of complete batches, and says SUCCESS of those without an error.
AuditInv ==
    \A e \in auditEvents :
        e.batch \in CompletedBatches /\ (e.outcome = "SUCCESS" => errors[e.batch] = 0)

WrittenInv == (\A u \in Uploads : CountInv(u) /\ CompleteInv(u)) /\ AuditInv

LEMMA WrittenFinite ==
    ASSUME TypeInv, NEW u \in Uploads, CountInv(u)
    PROVE  /\ IsFiniteSet(written[u]) /\ Cardinality(written[u]) \in Nat
           /\ row[u] \notin written[u]
           /\ Cardinality(written[u] \cup {row[u]}) = Cardinality(written[u]) + 1
  <1>1. row[u] \in Nat /\ row[u] \notin written[u]
    BY DEF TypeInv, TypeOK, UploadTypeOK, CountInv
  <1>2. IsFiniteSet(1..(row[u] - 1))
    BY <1>1, FS_Interval
  <1>3. IsFiniteSet(written[u])
    BY <1>2, FS_Subset DEF CountInv
  <1> QED
    BY <1>1, <1>3, FS_CardinalityType, FS_AddElement

LEMMA FaultsGrow == TypeInv /\ [Next]_vars => faults' \in Nat /\ faults \in Nat /\ faults <= faults'
  <1> SUFFICES ASSUME TypeInv, [Next]_vars
               PROVE  faults' \in Nat /\ faults \in Nat /\ faults <= faults'
    OBVIOUS
  <1>1. faults \in Nat
    BY ImportsBoundsAssumption DEF TypeInv, TypeOK
  <1>2. faults' = faults \/ faults' = faults + 1
    <2>1. ASSUME NEW u \in Uploads, StepOf(u)
          PROVE  faults' = faults \/ faults' = faults + 1
      BY <2>1 DEF StepOf, Serve, Send, FindExistingBatch, InsertBatch, LookupRow, WriteRow,
                  CompleteBatch, EnqueueCompletion, FailRow, LoseRowReply, FailUpload, LoseReply, Fault
    <2>2. CASE Aside
      BY <2>2 DEF Aside, OtherRequest, CreateEmployee, PatchEmployee, ArchiveEmployee, ChangeTenant,
                  Edit, Work, TakeSignal, ProcessSignal, AcknowledgeSignal, RecoverStalled,
                  FailSignal, CrashWorker, Fault
    <2>3. CASE CrashApi
      BY <2>3 DEF CrashApi, Fault
    <2>4. CASE UNCHANGED vars
      BY <2>4 DEF vars
    <2> QED
      BY <2>1, <2>2, <2>3, <2>4, NextSteps
  <1> QED
    BY <1>1, <1>2

LEMMA InitWrittenInv == Init => WrittenInv
  <1> SUFFICES ASSUME Init PROVE WrittenInv
    OBVIOUS
  <1>1. \A u \in Uploads : CountInv(u)
    BY FS_EmptySet DEF Init, CountInv
  <1>2. \A u \in Uploads : CompleteInv(u)
    BY DEF Init, CompleteInv
  <1> QED
    BY <1>1, <1>2 DEF Init, WrittenInv, AuditInv

\* A step that leaves row, counts and written rows leaves the counts right.
LEMMA SameCounts ==
    ASSUME TypeInv, [Next]_vars, NEW u \in Uploads, CountInv(u),
           row'[u] = row[u], processed'[u] = processed[u], errors'[u] = errors[u],
           written'[u] = written[u]
    PROVE  CountInv(u)'
  <1>1. Cardinality(written[u]) \in Nat
    BY WrittenFinite
  <1> QED
    BY <1>1, FaultsGrow DEF CountInv, TypeInv, TypeOK, UploadTypeOK

LEMMA RowCounted ==
    ASSUME TypeInv, [Next]_vars, NEW u \in Uploads, CountInv(u),
           \/ CountError(u) /\ written'[u] = written[u]
           \/ CountProcessed(u) /\ written'[u] = written[u] \cup {row[u]}
           \/ CountError(u) /\ written'[u] = written[u] \cup {row[u]} /\ faults' = faults + 1
    PROVE  CountInv(u)'
  <1>1. row[u] \in Nat \ {0} /\ processed[u] \in Nat /\ errors[u] \in Nat
    BY DEF TypeInv, TypeOK, UploadTypeOK
  <1>2. row'[u] = row[u] + 1
    BY DEF CountError, CountProcessed, NextRow, TypeInv, TypeOK, UploadTypeOK
  <1>3. \/ processed'[u] = processed[u] /\ errors'[u] = errors[u] + 1
        \/ /\ processed'[u] = processed[u] + 1 /\ errors'[u] = errors[u]
           /\ written'[u] = written[u] \cup {row[u]}
    BY DEF CountError, CountProcessed, TypeInv, TypeOK, UploadTypeOK
  <1>4. written'[u] \subseteq 1..(row'[u] - 1)
    BY <1>1, <1>2 DEF CountInv
  <1>5. processed'[u] + errors'[u] = row'[u] - 1
    BY <1>1, <1>2, <1>3 DEF CountInv
  <1>6. errors'[u] = 0 => written'[u] = 1..(row'[u] - 1)
    <2> SUFFICES ASSUME errors'[u] = 0 PROVE written'[u] = 1..(row'[u] - 1)
      OBVIOUS
    <2>1. errors[u] = 0 /\ written'[u] = written[u] \cup {row[u]}
      BY <1>1, <1>3
    <2>2. written[u] = 1..(row[u] - 1)
      BY <2>1 DEF CountInv
    <2>3. (1..(row[u] - 1)) \cup {row[u]} = 1..row[u]
      BY <1>1
    <2>4. row'[u] - 1 = row[u]
      BY <1>1, <1>2
    <2> QED
      BY <2>1, <2>2, <2>3, <2>4
  <1>7. processed'[u] <= Cardinality(written'[u]) /\ Cardinality(written'[u]) <= processed'[u] + faults'
    <2>1. /\ Cardinality(written[u]) \in Nat
          /\ Cardinality(written[u] \cup {row[u]}) = Cardinality(written[u]) + 1
      BY WrittenFinite
    <2>2. processed[u] <= Cardinality(written[u]) /\ Cardinality(written[u]) <= processed[u] + faults
      BY DEF CountInv
    <2>3. CASE CountError(u) /\ written'[u] = written[u]
      BY <1>1, <2>1, <2>2, <2>3, FaultsGrow DEF CountError, TypeInv, TypeOK, UploadTypeOK
    <2>4. CASE CountProcessed(u) /\ written'[u] = written[u] \cup {row[u]}
      <3>1. processed'[u] = processed[u] + 1
        BY <2>4 DEF CountProcessed, TypeInv, TypeOK, UploadTypeOK
      <3> QED
        BY <1>1, <2>1, <2>2, <2>4, <3>1, FaultsGrow
    <2>5. CASE CountError(u) /\ written'[u] = written[u] \cup {row[u]} /\ faults' = faults + 1
      <3>1. processed'[u] = processed[u]
        BY <2>5 DEF CountError
      <3> QED
        BY <1>1, <2>1, <2>2, <2>5, <3>1, FaultsGrow
    <2> QED
      BY <2>3, <2>4, <2>5
  <1> QED
    BY <1>4, <1>5, <1>6, <1>7 DEF CountInv

\* An upload that goes on to its next row has a batch that is not complete.
LEMMA NextRowIncomplete ==
    ASSUME TypeInv, NEW u \in Uploads, stage[u] \in {"lookup", "write"}, UNCHANGED batches,
           CompleteInv(u)
    PROVE  CompleteInv(u)'
  BY DEF TypeInv, StageInv, CompleteInv

LEMMA RowInvs ==
    ASSUME TypeInv, NEW u \in Uploads, CountInv(u), CompleteInv(u),
           LookupRow(u) \/ WriteRow(u) \/ FailRow(u) \/ LoseRowReply(u)
    PROVE  CountInv(u)' /\ CompleteInv(u)' /\ UNCHANGED <<batches, auditEvents>>
  <1>1. [Next]_vars
    BY DEF Next, Serve, Faulty
  <1>2. stage[u] \in {"lookup", "write"} /\ UNCHANGED <<batches, auditEvents>>
    BY DEF LookupRow, WriteRow, FailRow, LoseRowReply, AtRow
  <1>3. CompleteInv(u)'
    BY <1>2, NextRowIncomplete
  <1>4. ASSUME Upserted(u) PROVE written'[u] = written[u] \cup {row[u]}
    BY <1>4 DEF Upserted, TypeInv, TypeOK, UploadTypeOK
  <1>5. CASE LookupRow(u)
    <2>1. written'[u] = written[u]
      BY <1>5 DEF LookupRow
    <2>2. CASE CountError(u)
      BY <1>1, <1>2, <1>3, <2>1, <2>2, RowCounted
    <2>3. CASE UNCHANGED <<row, processed, errors>>
      BY <1>1, <1>2, <1>3, <2>1, <2>3, SameCounts
    <2> QED
      BY <1>5, <2>2, <2>3 DEF LookupRow
  <1>6. CASE WriteRow(u)
    BY <1>1, <1>2, <1>3, <1>4, <1>6, RowCounted DEF WriteRow
  <1>7. CASE FailRow(u)
    BY <1>1, <1>2, <1>3, <1>7, RowCounted DEF FailRow
  <1>8. CASE LoseRowReply(u)
    BY <1>1, <1>2, <1>3, <1>4, <1>8, RowCounted DEF LoseRowReply, Fault
  <1> QED
    BY <1>5, <1>6, <1>7, <1>8

\* What a batch becomes when an upload completes it, and what the audit trail says.
LEMMA CompletionInv ==
    ASSUME TypeInv, NEW u \in Uploads, CountInv(u), AllRowsDone(u), Completed(u),
           UNCHANGED <<file, row, processed, errors>>
    PROVE  CompleteInv(u)'
  <1>1. row[u] = Length(file[u]) + 1
    BY LengthType DEF AllRowsDone, TypeInv, TypeOK, UploadTypeOK, StageInv
  <1>2. /\ batches'[u] \in Batch /\ batches'[u].file = file[u]
        /\ batches'[u].processedRows = processed[u] /\ batches'[u].errorRows = errors[u]
    BY CompletedTypes
  <1>3. batches'[u] # Absent
    BY <1>2, Present
  <1> QED
    BY <1>1, <1>2, <1>3 DEF CompleteInv, Length

\* A complete batch stays as it is, and so do the counts and rows of its upload.
LEMMA CompletedIsOver ==
    ASSUME TypeInv, [Next]_vars, NEW u \in CompletedBatches
    PROVE  /\ batches'[u] = batches[u] /\ errors'[u] = errors[u] /\ written'[u] = written[u]
           /\ file'[u] = file[u]
  <1>1. u \in Uploads /\ stage[u] \notin {"unsent", "find", "insert", "lookup", "write"}
    BY DEF CompletedBatches, TypeInv, StageInv
  <1>2. CASE StepOf(u)
    BY <1>1, <1>2 DEF StepOf, Serve, Send, FindExistingBatch, InsertBatch, LookupRow, WriteRow,
                CompleteBatch, EnqueueCompletion, FailRow, LoseRowReply, FailUpload, LoseReply, Goto,
                AtRow, AllRowsDone
  <1>3. CASE CrashApi
    BY <1>3 DEF CrashApi
  <1>4. CASE UNCHANGED vars
    BY <1>4 DEF vars, uploadVars
  <1> QED
    BY <1>1, <1>2, <1>3, <1>4, NextSteps, OthersUntouched, AsideUntouched DEF Untouched

LEMMA AuditStays ==
    ASSUME TypeInv, AuditInv, [Next]_vars, NEW e \in auditEvents
    PROVE  e.batch \in CompletedBatches' /\ (e.outcome = "SUCCESS" => errors'[e.batch] = 0)
  <1>1. e.batch \in CompletedBatches /\ (e.outcome = "SUCCESS" => errors[e.batch] = 0)
    BY DEF AuditInv
  <1>2. batches'[e.batch] = batches[e.batch] /\ errors'[e.batch] = errors[e.batch]
    BY <1>1, CompletedIsOver
  <1> QED
    BY <1>1, <1>2 DEF CompletedBatches

LEMMA NewEvent ==
    ASSUME TypeInv, NEW u \in Uploads, AllRowsDone(u), Completed(u), UNCHANGED errors
    PROVE  /\ EventOf(u).batch \in CompletedBatches'
           /\ EventOf(u).outcome = "SUCCESS" => errors'[EventOf(u).batch] = 0
  <1>1. EventOf(u).batch = u /\ EventOf(u).outcome = Outcome(u)
    BY DEF EventOf
  <1>2. u \in CompletedBatches'
    BY CompletedTypes, Present DEF CompletedBatches
  <1> QED
    BY <1>1, <1>2 DEF Outcome

LEMMA NextUploadCounts ==
    ASSUME TypeInv, NEW u \in Uploads, CountInv(u), CompleteInv(u), StepOf(u)
    PROVE  CountInv(u)' /\ CompleteInv(u)'
  <1>1. [Next]_vars
    BY DEF Next, Serve, Faulty, StepOf
  <1>2. ASSUME NEW s, Goto(u, s) PROVE CountInv(u)' /\ UNCHANGED <<file, row, processed, errors>>
    BY <1>1, <1>2, SameCounts DEF Goto
  <1>3. ASSUME UNCHANGED <<file, row, processed, errors>>, batches'[u] = batches[u]
        PROVE  CompleteInv(u)'
    BY <1>3 DEF CompleteInv, Length
  <1>4. ASSUME UNCHANGED row, stage[u] = "insert", Begun(u)
        PROVE  CompleteInv(u)'
    BY <1>4 DEF CompleteInv, Begun, TypeInv, TypeOK, TableTypeOK, StageInv
  <1>5. CASE Send(u) \/ FindExistingBatch(u) \/ EnqueueCompletion(u) \/ FailUpload(u)
    BY <1>2, <1>3, <1>5 DEF Send, FindExistingBatch, EnqueueCompletion, FailUpload
  <1>6. CASE InsertBatch(u)
    BY <1>2, <1>3, <1>4, <1>6 DEF InsertBatch
  <1>7. CASE CompleteBatch(u)
    BY <1>2, <1>7, CompletionInv DEF CompleteBatch
  <1>8. CASE LoseReply(u)
    BY <1>2, <1>3, <1>4, <1>8, CompletionInv DEF LoseReply
  <1> QED
    BY <1>5, <1>6, <1>7, <1>8, RowInvs DEF StepOf, Serve

\* The one step that adds to the audit trail adds the event of a batch it completes.
LEMMA WhoAudits ==
    ASSUME TypeInv, [Next]_vars
    PROVE  \/ auditEvents' \subseteq auditEvents
           \/ \E u \in Uploads : /\ AllRowsDone(u) /\ Completed(u) /\ UNCHANGED errors
                                /\ auditEvents' = auditEvents \cup {EventOf(u)}
  <1>1. CASE UNCHANGED vars
    BY <1>1 DEF vars
  <1>2. CASE Aside \/ CrashApi
    BY <1>2, AsideUntouched DEF CrashApi
  <1>3. ASSUME NEW u \in Uploads, StepOf(u), ~(auditEvents' \subseteq auditEvents)
        PROVE  /\ AllRowsDone(u) /\ Completed(u) /\ UNCHANGED errors
               /\ auditEvents' = auditEvents \cup {EventOf(u)}
    <2>1. CompleteBatch(u) \/ LoseReply(u)
      BY <1>3 DEF StepOf, Serve, Send, FindExistingBatch, InsertBatch, LookupRow, WriteRow,
                  EnqueueCompletion, FailRow, LoseRowReply, FailUpload
    <2> QED
      BY <1>3, <2>1 DEF CompleteBatch, LoseReply, Goto
  <1> QED
    BY <1>1, <1>2, <1>3, NextSteps

LEMMA NextWrittenInv ==
    ASSUME TypeInv, WrittenInv, [Next]_vars
    PROVE  WrittenInv'
  <1>1. ASSUME NEW u \in Uploads PROVE CountInv(u)' /\ CompleteInv(u)'
    <2>1. CountInv(u) /\ CompleteInv(u)
      BY DEF WrittenInv
    <2>2. CASE StepOf(u)
      BY <2>1, <2>2, NextUploadCounts
    <2>3. ASSUME UNCHANGED <<file, row, processed, errors, written, batches>> \/ Untouched(u)
          PROVE  CountInv(u)' /\ CompleteInv(u)'
      <3>1. CountInv(u)'
        BY <2>1, <2>3, SameCounts DEF Untouched
      <3>2. CompleteInv(u)'
        BY <2>1, <2>3 DEF Untouched, CompleteInv, Length
      <3> QED
        BY <3>1, <3>2
    <2>4. StepOf(u) \/ Untouched(u) \/ UNCHANGED <<file, row, processed, errors, written, batches>>
      BY NextSteps, OthersUntouched, AsideUntouched DEF CrashApi, vars, uploadVars
    <2> QED
      BY <2>2, <2>3, <2>4
  <1>2. AuditInv'
    <2>1. AuditInv
      BY DEF WrittenInv
    <2>2. ASSUME NEW e \in auditEvents'
          PROVE  e.batch \in CompletedBatches' /\ (e.outcome = "SUCCESS" => errors'[e.batch] = 0)
      <3>1. CASE e \in auditEvents
        BY <2>1, <3>1, AuditStays
      <3>2. CASE e \notin auditEvents
        <4>1. PICK u \in Uploads : /\ AllRowsDone(u) /\ Completed(u) /\ UNCHANGED errors
                                   /\ auditEvents' = auditEvents \cup {EventOf(u)}
          BY <2>2, <3>2, WhoAudits
        <4>2. e = EventOf(u)
          BY <2>2, <3>2, <4>1
        <4> QED
          BY <4>1, <4>2, NewEvent
      <3> QED
        BY <3>1, <3>2
    <2> QED
      BY <2>2 DEF AuditInv
  <1> QED
    BY <1>1, <1>2 DEF WrittenInv

LEMMA WrittenInvariant == Spec => [](TypeInv /\ WrittenInv)
  <1>1. Init => TypeInv /\ WrittenInv
    BY InitTypeInv, InitWrittenInv
  <1>2. TypeInv /\ WrittenInv /\ [Next]_vars => TypeInv' /\ WrittenInv'
    BY NextTypeInv, NextWrittenInv
  <1> QED
    BY <1>1, <1>2, PTL DEF Spec

\* The counts of a complete batch add up to its rows, none is counted as processed that was
\* not written, and one written but not counted takes a fault.
THEOREM CountsTellTheTruth == Spec => []CountsAreTrue
  <1>1. ASSUME TypeInv, WrittenInv PROVE CountsAreTrue
    <2> SUFFICES ASSUME NEW u \in CompletedBatches
                 PROVE  /\ batches[u].processedRows + batches[u].errorRows = Length(batches[u].file)
                        /\ batches[u].processedRows <= Cardinality(written[u])
                        /\ Cardinality(written[u]) <= batches[u].processedRows + faults
      BY DEF CountsAreTrue
    <2>1. u \in Uploads /\ batches[u].file = file[u]
      BY <1>1 DEF CompletedBatches, TypeInv, StageInv
    <2>2. CountInv(u) /\ CompleteInv(u)
      BY <1>1, <2>1 DEF WrittenInv
    <2>3. row[u] = Length(file[u]) + 1 /\ Length(file[u]) \in Nat
      BY <1>1, <2>1, <2>2, LengthType
      DEF CompleteInv, CompletedBatches, TypeInv, TypeOK, UploadTypeOK
    <2> QED
      BY <2>1, <2>2, <2>3 DEF CountInv, CompleteInv, CompletedBatches
  <1> QED
    BY <1>1, WrittenInvariant, PTL

\* An import that the audit trail calls a success has written every row of its file.
THEOREM SuccessIsWritten == Spec => []SuccessMeansWritten
  <1>1. ASSUME TypeInv, WrittenInv PROVE SuccessMeansWritten
    <2> SUFFICES ASSUME NEW e \in auditEvents, e.outcome = "SUCCESS"
                 PROVE  written[e.batch] = 1..Length(batches[e.batch].file)
      BY DEF SuccessMeansWritten
    <2>1. e.batch \in CompletedBatches /\ errors[e.batch] = 0
      BY <1>1 DEF WrittenInv, AuditInv
    <2>2. PICK u \in Uploads : u = e.batch
      BY <2>1 DEF CompletedBatches
    <2>3. CountInv(u) /\ CompleteInv(u)
      BY <1>1, <2>2 DEF WrittenInv
    <2>4. row[u] = Length(file[u]) + 1 /\ Length(file[u]) \in Nat /\ batches[u].file = file[u]
      BY <1>1, <2>1, <2>2, <2>3, LengthType
      DEF CompleteInv, CompletedBatches, TypeInv, TypeOK, UploadTypeOK, StageInv
    <2>5. row[u] - 1 = Length(file[u])
      BY <2>4
    <2> QED
      BY <2>1, <2>2, <2>3, <2>4, <2>5 DEF CountInv
  <1> QED
    BY <1>1, WrittenInvariant, PTL

-----------------------------------------------------------------------------
(* The imports implement FileImports *)

\* A file has one batch, and the worker hears of complete batches only.
OneBatch ==
    \A u, v \in Uploads :
        batches[u] # Absent /\ batches[v] # Absent /\ file[u] = file[v] => u = v

SignalInv ==
    \A u \in Uploads : signals[u] # "none" \/ u \in importKeys => u \in CompletedBatches

FileInv == TypeInv /\ WrittenInv /\ OneBatch /\ SignalInv

LEMMA InitFileInv == Init => FileInv
  <1>1. Init => OneBatch /\ SignalInv
    BY DEF Init, OneBatch, SignalInv
  <1> QED
    BY <1>1, InitTypeInv, InitWrittenInv DEF FileInv

\* A batch is begun when its file has none, and never changes its file.
LEMMA WhoBegins ==
    ASSUME TypeInv, [Next]_vars, NEW u \in Uploads, batches[u] = Absent, batches'[u] # Absent
    PROVE  BatchesOf(file[u]) = {} /\ Begun(u)
  <1>1. StepOf(u)
    BY NextSteps, OthersUntouched, AsideUntouched DEF Untouched, CrashApi, vars
  <1>2. stage[u] \notin {"lookup", "write", "enqueue"}
    BY DEF TypeInv, StageInv
  <1> QED
    BY <1>1, <1>2 DEF StepOf, Serve, Send, FindExistingBatch, InsertBatch, LookupRow, WriteRow,
                CompleteBatch, EnqueueCompletion, FailRow, LoseRowReply, FailUpload, LoseReply,
                AtRow, AllRowsDone

LEMMA FileStays == TypeInv /\ [Next]_vars => file' = file
  <1>1. ASSUME NEW u \in Uploads, StepOf(u) PROVE file' = file
    BY <1>1 DEF StepOf, Serve, Send, FindExistingBatch, InsertBatch, LookupRow, WriteRow,
                CompleteBatch, EnqueueCompletion, FailRow, LoseRowReply, FailUpload, LoseReply,
                Goto, CountError, CountProcessed, NextRow
  <1> QED
    BY <1>1, NextSteps, AsideUntouched DEF CrashApi, vars, uploadVars

LEMMA NextOneBatch ==
    ASSUME TypeInv, OneBatch, [Next]_vars
    PROVE  OneBatch'
  <1> SUFFICES ASSUME NEW u \in Uploads, NEW v \in Uploads, u # v,
                      batches'[u] # Absent, batches'[v] # Absent, file'[u] = file'[v]
               PROVE  FALSE
    BY DEF OneBatch
  <1>1. file[u] = file[v]
    BY FileStays
  <1>2. ASSUME NEW w \in Uploads, NEW x \in Uploads, w # x, file[w] = file[x],
               batches[w] = Absent, batches'[w] # Absent, batches'[x] # Absent
        PROVE  FALSE
    <2>1. BatchesOf(file[w]) = {} /\ Begun(w)
      BY <1>2, WhoBegins
    <2>2. batches[x] # Absent
      BY <1>2, <2>1 DEF Begun
    <2>3. batches[x].file = file[w]
      BY <1>2, <2>2 DEF TypeInv, StageInv
    <2> QED
      BY <2>1, <2>2, <2>3 DEF BatchesOf
  <1> QED
    BY <1>1, <1>2 DEF OneBatch

\* A signal or a key comes with the completion before it.
LEMMA WhoSignals ==
    ASSUME TypeInv, [Next]_vars, NEW u \in Uploads, signals'[u] # "none" \/ u \in importKeys'
    PROVE  signals[u] # "none" \/ u \in importKeys \/ stage[u] = "enqueue"
  <1>1. ASSUME NEW v \in Uploads, StepOf(v), signals' # signals \/ importKeys' # importKeys
        PROVE  stage[v] = "enqueue" /\ signals' = [signals EXCEPT ![v] = "waiting"]
               /\ importKeys' = importKeys
    BY <1>1 DEF StepOf, Serve, Send, FindExistingBatch, InsertBatch, LookupRow, WriteRow,
                CompleteBatch, EnqueueCompletion, FailRow, LoseRowReply, FailUpload, LoseReply,
                UploadStep, signalVars
  <1>2. ASSUME NEW v \in Uploads, Work(v) \/ FailSignal(v)
        PROVE  /\ signals[v] # "none"
               /\ signals' = [signals EXCEPT ![v] = signals'[v]]
               /\ importKeys' \subseteq importKeys \cup {v}
    BY <1>2 DEF Work, TakeSignal, ProcessSignal, AcknowledgeSignal, RecoverStalled, FailSignal,
                TypeInv, TypeOK, SignalTypeOK
  <1>3. CASE OtherRequest \/ CrashApi \/ UNCHANGED vars
    BY <1>3, EditTypes DEF CrashApi, signalVars, vars
  <1>4. CASE CrashWorker
    BY <1>4 DEF CrashWorker
  <1>5. CASE \E v \in Uploads : StepOf(v)
    BY <1>1, <1>5 DEF TypeInv, TypeOK, SignalTypeOK
  <1>6. CASE \E v \in Uploads : Work(v) \/ FailSignal(v)
    BY <1>2, <1>6 DEF TypeInv, TypeOK, SignalTypeOK
  <1> QED
    BY <1>3, <1>4, <1>5, <1>6, NextSteps DEF Aside

LEMMA NextSignalInv ==
    ASSUME TypeInv, SignalInv, [Next]_vars
    PROVE  SignalInv'
  <1> SUFFICES ASSUME NEW u \in Uploads, signals'[u] # "none" \/ u \in importKeys'
               PROVE  u \in CompletedBatches'
    BY DEF SignalInv
  <1>1. u \in CompletedBatches
    BY WhoSignals DEF SignalInv, CompletedBatches, TypeInv, StageInv
  <1> QED
    BY <1>1, CompletedIsOver DEF CompletedBatches

LEMMA NextFileInv ==
    ASSUME FileInv, [Next]_vars
    PROVE  FileInv'
  BY NextTypeInv, NextWrittenInv, NextOneBatch, NextSignalInv DEF FileInv

\* FileImports' variables, as Promise substitutes them.
Phase == [f \in Files |-> IF BatchesOf(f) = {} THEN "new"
                          ELSE IF BatchesOf(f) \cap CompletedBatches = {} THEN "processing"
                          ELSE "completed"]
Applied == [f \in Files |-> UNION {written[u] : u \in BatchesOf(f)}]
Noted == {f \in Files : BatchesOf(f) \cap importKeys # {}}

LEMMA OneBatchOfFile ==
    ASSUME TypeInv, OneBatch, NEW u \in Uploads, batches[u] # Absent
    PROVE  BatchesOf(file[u]) = {u} /\ file[u] \in Files
  BY DEF TypeInv, TypeOK, UploadTypeOK, StageInv, OneBatch, BatchesOf

LEMMA NoPromiseStep ==
    ASSUME UNCHANGED <<batches, written, importKeys>>
    PROVE  UNCHANGED <<Phase, Applied, Noted>>
  BY DEF Phase, Applied, Noted, BatchesOf, CompletedBatches

LEMMA BeginStep ==
    ASSUME FileInv, NEW u \in Uploads, stage[u] = "insert", BatchesOf(file[u]) = {}, Begun(u),
           UNCHANGED <<file, written, importKeys>>
    PROVE  Promise!Begin(file[u])
  <1> DEFINE f == file[u]
  <1>1. f \in Files /\ batches[u] = Absent
    BY DEF FileInv, TypeInv, TypeOK, UploadTypeOK, StageInv
  <1>2. /\ batches'[u] # Absent /\ batches'[u].file = f /\ batches'[u].status = "PROCESSING"
        /\ \A v \in Uploads \ {u} : batches'[v] = batches[v]
    BY <1>1, Present DEF Begun, Batch, FileInv, TypeInv, TypeOK, TableTypeOK
  <1>3. CompletedBatches' = CompletedBatches /\ u \notin CompletedBatches
    BY <1>1, <1>2 DEF CompletedBatches
  <1>4. BatchesOf(f)' = {u} /\ \A g \in Files \ {f} : BatchesOf(g)' = BatchesOf(g)
    BY <1>1, <1>2 DEF BatchesOf
  <1>5. written[u] = {} /\ u \notin importKeys
    <2>1. row[u] = 1 /\ written[u] \subseteq 1..(row[u] - 1)
      BY <1>1 DEF FileInv, WrittenInv, CompleteInv, CountInv
    <2> QED
      BY <2>1, <1>1 DEF FileInv, SignalInv, CompletedBatches
  <1>6. Phase[f] = "new" /\ Phase' = [Phase EXCEPT ![f] = "processing"]
    BY <1>1, <1>3, <1>4 DEF Phase
  <1>7. Applied' = Applied
    BY <1>1, <1>4, <1>5 DEF Applied
  <1>8. Noted' = Noted
    BY <1>1, <1>4, <1>5 DEF Noted
  <1> QED
    BY <1>6, <1>7, <1>8 DEF Promise!Begin, Phase, Applied, Noted

LEMMA ApplyStep ==
    ASSUME FileInv, NEW u \in Uploads, stage[u] = "write", Upserted(u),
           UNCHANGED <<file, batches, importKeys>>
    PROVE  \E i \in 1..Length(file[u]) : Promise!Apply(file[u], i)
  <1> DEFINE f == file[u]
  <1>1. /\ batches[u] # Absent /\ u \notin CompletedBatches
        /\ row[u] \in 1..Length(f)
    BY LengthType
    DEF FileInv, TypeInv, TypeOK, UploadTypeOK, StageInv, CompletedBatches
  <1>2. BatchesOf(f) = {u} /\ f \in Files
    BY <1>1, OneBatchOfFile DEF FileInv
  <1>3. Phase[f] = "processing" /\ Phase' = Phase
    BY <1>1, <1>2 DEF Phase, BatchesOf, CompletedBatches
  <1>4. /\ written'[u] = written[u] \cup {row[u]}
        /\ \A v \in Uploads \ {u} : written'[v] = written[v]
    BY DEF Upserted, FileInv, TypeInv, TypeOK, UploadTypeOK
  <1>5. \A k \in written[u] : k < row[u]
    BY <1>1 DEF FileInv, WrittenInv, CountInv
  <1>6. /\ BatchesOf(f)' = {u}
        /\ \A g \in Files \ {f} : BatchesOf(g)' = BatchesOf(g) /\ u \notin BatchesOf(g)
    BY <1>2 DEF BatchesOf, FileInv, TypeInv, StageInv
  <1>7. Applied[f] = written[u] /\ Applied' = [Applied EXCEPT ![f] = @ \cup {row[u]}]
    <2>1. Applied[f] = written[u] /\ Applied'[f] = written'[u]
      BY <1>2, <1>6 DEF Applied
    <2>2. ASSUME NEW g \in Files \ {f} PROVE Applied'[g] = Applied[g]
      <3>1. BatchesOf(g)' = BatchesOf(g) /\ \A v \in BatchesOf(g) : written'[v] = written[v]
        BY <1>4, <1>6 DEF BatchesOf
      <3> QED
        BY <3>1 DEF Applied
    <2> QED
      BY <1>2, <1>4, <2>1, <2>2 DEF Applied
  <1>8. Noted' = Noted
    BY DEF Noted, BatchesOf
  <1>9. PICK i \in 1..Length(f) : i = row[u]
    BY <1>1
  <1>10. Promise!Apply(f, i)
    BY <1>3, <1>5, <1>7, <1>8, <1>9 DEF Promise!Apply, Phase, Applied, Noted
  <1> QED
    BY <1>10

LEMMA CompleteStep ==
    ASSUME FileInv, NEW u \in Uploads, AllRowsDone(u), Completed(u),
           UNCHANGED <<file, written, importKeys>>
    PROVE  Promise!Complete(file[u])
  <1> DEFINE f == file[u]
  <1>1. batches[u] # Absent /\ u \notin CompletedBatches
    BY DEF AllRowsDone, FileInv, TypeInv, StageInv, CompletedBatches
  <1>2. BatchesOf(f) = {u} /\ f \in Files
    BY <1>1, OneBatchOfFile DEF FileInv
  <1>3. /\ batches'[u] # Absent /\ batches'[u].file = f /\ batches'[u].status = "COMPLETED"
        /\ \A v \in Uploads \ {u} : batches'[v] = batches[v]
    <2>1. \A v \in Uploads \ {u} : batches'[v] = batches[v]
      BY DEF Completed, FileInv, TypeInv, TypeOK, TableTypeOK
    <2> QED
      BY <2>1, CompletedTypes, Present DEF FileInv
  <1>4. CompletedBatches' = CompletedBatches \cup {u}
    BY <1>3 DEF CompletedBatches
  <1>5. \A g \in Files : BatchesOf(g)' = BatchesOf(g) /\ (g # f => u \notin BatchesOf(g))
    BY <1>1, <1>2, <1>3 DEF BatchesOf, FileInv, TypeInv, StageInv
  <1>6. Phase[f] = "processing" /\ Phase' = [Phase EXCEPT ![f] = "completed"]
    BY <1>1, <1>2, <1>4, <1>5 DEF Phase
  <1>7. Applied' = Applied /\ Noted' = Noted
    BY <1>5 DEF Applied, Noted
  <1> QED
    BY <1>6, <1>7 DEF Promise!Complete, Phase, Applied, Noted

LEMMA NoteStep ==
    ASSUME FileInv, NEW u \in Uploads, signals[u] # "none", u \notin importKeys,
           importKeys' = importKeys \cup {u}, UNCHANGED <<file, batches, written>>
    PROVE  Promise!Note(file[u])
  <1> DEFINE f == file[u]
  <1>1. batches[u] # Absent /\ u \in CompletedBatches
    BY DEF FileInv, SignalInv, CompletedBatches
  <1>2. BatchesOf(f) = {u} /\ f \in Files
    BY <1>1, OneBatchOfFile DEF FileInv
  <1>3. \A g \in Files : BatchesOf(g)' = BatchesOf(g) /\ (g # f => u \notin BatchesOf(g))
    BY <1>1, <1>2 DEF BatchesOf, FileInv, TypeInv, StageInv
  <1>4. Phase[f] = "completed" /\ UNCHANGED <<Phase, Applied>>
    BY <1>1, <1>2 DEF Phase, Applied, BatchesOf, CompletedBatches
  <1>5. f \notin Noted /\ Noted' = Noted \cup {f}
    BY <1>2, <1>3 DEF Noted
  <1> QED
    BY <1>4, <1>5 DEF Promise!Note, Phase, Applied, Noted

LEMMA InitPromise == Init => Promise!Init
  BY DEF Init, Promise!Init, BatchesOf

LEMMA UploadPromise ==
    ASSUME FileInv, NEW u \in Uploads, StepOf(u)
    PROVE  [Promise!Next]_<<Phase, Applied, Noted>>
  <1>1. UNCHANGED <<file, importKeys>>
    BY DEF StepOf, Serve, Send, FindExistingBatch, InsertBatch, LookupRow, WriteRow, CompleteBatch,
           EnqueueCompletion, FailRow, LoseRowReply, FailUpload, LoseReply, UploadStep, signalVars,
           Goto, CountError, CountProcessed, NextRow
  <1>2. file[u] \in Files
    BY DEF FileInv, TypeInv, TypeOK, UploadTypeOK
  <1>3. \/ stage[u] = "insert" /\ BatchesOf(file[u]) = {} /\ Begun(u) /\ UNCHANGED written
        \/ stage[u] = "write" /\ Upserted(u) /\ UNCHANGED batches
        \/ AllRowsDone(u) /\ Completed(u) /\ UNCHANGED written
        \/ UNCHANGED <<batches, written>>
    BY DEF StepOf, Serve, Send, FindExistingBatch, InsertBatch, LookupRow, WriteRow, CompleteBatch,
           EnqueueCompletion, FailRow, LoseRowReply, FailUpload, LoseReply, Goto
  <1>4. CASE UNCHANGED <<batches, written>>
    BY <1>1, <1>4, NoPromiseStep
  <1>5. CASE ~UNCHANGED <<batches, written>>
    <2>1. \/ Promise!Begin(file[u]) \/ Promise!Complete(file[u])
          \/ \E i \in 1..Length(file[u]) : Promise!Apply(file[u], i)
      BY <1>1, <1>3, <1>5, BeginStep, ApplyStep, CompleteStep
    <2>2. PICK f \in Files : f = file[u]
      BY <1>2
    <2>3. [g \in Files |-> Length(g)][f] = Length(f)
      OBVIOUS
    <2>4. Promise!Next
      BY <2>1, <2>2, <2>3 DEF Promise!Next
    <2> QED
      BY <2>4
  <1> QED
    BY <1>4, <1>5

LEMMA AsidePromise ==
    ASSUME FileInv, Aside \/ CrashApi \/ UNCHANGED vars
    PROVE  [Promise!Next]_<<Phase, Applied, Noted>>
  <1>1. UNCHANGED <<file, batches, written>>
    BY AsideUntouched DEF CrashApi, vars, uploadVars
  <1>2. ASSUME NEW u \in Uploads, Work(u) \/ FailSignal(u), importKeys' # importKeys
        PROVE  /\ signals[u] # "none" /\ u \notin importKeys
               /\ importKeys' = importKeys \cup {u}
    BY <1>2 DEF Work, TakeSignal, ProcessSignal, AcknowledgeSignal, RecoverStalled, FailSignal
  <1>3. CASE UNCHANGED importKeys
    BY <1>1, <1>3, NoPromiseStep
  <1>4. CASE importKeys' # importKeys
    <2>1. PICK u \in Uploads : Work(u) \/ FailSignal(u)
      BY <1>4, EditTypes DEF Aside, CrashWorker, CrashApi, vars, signalVars, FileInv
    <2>2. Promise!Note(file[u])
      BY <1>1, <1>2, <1>4, <2>1, NoteStep
    <2>3. PICK f \in Files : f = file[u]
      BY DEF FileInv, TypeInv, TypeOK, UploadTypeOK
    <2>4. Promise!Next
      BY <2>2, <2>3 DEF Promise!Next
    <2> QED
      BY <2>4
  <1> QED
    BY <1>3, <1>4

\* However many uploads of a file there are, and whatever edits and faults there are between
\* its transactions, it is begun once, its rows are applied in order and once, and only a
\* complete file is noted by the worker, once.
THEOREM ImplementsPromise == Spec => PromiseSpec
  <1>1. Init => FileInv /\ Promise!Init
    BY InitFileInv, InitPromise
  <1>2. FileInv /\ [Next]_vars => FileInv'
    BY NextFileInv
  <1>3. FileInv /\ [Next]_vars => [Promise!Next]_(Promise!vars)
    BY NextSteps, UploadPromise, AsidePromise DEF Promise!vars, Phase, Applied, Noted
  <1> QED
    BY <1>1, <1>2, <1>3, PTL DEF Spec, PromiseSpec, Promise!Spec

-----------------------------------------------------------------------------
(* How far an upload and its signal are *)

\* The transactions and calls that are left of an upload: two for each row.
UploadLeft(u) ==
    IF stage[u] \in Answered THEN 0
    ELSE IF stage[u] = "enqueue" THEN 1
    ELSE 2 * (Length(file[u]) + 1 - row[u])
         + (IF stage[u] = "unsent" THEN 5 ELSE IF stage[u] = "find" THEN 4
            ELSE IF stage[u] = "insert" THEN 3 ELSE IF stage[u] = "lookup" THEN 2 ELSE 1)

\* The steps that are left of a signal, with all the runs that BullMQ may still give it.
SignalLeft(u) ==
    4 * (MaxStalledCount - stalls[u])
    + (IF signals[u] = "none" THEN 5 ELSE IF signals[u] = "waiting" THEN 4
       ELSE IF signals[u] = "active" THEN 3 ELSE IF signals[u] = "ack" THEN 2
       ELSE IF signals[u] = "stalled" THEN 1 ELSE 0)

LeftAreNatural == \A u \in Uploads : UploadLeft(u) \in Nat /\ SignalLeft(u) \in Nat

UploadsRunDown == \A u \in Uploads : UploadLeft(u)' < UploadLeft(u) \/ Untouched(u)
SignalsRunDown ==
    \A u \in Uploads : SignalLeft(u)' < SignalLeft(u) \/ UNCHANGED <<signals[u], stalls[u]>>

LEMMA LeftTypes == TypeInv => LeftAreNatural
  <1> SUFFICES ASSUME TypeInv, NEW u \in Uploads
               PROVE  UploadLeft(u) \in Nat /\ SignalLeft(u) \in Nat
    BY DEF LeftAreNatural
  <1>1. /\ row[u] \in Nat /\ Length(file[u]) \in Nat /\ row[u] <= Length(file[u]) + 1
        /\ stalls[u] \in 0..MaxStalledCount
    BY LengthType DEF TypeInv, TypeOK, UploadTypeOK, SignalTypeOK, StageInv
  <1> QED
    BY <1>1, ImportsBoundsAssumption DEF UploadLeft, SignalLeft

\* A step that takes an upload from one stage to a later one, at the same row.
LEMMA LaterStage ==
    ASSUME TypeInv, NEW u \in Uploads, file'[u] = file[u], row'[u] = row[u],
           \/ stage[u] = "unsent" /\ stage'[u] = "find"
           \/ stage[u] = "find" /\ stage'[u] = "insert"
           \/ stage[u] = "insert" /\ stage'[u] = "lookup"
           \/ stage[u] = "lookup" /\ stage'[u] \in {"write", "enqueue"}
           \/ stage[u] \in Running \ {"write"} /\ stage'[u] \in Answered
    PROVE  UploadLeft(u)' < UploadLeft(u)
  <1>1. row[u] \in Nat /\ Length(file[u]) \in Nat /\ row[u] <= Length(file[u]) + 1
    BY LengthType DEF TypeInv, TypeOK, UploadTypeOK, StageInv
  <1>2. Length(file[u])' = Length(file[u])
    BY DEF Length
  <1> QED
    BY <1>1, <1>2 DEF UploadLeft

LEMMA NextRowRunsDown ==
    ASSUME TypeInv, NEW u \in Uploads, NextRow(u), stage[u] = "write" \/ AtRow(u)
    PROVE  UploadLeft(u)' < UploadLeft(u)
  <1>1. /\ row[u] \in Nat /\ Length(file[u]) \in Nat /\ row[u] <= Length(file[u])
        /\ stage[u] \in {"lookup", "write"}
    BY LengthType DEF TypeInv, TypeOK, UploadTypeOK, StageInv, AtRow
  <1>2. /\ Length(file[u])' = Length(file[u]) /\ row'[u] = row[u] + 1 /\ stage'[u] = "lookup"
    BY DEF Length, NextRow, TypeInv, TypeOK, UploadTypeOK
  <1> QED
    BY <1>1, <1>2 DEF UploadLeft

LEMMA StepRunsDown ==
    ASSUME TypeInv, NEW u \in Uploads, StepOf(u)
    PROVE  UploadLeft(u)' < UploadLeft(u)
  <1> USE DEF TypeInv, TypeOK, UploadTypeOK
  <1>1. CASE Send(u)
    BY <1>1, LaterStage DEF Send, Goto
  <1>2. CASE FindExistingBatch(u)
    BY <1>2, LaterStage DEF FindExistingBatch, Goto
  <1>3. CASE InsertBatch(u)
    BY <1>3, LaterStage DEF InsertBatch, Goto
  <1>4. CASE LookupRow(u)
    BY <1>4, LaterStage, NextRowRunsDown DEF LookupRow, AtRow, CountError
  <1>5. CASE WriteRow(u)
    BY <1>5, NextRowRunsDown DEF WriteRow, CountError, CountProcessed
  <1>6. CASE CompleteBatch(u)
    BY <1>6, LaterStage DEF CompleteBatch, AllRowsDone, Goto
  <1>7. CASE EnqueueCompletion(u)
    BY <1>7, LaterStage DEF EnqueueCompletion, Goto
  <1>8. CASE FailRow(u)
    BY <1>8, NextRowRunsDown DEF FailRow, CountError
  <1>9. CASE LoseRowReply(u)
    BY <1>9, NextRowRunsDown DEF LoseRowReply, CountError
  <1>10. CASE FailUpload(u)
    BY <1>10, LaterStage DEF FailUpload, AllRowsDone, Goto
  <1>11. CASE LoseReply(u)
    BY <1>11, LaterStage DEF LoseReply, AllRowsDone, Goto
  <1> QED
    BY <1>1, <1>2, <1>3, <1>4, <1>5, <1>6, <1>7, <1>8, <1>9, <1>10, <1>11 DEF StepOf, Serve

LEMMA CrashRunsDown ==
    ASSUME TypeInv, CrashApi, NEW u \in Uploads
    PROVE  UploadLeft(u)' < UploadLeft(u) \/ Untouched(u)
  <1>1. CASE stage[u] \in Running
    <2>1. /\ row[u] \in Nat /\ Length(file[u]) \in Nat /\ row[u] <= Length(file[u]) + 1
          /\ stage'[u] = "failed"
      BY <1>1, LengthType DEF CrashApi, TypeInv, TypeOK, UploadTypeOK, StageInv
    <2> QED
      BY <1>1, <2>1 DEF UploadLeft
  <1>2. CASE stage[u] \notin Running
    BY <1>2 DEF CrashApi, Untouched
  <1> QED
    BY <1>1, <1>2

LEMMA NextUploadsRunDown == TypeInv /\ [Next]_vars => UploadsRunDown
  <1> SUFFICES ASSUME TypeInv, [Next]_vars, NEW u \in Uploads
               PROVE  UploadLeft(u)' < UploadLeft(u) \/ Untouched(u)
    BY DEF UploadsRunDown
  <1>1. CASE UNCHANGED vars
    BY <1>1 DEF vars, uploadVars, Untouched
  <1>2. CASE Next
    BY <1>2, NextSteps, StepRunsDown, OthersUntouched, AsideUntouched, CrashRunsDown
  <1> QED
    BY <1>1, <1>2

\* An upload that is not over has sent no signal.
SignalledOnce == \A u \in Uploads : stage[u] \notin Answered => signals[u] = "none"

\* What a step does to the signal of one upload.
SignalRests(u) == UNCHANGED <<signals[u], stalls[u]>>
SignalSent(u) ==
    /\ stage[u] = "enqueue" /\ stage'[u] \in Answered
    /\ signals'[u] = "waiting" /\ stalls'[u] = stalls[u]
SignalMoves(u) ==
    /\ signals[u] # "none" /\ signals'[u] # "none"
    /\ SignalLeft(u)' < SignalLeft(u)

LEMMA WorkMovesSignal ==
    ASSUME TypeInv, NEW u \in Uploads, Work(u) \/ FailSignal(u)
    PROVE  SignalMoves(u) /\ \A v \in Uploads \ {u} : SignalRests(v)
  <1> USE DEF TypeInv, TypeOK, SignalTypeOK
  <1>0. stalls[u] \in Nat /\ MaxStalledCount \in Nat /\ stalls[u] <= MaxStalledCount
    BY ImportsBoundsAssumption
  <1>1. CASE TakeSignal(u)
    BY <1>0, <1>1 DEF TakeSignal, SignalMoves, SignalRests, SignalLeft
  <1>2. CASE ProcessSignal(u)
    BY <1>0, <1>2 DEF ProcessSignal, SignalMoves, SignalRests, SignalLeft
  <1>3. CASE AcknowledgeSignal(u)
    BY <1>0, <1>3 DEF AcknowledgeSignal, SignalMoves, SignalRests, SignalLeft
  <1>4. CASE RecoverStalled(u)
    BY <1>0, <1>4 DEF RecoverStalled, SignalMoves, SignalRests, SignalLeft
  <1>5. CASE FailSignal(u)
    BY <1>0, <1>5 DEF FailSignal, SignalMoves, SignalRests, SignalLeft
  <1> QED
    BY <1>1, <1>2, <1>3, <1>4, <1>5 DEF Work

LEMMA SignalSteps ==
    ASSUME TypeInv, [Next]_vars, NEW u \in Uploads
    PROVE  SignalRests(u) \/ SignalSent(u) \/ SignalMoves(u)
  <1>1. ASSUME NEW v \in Uploads, StepOf(v) PROVE SignalRests(u) \/ SignalSent(u)
    <2>1. \/ UNCHANGED <<signals, stalls>>
          \/ /\ stage[v] = "enqueue" /\ UNCHANGED stalls /\ stage'[v] \in Answered
             /\ signals' = [signals EXCEPT ![v] = "waiting"]
      BY <1>1 DEF StepOf, Serve, Send, FindExistingBatch, InsertBatch, LookupRow, WriteRow,
             CompleteBatch, EnqueueCompletion, FailRow, LoseRowReply, FailUpload, LoseReply,
             UploadStep, signalVars, Goto, TypeInv, TypeOK, UploadTypeOK
    <2> QED
      BY <2>1 DEF SignalRests, SignalSent, TypeInv, TypeOK, SignalTypeOK
  <1>2. ASSUME NEW v \in Uploads, Work(v) \/ FailSignal(v)
        PROVE  SignalRests(u) \/ SignalMoves(u)
    BY <1>2, WorkMovesSignal
  <1>3. CASE CrashWorker
    <2>1. stalls' = stalls /\ signals'[u] = IF signals[u] \in {"active", "ack"} THEN "stalled"
                                           ELSE signals[u]
      BY <1>3 DEF CrashWorker
    <2>2. stalls[u] \in Nat /\ MaxStalledCount \in Nat
      BY ImportsBoundsAssumption DEF TypeInv, TypeOK, SignalTypeOK
    <2> QED
      BY <2>1, <2>2 DEF SignalRests, SignalMoves, SignalLeft
  <1>4. CASE OtherRequest \/ CrashApi \/ UNCHANGED vars
    BY <1>4 DEF OtherRequest, CreateEmployee, PatchEmployee, ArchiveEmployee, ChangeTenant, Edit,
           CrashApi, vars, signalVars, SignalRests
  <1> QED
    BY <1>1, <1>2, <1>3, <1>4, NextSteps DEF Aside

LEMMA NextSignalledOnce == TypeInv /\ SignalledOnce /\ [Next]_vars => SignalledOnce'
  <1> SUFFICES ASSUME TypeInv, SignalledOnce, [Next]_vars,
                      NEW u \in Uploads, stage'[u] \notin Answered
               PROVE  signals'[u] = "none"
    BY DEF SignalledOnce
  <1>1. stage[u] \notin Answered
    <2>1. ASSUME StepOf(u), stage[u] \in Answered PROVE FALSE
      BY <2>1 DEF StepOf, Serve, Send, FindExistingBatch, InsertBatch, LookupRow, WriteRow,
             CompleteBatch, EnqueueCompletion, FailRow, LoseRowReply, FailUpload, LoseReply,
             AtRow, AllRowsDone
    <2>2. StepOf(u) \/ Untouched(u) \/ CrashApi
      BY NextSteps, OthersUntouched, AsideUntouched DEF vars, uploadVars, Untouched
    <2> QED
      BY <2>1, <2>2 DEF Untouched, CrashApi
  <1> QED
    BY <1>1, SignalSteps DEF SignalledOnce, SignalRests, SignalSent, SignalMoves

LEMMA NextSignalsRunDown == TypeInv /\ SignalledOnce /\ [Next]_vars => SignalsRunDown
  <1> SUFFICES ASSUME TypeInv, SignalledOnce, [Next]_vars, NEW u \in Uploads, ~SignalRests(u)
               PROVE  SignalLeft(u)' < SignalLeft(u)
    BY DEF SignalsRunDown, SignalRests
  <1>1. CASE SignalSent(u)
    <2>1. signals[u] = "none"
      BY <1>1 DEF SignalSent, SignalledOnce
    <2>2. stalls[u] \in Nat /\ MaxStalledCount \in Nat
      BY ImportsBoundsAssumption DEF TypeInv, TypeOK, SignalTypeOK
    <2> QED
      BY <1>1, <2>1, <2>2 DEF SignalSent, SignalLeft
  <1> QED
    BY <1>1, SignalSteps DEF SignalMoves

\* An upload ends after two steps for each row of its file and five more, and its signal
\* after four for each run that BullMQ may give it: every step, fault or crash leaves
\* fewer to make and none adds any, so that no file and no crash keeps either going for ever.
THEOREM ImportsRunDown ==
    Spec => []LeftAreNatural /\ [][UploadsRunDown /\ SignalsRunDown]_vars
  <1>1. Init => TypeInv /\ SignalledOnce
    BY InitTypeInv DEF Init, SignalledOnce
  <1>2. TypeInv /\ SignalledOnce /\ [Next]_vars => TypeInv' /\ SignalledOnce'
    BY NextTypeInv, NextSignalledOnce
  <1>3. TypeInv /\ SignalledOnce /\ [Next]_vars => UploadsRunDown /\ SignalsRunDown
    BY NextUploadsRunDown, NextSignalsRunDown
  <1> QED
    BY <1>1, <1>2, <1>3, LeftTypes, PTL DEF Spec

-----------------------------------------------------------------------------
(* Uploads of one file that do not overlap *)

\* No two uploads of one file are under way at the same time.
Apart ==
    \A u, v \in Uploads : stage[u] \in Running /\ stage[v] \in Running /\ file[u] = file[v] => u = v

\* What an upload found when it looked for a batch is still so when it begins its own.
FoundInv == \A u \in Uploads : stage[u] = "insert" => BatchesOf(file[u]) = {}

LEMMA BeginsAtInsert ==
    ASSUME TypeInv, [Next]_vars, NEW u \in Uploads, batches[u] = Absent, batches'[u] # Absent
    PROVE  stage[u] = "insert" /\ stage'[u] # "insert"
  <1>1. StepOf(u)
    BY NextSteps, OthersUntouched, AsideUntouched DEF Untouched, CrashApi, vars
  <1>2. stage[u] \notin {"lookup", "write", "enqueue"}
    BY DEF TypeInv, StageInv
  <1> QED
    BY <1>1, <1>2 DEF StepOf, Serve, Send, FindExistingBatch, InsertBatch, LookupRow, WriteRow,
                CompleteBatch, EnqueueCompletion, FailRow, LoseRowReply, FailUpload, LoseReply,
                AtRow, AllRowsDone, Goto, TypeInv, TypeOK, UploadTypeOK

LEMMA NextFoundInv ==
    ASSUME TypeInv, Apart, FoundInv, [Next]_vars
    PROVE  FoundInv'
  <1> SUFFICES ASSUME NEW u \in Uploads, stage'[u] = "insert" PROVE BatchesOf(file[u])' = {}
    BY DEF FoundInv
  <1>1. file' = file /\ TypeInv'
    BY FileStays, NextTypeInv
  <1>2. \/ stage[u] = "insert"
        \/ stage[u] = "find" /\ BatchesOf(file[u]) = {}
    <2>1. StepOf(u) \/ Untouched(u) \/ CrashApi
      BY NextSteps, OthersUntouched, AsideUntouched DEF vars, uploadVars, Untouched
    <2>2. CASE StepOf(u)
      BY <2>2 DEF StepOf, Serve, Send, FindExistingBatch, InsertBatch, LookupRow, WriteRow,
             CompleteBatch, EnqueueCompletion, FailRow, LoseRowReply, FailUpload, LoseReply,
             Goto, CountError, CountProcessed, NextRow, TypeInv, TypeOK, UploadTypeOK
    <2> QED
      BY <2>1, <2>2 DEF Untouched, CrashApi
  <1>3. BatchesOf(file[u]) = {} /\ stage[u] \in Running
    BY <1>2 DEF FoundInv
  <1>4. ASSUME NEW v \in Uploads, batches'[v] # Absent, batches'[v].file = file[u] PROVE FALSE
    <2>1. file[v] = file[u]
      BY <1>1, <1>4 DEF TypeInv, StageInv
    <2>2. batches[v] = Absent
      BY <1>3, <2>1 DEF BatchesOf, TypeInv, StageInv
    <2>3. stage[v] = "insert" /\ stage'[v] # "insert"
      BY <1>4, <2>2, BeginsAtInsert
    <2> QED
      BY <1>3, <2>1, <2>3 DEF Apart
  <1> QED
    BY <1>1, <1>4 DEF BatchesOf

LEMMA NextReplays ==
    ASSUME TypeInv, FoundInv, SameFileIsReplayed, [Next]_vars
    PROVE  SameFileIsReplayed'
  <1> SUFFICES ASSUME NEW u \in Uploads, stage'[u] = "failed" PROVE faults' > 0
    BY DEF SameFileIsReplayed
  <1>1. faults \in Nat /\ faults' \in Nat /\ faults <= faults'
    BY FaultsGrow
  <1>2. CASE stage[u] = "failed"
    BY <1>1, <1>2 DEF SameFileIsReplayed
  <1>3. CASE stage[u] # "failed"
    <2>1. StepOf(u) \/ CrashApi
      BY <1>3, NextSteps, OthersUntouched, AsideUntouched DEF vars, uploadVars, Untouched
    <2>2. FailUpload(u) \/ LoseReply(u) \/ CrashApi
      BY <1>3, <2>1 DEF StepOf, Serve, Send, FindExistingBatch, InsertBatch, LookupRow, WriteRow,
             CompleteBatch, EnqueueCompletion, FailRow, LoseRowReply, FoundInv,
             Goto, CountError, CountProcessed, NextRow, TypeInv, TypeOK, UploadTypeOK
    <2> QED
      BY <1>1, <2>2 DEF FailUpload, LoseReply, CrashApi, Fault
  <1> QED
    BY <1>2, <1>3

\* While no two uploads of one file are under way together, an upload fails only of a fault:
\* the same file is replayed, or begun once more if its first upload never began a batch.
\* What breaks the promise of ADR-025 and ADR-027, which SameFileIsReplayed states and a run
\* refutes, is an overlap between the search for a batch and its insert, and nothing else.
THEOREM OnlyOverlapsRefuseAFile == Spec /\ []Apart => []SameFileIsReplayed
  <1>1. Init => TypeInv /\ FoundInv /\ SameFileIsReplayed
    BY InitTypeInv DEF Init, FoundInv, SameFileIsReplayed
  <1>2. TypeInv /\ FoundInv /\ SameFileIsReplayed /\ Apart /\ [Next]_vars
        => TypeInv' /\ FoundInv' /\ SameFileIsReplayed'
    BY NextTypeInv, NextFoundInv, NextReplays
  <1> QED
    BY <1>1, <1>2, PTL DEF Spec

-----------------------------------------------------------------------------
(* Batches that nobody completes *)

\* A batch was begun, and the upload that began it is over without completing it.
Abandoned(u) ==
    batches[u] # Absent /\ batches[u].status = "PROCESSING" /\ stage[u] \in Answered

\* What the answer of an upload says of its batch.
AnswerInv ==
    \A u \in Uploads :
        /\ stage[u] = "imported" => u \in CompletedBatches
        /\ stage[u] \in {"replayed", "rejected"} => batches[u] = Absent
        /\ Abandoned(u) => faults > 0

\* Nobody writes, completes or announces anything for a file whose batch was abandoned.
FileIsLost(u) ==
    /\ stage[u] = "failed" /\ faults > 0
    /\ signals[u] = "none" /\ u \notin importKeys
    /\ \A e \in auditEvents : e.batch # u
    /\ \A v \in Uploads : file[v] = file[u] =>
          stage[v] \in {"unsent", "find", "insert", "replayed", "rejected", "failed"}

AbandonedFilesAreLost == \A u \in Uploads : Abandoned(u) => FileIsLost(u)

NothingRevives ==
    \A u \in Uploads : Abandoned(u) =>
        /\ Abandoned(u)'
        /\ batches'[u] = batches[u] /\ BatchesOf(file[u])' = {u}
        /\ \A v \in Uploads : file[v] = file[u] => written'[v] = written[v]

\* An upload that is over takes no step of its own.
LEMMA AnsweredRests ==
    ASSUME TypeInv, [Next]_vars, NEW u \in Uploads, stage[u] \in Answered
    PROVE  Untouched(u)
  <1>1. ~StepOf(u)
    BY DEF StepOf, Serve, Send, FindExistingBatch, InsertBatch, LookupRow, WriteRow,
           CompleteBatch, EnqueueCompletion, FailRow, LoseRowReply, FailUpload, LoseReply,
           AtRow, AllRowsDone
  <1>2. CASE CrashApi
    BY <1>2 DEF CrashApi, Untouched
  <1> QED
    BY <1>1, <1>2, NextSteps, OthersUntouched, AsideUntouched DEF vars, uploadVars, Untouched

\* How a step answers an upload.
LEMMA Answers ==
    ASSUME TypeInv, [Next]_vars, NEW u \in Uploads, stage[u] \notin Answered, stage'[u] \in Answered
    PROVE  \/ /\ stage[u] = "enqueue" /\ stage'[u] = "imported"
              /\ batches'[u] = batches[u]
           \/ /\ stage[u] = "find" /\ stage'[u] \in {"replayed", "rejected"}
              /\ batches'[u] = batches[u]
           \/ stage'[u] = "failed" /\ (batches'[u] = Absent \/ faults' > 0)
  <1>1. StepOf(u) \/ CrashApi
    BY NextSteps, OthersUntouched, AsideUntouched DEF vars, uploadVars, Untouched
  <1>2. Fault => faults' > 0
    BY ImportsBoundsAssumption DEF Fault, TypeInv, TypeOK
  <1>3. CASE FindExistingBatch(u) \/ EnqueueCompletion(u)
    BY <1>3 DEF FindExistingBatch, EnqueueCompletion, Goto, TypeInv, TypeOK, UploadTypeOK
  <1>4. CASE InsertBatch(u)
    BY <1>4 DEF InsertBatch, Goto, TypeInv, TypeOK, UploadTypeOK, StageInv
  <1>5. CASE CompleteBatch(u)
    BY <1>5 DEF CompleteBatch, Goto, TypeInv, TypeOK, UploadTypeOK
  <1>6. CASE Send(u) \/ LookupRow(u) \/ WriteRow(u) \/ FailRow(u) \/ LoseRowReply(u)
    BY <1>6 DEF Send, LookupRow, WriteRow, FailRow, LoseRowReply, Goto, CountError,
                CountProcessed, NextRow, AtRow, TypeInv, TypeOK, UploadTypeOK
  <1>7. CASE FailUpload(u) \/ LoseReply(u)
    BY <1>2, <1>7 DEF FailUpload, LoseReply, Goto, TypeInv, TypeOK, UploadTypeOK
  <1>8. CASE CrashApi
    BY <1>2, <1>8 DEF CrashApi
  <1> QED
    BY <1>1, <1>3, <1>4, <1>5, <1>6, <1>7, <1>8 DEF StepOf, Serve

LEMMA NextAnswerInv ==
    ASSUME TypeInv, AnswerInv, [Next]_vars
    PROVE  AnswerInv'
  <1> SUFFICES ASSUME NEW u \in Uploads, stage'[u] \in Answered
               PROVE  /\ stage'[u] = "imported" => u \in CompletedBatches'
                      /\ stage'[u] \in {"replayed", "rejected"} => batches'[u] = Absent
                      /\ batches'[u] # Absent /\ batches'[u].status = "PROCESSING" => faults' > 0
    BY DEF AnswerInv, Abandoned
  <1>1. CASE stage[u] \in Answered
    <2>1. Untouched(u)
      BY <1>1, AnsweredRests
    <2>2. faults \in Nat /\ faults' \in Nat /\ faults <= faults'
      BY FaultsGrow
    <2> QED
      BY <1>1, <2>1, <2>2 DEF AnswerInv, Abandoned, Untouched, CompletedBatches
  <1>2. CASE stage[u] \notin Answered
    <2>1. CASE stage[u] = "enqueue" /\ stage'[u] = "imported" /\ batches'[u] = batches[u]
      BY <2>1 DEF TypeInv, StageInv, CompletedBatches
    <2>2. CASE stage[u] = "find" /\ stage'[u] \in {"replayed", "rejected"} /\ batches'[u] = batches[u]
      BY <2>2 DEF TypeInv, StageInv
    <2>3. CASE stage'[u] = "failed" /\ (batches'[u] = Absent \/ faults' > 0)
      BY <2>3
    <2> QED
      BY <1>2, <2>1, <2>2, <2>3, Answers
  <1> QED
    BY <1>1, <1>2

\* The batch of an abandoned upload is the only one of its file.
LEMMA AbandonedIsAlone ==
    ASSUME FileInv, NEW u \in Uploads, Abandoned(u), NEW v \in Uploads, file[v] = file[u],
           batches[v] # Absent
    PROVE  v = u
  BY DEF FileInv, OneBatch, Abandoned

LEMMA LostByInvariants == FileInv /\ AnswerInv => AbandonedFilesAreLost
  <1> SUFFICES ASSUME FileInv, AnswerInv, NEW u \in Uploads, Abandoned(u)
               PROVE  FileIsLost(u)
    BY DEF AbandonedFilesAreLost
  <1>1. u \notin CompletedBatches
    BY DEF Abandoned, CompletedBatches
  <1>2. stage[u] = "failed" /\ faults > 0
    BY <1>1 DEF AnswerInv, Abandoned
  <1>3. signals[u] = "none" /\ u \notin importKeys
    BY <1>1 DEF FileInv, SignalInv
  <1>4. \A e \in auditEvents : e.batch # u
    BY <1>1 DEF FileInv, WrittenInv, AuditInv
  <1>5. ASSUME NEW v \in Uploads, file[v] = file[u]
        PROVE  stage[v] \in {"unsent", "find", "insert", "replayed", "rejected", "failed"}
    <2>1. CASE v = u
      BY <1>2, <2>1
    <2>2. CASE v # u
      <3>1. batches[v] = Absent
        BY <1>5, <2>2, AbandonedIsAlone
      <3>2. stage[v] \notin {"lookup", "write", "enqueue", "imported"}
        BY <3>1 DEF FileInv, TypeInv, StageInv, AnswerInv, CompletedBatches
      <3> QED
        BY <3>2 DEF FileInv, TypeInv, TypeOK, UploadTypeOK
    <2> QED
      BY <2>1, <2>2
  <1> QED
    BY <1>2, <1>3, <1>4, <1>5 DEF FileIsLost

\* A row is written by an upload that is at it.
LEMMA OnlyWritersWrite ==
    ASSUME TypeInv, [Next]_vars, NEW v \in Uploads, stage[v] # "write"
    PROVE  written'[v] = written[v]
  <1>1. CASE StepOf(v)
    BY <1>1 DEF StepOf, Serve, Send, FindExistingBatch, InsertBatch, LookupRow, WriteRow,
           CompleteBatch, EnqueueCompletion, FailRow, LoseRowReply, FailUpload, LoseReply, Goto
  <1>2. CASE CrashApi
    BY <1>2 DEF CrashApi
  <1> QED
    BY <1>1, <1>2, NextSteps, OthersUntouched, AsideUntouched DEF vars, uploadVars, Untouched

LEMMA NextRevivesNothing == FileInv /\ AnswerInv /\ [Next]_vars => NothingRevives
  <1> SUFFICES ASSUME FileInv, AnswerInv, [Next]_vars, NEW u \in Uploads, Abandoned(u)
               PROVE  /\ Abandoned(u)'
                      /\ batches'[u] = batches[u] /\ BatchesOf(file[u])' = {u}
                      /\ \A v \in Uploads : file[v] = file[u] => written'[v] = written[v]
    BY DEF NothingRevives
  <1>1. TypeInv /\ FileInv' /\ FileIsLost(u)
    BY NextFileInv, LostByInvariants DEF FileInv, AbandonedFilesAreLost
  <1>2. Untouched(u)
    BY <1>1, AnsweredRests DEF Abandoned
  <1>3. Abandoned(u)' /\ batches'[u] = batches[u] /\ file'[u] = file[u]
    BY <1>2 DEF Abandoned, Untouched
  <1>4. BatchesOf(file[u])' = {u}
    <2>1. TypeInv' /\ OneBatch' /\ batches'[u] # Absent
      BY <1>1, <1>3 DEF FileInv, Abandoned
    <2> QED
      BY <2>1 DEF BatchesOf, OneBatch, TypeInv, StageInv
  <1>5. \A v \in Uploads : file[v] = file[u] => written'[v] = written[v]
    BY <1>1, OnlyWritersWrite DEF FileIsLost
  <1> QED
    BY <1>3, <1>4, <1>5

\* A batch that is begun and not completed when its upload is over stays so for ever, and it
\* takes a fault.  Its file is lost with it: no upload of it writes another row or is answered
\* as imported, its completion is neither audited nor signalled, and what was written stays.
THEOREM AbandonedForGood == Spec => []AbandonedFilesAreLost /\ [][NothingRevives]_vars
  <1>1. Init => FileInv /\ AnswerInv
    BY InitFileInv DEF Init, AnswerInv, Abandoned
  <1>2. FileInv /\ AnswerInv /\ [Next]_vars => FileInv' /\ AnswerInv'
    BY NextFileInv, NextAnswerInv DEF FileInv
  <1> QED
    BY <1>1, <1>2, LostByInvariants, NextRevivesNothing, PTL DEF Spec
=============================================================================
