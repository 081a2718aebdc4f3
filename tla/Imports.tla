------------------------------ MODULE Imports -------------------------------
(***************************************************************************)
(* The bulk import of employees of one tenant.  ImportService looks for a  *)
(* batch of the same file, begins one, upserts the employees row by row,   *)
(* each row in transactions of its own, completes the batch and sends a    *)
(* signal to the queue imports, where the worker claims a key for it.      *)
(* Other requests edit the employees meanwhile, and processes crash.       *)
(***************************************************************************)
EXTENDS Integers, Sequences, FiniteSets

CONSTANTS
    Uploads,           \* bound: the uploads made; an upload names its batch too
    Files,             \* contents, by their hash
    RowsOf,            \* the rows of a file: an employee code each, or Malformed
    Codes,             \* employee codes
    Malformed,         \* a row that createEmployeeSchema refuses
    Absent,            \* no such row
    MaxImportRows,     \* the row limit of a file
    MaxStalledCount,   \* BullMQ: times a job may stall before it is failed
    MaxEdits,          \* bound: edits by other requests
    MaxFaults          \* bound: crashes and database or Redis errors

ASSUME RowsAssumption == RowsOf \in [Files -> Seq(Codes \cup {Malformed})]
ASSUME NamesAssumption ==
    /\ Malformed \notin Codes /\ "api" \notin Uploads
    /\ Absent \notin [version : Nat, deleted : BOOLEAN, by : Uploads \cup {"api"}]
    /\ Absent \notin [file : Files, status : {"PROCESSING", "COMPLETED"},
                      processedRows : Nat, errorRows : Nat]
ASSUME ImportsBoundsAssumption ==
    MaxImportRows \in Nat /\ MaxStalledCount \in Nat /\ MaxEdits \in Nat /\ MaxFaults \in Nat

VARIABLES
    employees,      \* employees, committed rows
    batches,        \* import_batches
    auditEvents,    \* audit_events: the IMPORT_BATCH_COMPLETED
    importKeys,     \* idempotency_keys: the batches whose signal was processed
    tenantActive,   \* tenants.status = 'active'
    file,           \* what an upload brings
    stage,          \* where an upload is
    row,            \* the row it has come to
    seen,           \* the employee that its lookup returned
    processed,      \* rows it counts as processed
    errors,         \* rows it counts as errors
    signals,        \* the queue imports
    stalls,         \* how often each of its jobs has stalled
    written,        \* history: the rows of an upload that changed an employee
    edits, faults   \* counters for MaxEdits and MaxFaults

uploadVars == <<file, stage, row, seen, processed, errors, written>>
signalVars == <<importKeys, signals, stalls>>
vars == <<employees, batches, auditEvents, tenantActive, uploadVars, signalVars, edits, faults>>

-----------------------------------------------------------------------------
(* Data *)

Employee == [version : Nat, deleted : BOOLEAN, by : Uploads \cup {"api"}]

Batch == [file : Files, status : {"PROCESSING", "COMPLETED"},
          processedRows : Nat, errorRows : Nat]

Outcomes == {"SUCCESS", "PARTIAL", "FAILED"}

Running == {"find", "insert", "lookup", "write", "enqueue"}
Answered == {"imported", "replayed", "rejected", "failed"}
Stages == {"unsent"} \cup Running \cup Answered

SignalStates == {"none", "waiting", "active", "ack", "stalled", "completed", "failed"}

Length(f) == Len(RowsOf[f])

\* Else the parser answers 400: no such sheet or column, no row, or too many.
Readable(f) == Length(f) \in 1..MaxImportRows

Code(u) == RowsOf[file[u]][row[u]]

BatchesOf(f) == {u \in Uploads : batches[u] # Absent /\ batches[u].file = f}

Archived(c) == employees[c] # Absent /\ employees[c].deleted

Live(c) == employees[c] # Absent /\ ~employees[c].deleted

-----------------------------------------------------------------------------
(* Other requests: one step each, Records opens them up *)

Edit ==
    /\ edits < MaxEdits
    /\ edits' = edits + 1
    /\ UNCHANGED <<batches, auditEvents, uploadVars, signalVars, faults>>

CreateEmployee(c) ==
    /\ Edit
    /\ employees[c] = Absent
    /\ employees' = [employees EXCEPT ![c] = [version |-> 1, deleted |-> FALSE, by |-> "api"]]
    /\ UNCHANGED tenantActive

PatchEmployee(c) ==
    /\ Edit
    /\ Live(c)
    /\ employees' = [employees EXCEPT ![c] =
           [version |-> @.version + 1, deleted |-> FALSE, by |-> "api"]]
    /\ UNCHANGED tenantActive

\* The version stays.
ArchiveEmployee(c) ==
    /\ Edit
    /\ Live(c)
    /\ employees' = [employees EXCEPT ![c] =
           [version |-> @.version, deleted |-> TRUE, by |-> "api"]]
    /\ UNCHANGED tenantActive

ChangeTenant ==
    /\ Edit
    /\ tenantActive' = ~tenantActive
    /\ UNCHANGED employees

-----------------------------------------------------------------------------
(* An upload *)

UploadStep == UNCHANGED <<tenantActive, signalVars, edits>>

Goto(u, s) ==
    /\ stage' = [stage EXCEPT ![u] = s]
    /\ UNCHANGED <<file, row, seen, processed, errors, written>>

Send(u) ==
    /\ stage[u] = "unsent"
    /\ Goto(u, "find")
    /\ UploadStep /\ UNCHANGED <<employees, batches, auditEvents, faults>>

FindExistingBatch(u) ==
    /\ stage[u] = "find"
    /\ Goto(u, IF BatchesOf(file[u]) # {} THEN "replayed"
               ELSE IF Readable(file[u]) THEN "insert" ELSE "rejected")
    /\ UploadStep /\ UNCHANGED <<employees, batches, auditEvents, faults>>

Begun(u) ==
    batches' = [batches EXCEPT ![u] = [file |-> file[u], status |-> "PROCESSING",
                                       processedRows |-> 0, errorRows |-> 0]]

\* Mutant: the index on the hash is not unique.
InsertAnyBatch(u) ==
    /\ stage[u] = "insert"
    /\ Begun(u) /\ Goto(u, "lookup")
    /\ UploadStep /\ UNCHANGED <<employees, auditEvents, faults>>

\* UNIQUE (tenant_id, file_hash): nothing catches the violation, the answer is 500.
InsertBatch(u) ==
    /\ stage[u] = "insert"
    /\ IF BatchesOf(file[u]) = {} THEN Begun(u) /\ Goto(u, "lookup")
       ELSE UNCHANGED batches /\ Goto(u, "failed")
    /\ UploadStep /\ UNCHANGED <<employees, auditEvents, faults>>

NextRow(u) ==
    /\ stage' = [stage EXCEPT ![u] = "lookup"]
    /\ row' = [row EXCEPT ![u] = @ + 1]
    /\ seen' = [seen EXCEPT ![u] = Absent]
    /\ UNCHANGED file

CountError(u) ==
    /\ NextRow(u)
    /\ errors' = [errors EXCEPT ![u] = @ + 1]
    /\ UNCHANGED processed

\* The number of a row stands for the row itself in written.
CountProcessed(u) ==
    /\ NextRow(u)
    /\ processed' = [processed EXCEPT ![u] = @ + 1]
    /\ UNCHANGED errors

AtRow(u) == stage[u] = "lookup" /\ row[u] <= Length(file[u])

\* Mutant: a malformed row is passed over without being counted.
PassOverMalformed(u) ==
    /\ AtRow(u)
    /\ IF Code(u) = Malformed
       THEN NextRow(u) /\ UNCHANGED <<errors, processed>>
       ELSE IF Archived(Code(u)) THEN CountError(u)
       ELSE /\ seen' = [seen EXCEPT ![u] = employees[Code(u)]]
            /\ stage' = [stage EXCEPT ![u] = "write"]
            /\ UNCHANGED <<file, row, processed, errors>>
    /\ UploadStep /\ UNCHANGED <<employees, batches, auditEvents, written, faults>>

\* Mutant: the loop does not get past a malformed row.
StayAtMalformed(u) ==
    /\ AtRow(u) /\ Code(u) # Malformed
    /\ IF Archived(Code(u)) THEN CountError(u)
       ELSE /\ seen' = [seen EXCEPT ![u] = employees[Code(u)]]
            /\ stage' = [stage EXCEPT ![u] = "write"]
            /\ UNCHANGED <<file, row, processed, errors>>
    /\ UploadStep /\ UNCHANGED <<employees, batches, auditEvents, written, faults>>

\* The transaction that looks up the employee of the row, archived ones included.
LookupRow(u) ==
    /\ AtRow(u)
    /\ IF Code(u) = Malformed \/ Archived(Code(u))
       THEN CountError(u)
       ELSE /\ seen' = [seen EXCEPT ![u] = employees[Code(u)]]
            /\ stage' = [stage EXCEPT ![u] = "write"]
            /\ UNCHANGED <<file, row, processed, errors>>
    /\ UploadStep /\ UNCHANGED <<employees, batches, auditEvents, written, faults>>

\* Mutant: update leaves the version out of its WHERE clause.
AcceptsAnyVersion(u) == IF seen[u] = Absent THEN employees[Code(u)] = Absent ELSE Live(Code(u))

\* Mutant: update leaves deleted_at out.
AcceptsArchived(u) ==
    IF seen[u] = Absent THEN employees[Code(u)] = Absent
    ELSE employees[Code(u)].version = seen[u].version

\* EmployeesService.create refuses a code that is taken; update wants the version that
\* the lookup returned, on a row that is not archived.
Accepts(u) ==
    IF seen[u] = Absent THEN employees[Code(u)] = Absent
    ELSE Live(Code(u)) /\ employees[Code(u)].version = seen[u].version

Upserted(u) ==
    /\ employees' = [employees EXCEPT ![Code(u)] =
           [version |-> IF @ = Absent THEN 1 ELSE @.version + 1, deleted |-> FALSE, by |-> u]]
    /\ written' = [written EXCEPT ![u] = @ \cup {row[u]}]

WriteRow(u) ==
    /\ stage[u] = "write"
    /\ IF Accepts(u) THEN Upserted(u) /\ CountProcessed(u)
       ELSE CountError(u) /\ UNCHANGED <<employees, written>>
    /\ UploadStep /\ UNCHANGED <<batches, auditEvents, faults>>

\* Mutant: the outcome looks at the processed rows alone.
OutcomeByProcessed(u) == IF processed[u] > 0 THEN "SUCCESS" ELSE "FAILED"

Outcome(u) ==
    IF errors[u] = 0 THEN "SUCCESS" ELSE IF processed[u] = 0 THEN "FAILED" ELSE "PARTIAL"

AllRowsDone(u) == stage[u] = "lookup" /\ row[u] > Length(file[u])

\* Mutant: the outcome goes into the column status.
OutcomeAsStatus(u) ==
    batches' = [batches EXCEPT ![u] =
        [file |-> @.file, status |-> Outcome(u),
         processedRows |-> processed[u], errorRows |-> errors[u]]]

Completed(u) ==
    batches' = [batches EXCEPT ![u] =
        [file |-> @.file, status |-> "COMPLETED",
         processedRows |-> processed[u], errorRows |-> errors[u]]]

EventOf(u) == [batch |-> u, outcome |-> Outcome(u)]

\* A refused audit insert is rolled back to its savepoint, and the batch completes.
CompleteBatch(u) ==
    /\ AllRowsDone(u)
    /\ Completed(u) /\ Goto(u, "enqueue")
    /\ \/ auditEvents' = auditEvents \cup {EventOf(u)} /\ UNCHANGED faults
       \/ faults < MaxFaults /\ faults' = faults + 1 /\ UNCHANGED auditEvents
    /\ UploadStep /\ UNCHANGED employees

EnqueueCompletion(u) ==
    /\ stage[u] = "enqueue"
    /\ signals' = [signals EXCEPT ![u] = "waiting"]
    /\ Goto(u, "imported")
    /\ UNCHANGED <<employees, batches, auditEvents, tenantActive, importKeys, stalls, edits, faults>>

-----------------------------------------------------------------------------
(* The worker: the transaction of a job looks up tenant and key and claims *)
(* the key if it is not there.                                             *)

SignalStep == UNCHANGED <<employees, batches, auditEvents, tenantActive, uploadVars, edits>>

TakeSignal(u) ==
    /\ signals[u] = "waiting"
    /\ signals' = [signals EXCEPT ![u] = "active"]
    /\ SignalStep /\ UNCHANGED <<importKeys, stalls, faults>>

\* Mutant: the signal of a suspended tenant goes back to the queue.
ProcessSignalLater(u) ==
    /\ signals[u] = "active"
    /\ IF tenantActive
       THEN /\ importKeys' = importKeys \cup {u}
            /\ signals' = [signals EXCEPT ![u] = "ack"]
       ELSE UNCHANGED importKeys /\ signals' = [signals EXCEPT ![u] = "waiting"]
    /\ SignalStep /\ UNCHANGED <<stalls, faults>>

ProcessSignal(u) ==
    /\ signals[u] = "active"
    /\ IF tenantActive
       THEN /\ importKeys' = importKeys \cup {u}
            /\ signals' = [signals EXCEPT ![u] = "ack"]
       ELSE UNCHANGED importKeys /\ signals' = [signals EXCEPT ![u] = "failed"]
    /\ SignalStep /\ UNCHANGED <<stalls, faults>>

AcknowledgeSignal(u) ==
    /\ signals[u] = "ack"
    /\ signals' = [signals EXCEPT ![u] = "completed"]
    /\ SignalStep /\ UNCHANGED <<importKeys, stalls, faults>>

RecoverStalled(u) ==
    /\ signals[u] = "stalled"
    /\ IF stalls[u] < MaxStalledCount
       THEN /\ signals' = [signals EXCEPT ![u] = "waiting"]
            /\ stalls' = [stalls EXCEPT ![u] = @ + 1]
       ELSE signals' = [signals EXCEPT ![u] = "failed"] /\ UNCHANGED stalls
    /\ SignalStep /\ UNCHANGED <<importKeys, faults>>

-----------------------------------------------------------------------------
(* Faults *)

Fault ==
    /\ faults < MaxFaults
    /\ faults' = faults + 1
    /\ UNCHANGED <<tenantActive, edits>>

\* An error while a row is looked up or written is caught and counted.
FailRow(u) ==
    /\ Fault
    /\ stage[u] = "write" \/ (AtRow(u) /\ Code(u) # Malformed)
    /\ CountError(u)
    /\ UNCHANGED <<employees, batches, auditEvents, written, signalVars>>

\* The row is committed but its answer is lost: counted as an error all the same.
LoseRowReply(u) ==
    /\ Fault
    /\ stage[u] = "write" /\ Accepts(u)
    /\ Upserted(u) /\ CountError(u)
    /\ UNCHANGED <<batches, auditEvents, signalVars>>

\* An error anywhere else ends the upload with 500.
FailUpload(u) ==
    /\ Fault
    /\ stage[u] \in {"find", "insert", "enqueue"} \/ AllRowsDone(u)
    /\ Goto(u, "failed")
    /\ UNCHANGED <<employees, batches, auditEvents, signalVars>>

\* What begins, completes or announces a batch is done but its answer is lost.
LoseReply(u) ==
    /\ Fault
    /\ \/ /\ stage[u] = "insert" /\ BatchesOf(file[u]) = {} /\ Begun(u)
          /\ UNCHANGED <<auditEvents, signals>>
       \/ /\ AllRowsDone(u) /\ Completed(u)
          /\ auditEvents' = auditEvents \cup {EventOf(u)}
          /\ UNCHANGED signals
       \/ /\ stage[u] = "enqueue"
          /\ signals' = [signals EXCEPT ![u] = "waiting"]
          /\ UNCHANGED <<batches, auditEvents>>
    /\ Goto(u, "failed")
    /\ UNCHANGED <<employees, importKeys, stalls>>

CrashApi ==
    /\ Fault
    /\ \E u \in Uploads : stage[u] \in Running
    /\ stage' = [u \in Uploads |-> IF stage[u] \in Running THEN "failed" ELSE stage[u]]
    /\ UNCHANGED <<employees, batches, auditEvents, file, row, seen, processed, errors, written,
                   signalVars>>

CrashWorker ==
    /\ Fault
    /\ \E u \in Uploads : signals[u] \in {"active", "ack"}
    /\ signals' = [u \in Uploads |-> IF signals[u] \in {"active", "ack"} THEN "stalled"
                                     ELSE signals[u]]
    /\ UNCHANGED <<employees, batches, auditEvents, uploadVars, importKeys, stalls>>

\* A statement fails, or only the answer of the commit is lost: attempts is 1.
FailSignal(u) ==
    /\ Fault
    /\ signals[u] = "active"
    /\ signals' = [signals EXCEPT ![u] = "failed"]
    /\ UNCHANGED importKeys \/ (tenantActive /\ importKeys' = importKeys \cup {u})
    /\ UNCHANGED <<employees, batches, auditEvents, uploadVars, stalls>>

-----------------------------------------------------------------------------
(* The specification *)

Init ==
    /\ \E present \in SUBSET Codes :
          employees = [c \in Codes |->
              IF c \in present THEN [version |-> 1, deleted |-> FALSE, by |-> "api"] ELSE Absent]
    /\ batches = [u \in Uploads |-> Absent]
    /\ auditEvents = {} /\ importKeys = {} /\ tenantActive = TRUE
    /\ file \in [Uploads -> Files]
    /\ stage = [u \in Uploads |-> "unsent"]
    /\ row = [u \in Uploads |-> 1]
    /\ seen = [u \in Uploads |-> Absent]
    /\ processed = [u \in Uploads |-> 0]
    /\ errors = [u \in Uploads |-> 0]
    /\ signals = [u \in Uploads |-> "none"]
    /\ stalls = [u \in Uploads |-> 0]
    /\ written = [u \in Uploads |-> {}]
    /\ edits = 0 /\ faults = 0

Serve(u) ==
    \/ FindExistingBatch(u) \/ InsertBatch(u)
    \/ LookupRow(u) \/ WriteRow(u)
    \/ CompleteBatch(u) \/ EnqueueCompletion(u)

Work(u) == TakeSignal(u) \/ ProcessSignal(u) \/ AcknowledgeSignal(u) \/ RecoverStalled(u)

OtherRequest ==
    \/ \E c \in Codes : CreateEmployee(c) \/ PatchEmployee(c) \/ ArchiveEmployee(c)
    \/ ChangeTenant

Faulty ==
    \/ \E u \in Uploads :
          FailRow(u) \/ LoseRowReply(u) \/ FailUpload(u) \/ LoseReply(u) \/ FailSignal(u)
    \/ CrashApi
    \/ CrashWorker

Next ==
    \/ \E u \in Uploads : Send(u) \/ Serve(u) \/ Work(u)
    \/ OtherRequest
    \/ Faulty

Spec == Init /\ [][Next]_vars

\* An upload up to its batch, which takes the database alone.
ServeFile(u) == stage[u] # "enqueue" /\ Serve(u)

\* API and worker keep serving what they have begun; Compose restarts a process that died. The
\* worker's part has it that Redis, which hands it the signals, is there from time to time.
FairSpec == Spec /\ \A u \in Uploads : WF_vars(ServeFile(u)) /\ WF_vars(Work(u))

\* Redis answers the API in the end: enqueueCompletion waits for it as long as that takes.
RedisAnswers == \A u \in Uploads : WF_vars(EnqueueCompletion(u))

-----------------------------------------------------------------------------
(* Properties *)

TableTypeOK ==
    /\ employees \in [Codes -> Employee \cup {Absent}]
    /\ batches \in [Uploads -> Batch \cup {Absent}]
    /\ auditEvents \subseteq [batch : Uploads, outcome : Outcomes]
    /\ importKeys \subseteq Uploads
    /\ tenantActive \in BOOLEAN

UploadTypeOK ==
    /\ file \in [Uploads -> Files]
    /\ stage \in [Uploads -> Stages]
    /\ row \in [Uploads -> Nat \ {0}]
    /\ seen \in [Uploads -> Employee \cup {Absent}]
    /\ processed \in [Uploads -> Nat] /\ errors \in [Uploads -> Nat]
    /\ written \in [Uploads -> SUBSET Nat]

SignalTypeOK ==
    /\ signals \in [Uploads -> SignalStates]
    /\ stalls \in [Uploads -> 0..MaxStalledCount]

\* Every variable has its type, whatever uploads, edits and faults do.
TypeOK ==
    /\ TableTypeOK /\ UploadTypeOK /\ SignalTypeOK
    /\ edits \in 0..MaxEdits /\ faults \in 0..MaxFaults

CompletedBatches == {u \in Uploads : batches[u] # Absent /\ batches[u].status = "COMPLETED"}

\* The counts of a completed batch are true: each row is counted once, a row that
\* counts as processed was written, and one that was written but counts as an error
\* takes a lost answer.
CountsAreTrue ==
    \A u \in CompletedBatches :
        /\ batches[u].processedRows + batches[u].errorRows = Length(batches[u].file)
        /\ batches[u].processedRows <= Cardinality(written[u])
        /\ Cardinality(written[u]) <= batches[u].processedRows + faults

\* The audit trail says SUCCESS only of a batch whose every row was written.
SuccessMeansWritten ==
    \A e \in auditEvents : e.outcome = "SUCCESS" =>
        written[e.batch] = 1..Length(batches[e.batch].file)

\* The row of an employee that an upload replaces is the very row that it looked up,
\* although anyone may have committed between its two transactions.
ReplacesWhatItSaw ==
    [][\A u \in Uploads :
          written'[u] # written[u] => employees[Code(u)] = seen[u]]_vars

\* No row of a file revives or changes an archived employee, not even one that was
\* archived after it was looked up.
ArchivedStaysArchived ==
    [][\A c \in Codes : Archived(c) => employees'[c] = employees[c]]_vars

\* The imports keep the promises of FileImports.
Promise == INSTANCE FileImports WITH
    Size <- [f \in Files |-> Length(f)],
    phase <- [f \in Files |-> IF BatchesOf(f) = {} THEN "new"
                              ELSE IF BatchesOf(f) \cap CompletedBatches = {} THEN "processing"
                              ELSE "completed"],
    applied <- [f \in Files |-> UNION {written[u] : u \in BatchesOf(f)}],
    noted <- {f \in Files : BatchesOf(f) \cap importKeys # {}}

PromiseSpec == Promise!Spec

\* Every upload is answered, if Redis takes the signal that ends it.
EveryUploadEnds ==
    RedisAnswers => \A u \in Uploads : stage[u] # "unsent" ~> stage[u] \in Answered

\* The worker comes to an end with every signal.
EverySignalEnds == \A u \in Uploads : signals[u] # "none" ~> signals[u] \in {"completed", "failed"}

-----------------------------------------------------------------------------
(* What the repository says and the code does not do *)

\* ADR-025, ADR-027: uploading the same file again returns the existing batch.
SameFileIsReplayed == \A u \in Uploads : stage[u] = "failed" => faults > 0
=============================================================================
