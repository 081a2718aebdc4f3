------------------------------ MODULE Records -------------------------------
(***************************************************************************)
(* Employees and documents under concurrent API requests: EmployeesService *)
(* and DocumentsService with their optimistic locking, soft deletion and   *)
(* the audit event that AuditService writes inside the same transaction.   *)
(*                                                                         *)
(* A request is a transaction: select, insert or update, audit, commit.    *)
(* Its select sees what is committed; its update waits for the row lock    *)
(* and then tests its WHERE clause on the row as committed by then.        *)
(***************************************************************************)
EXTENDS ExpiryEngine

CONSTANTS
    Employees,          \* employees of one tenant, by employee_code
    Documents,          \* documents
    OwnerOf,            \* documents.employee_id
    Fields,             \* the columns a PATCH may set
    Requests,           \* bound: the requests made
    ComputedStatuses,   \* bound: what the Expiry Engine may compute
    ObservedVersions,   \* do clients send only versions they have read?
    Initial,            \* a column as a POST leaves it
    Absent,             \* no such row
    MaxVersion,         \* bound: the largest version a client sends
    MaxFaults           \* bound: lost connections and refused audit inserts

ASSUME OwnerOfAssumption == OwnerOf \in [Documents -> Employees]
ASSUME RecordsAssumption ==
    /\ Employees \cap Documents = {}
    /\ Absent \notin [version : Nat, fields : [Fields -> Requests \cup {Initial}],
                      status : ExpiryStatus \cup {"active", "archived"}, deleted : BOOLEAN]
ASSUME StatusesAssumption == ComputedStatuses \subseteq ComputedStatus /\ "VALID" \in ComputedStatuses
ASSUME ObservedAssumption == ObservedVersions \in BOOLEAN
ASSUME RecordsBoundsAssumption == MaxFaults \in Nat /\ MaxVersion \in Nat \ {0}

VARIABLES
    table,         \* the committed rows
    request,       \* what each request asks for
    pc,            \* where its transaction is
    before,        \* the row its select returned
    pending,       \* the row it has written and not committed
    recorded,      \* the audit events it has inserted and not committed
    auditEvents,   \* audit_events
    unaudited,     \* history: committed requests that lost an audit event
    faults         \* counter for MaxFaults

vars == <<table, request, pc, before, pending, recorded, auditEvents, unaudited, faults>>

-----------------------------------------------------------------------------
(* Data *)

RowIds == Employees \cup Documents

\* The columns of a row; status is employees.status or documents.expiry_status.
Row == [version : Nat, fields : [Fields -> Requests \cup {Initial}],
        status : ExpiryStatus \cup {"active", "archived"}, deleted : BOOLEAN]

Ask == [op : {"create", "update", "archive"}, id : RowIds, patch : SUBSET Fields,
        version : 1..MaxVersion, override : ManualStatus \cup {"none"}]
NoAsk == [op |-> "none"]

Actions == {"CREATED", "UPDATED", "ARCHIVED", "EXPIRY_STATUS_CHANGED"}
Event == [request : Requests, action : Actions, id : RowIds,
          before : Row \cup {Absent}, after : Row]

Steps == {"idle", "select", "write", "audit", "commit", "done", "refused", "aborted"}

Exists(id) == table[id] # Absent
Live(id) == Exists(id) /\ ~table[id].deleted

\* Mutant: a connection that dies keeps its locks.
LocksForEver(r, id) == pc[r] \in {"audit", "commit", "aborted"} /\ request[r].id = id

\* r has written the row of id and not committed: others wait for it.
Locks(r, id) == pc[r] \in {"audit", "commit"} /\ request[r].id = id

Unlocked(id) == \A r \in Requests : ~Locks(r, id)

\* A version the client can have read in an answer up to now, or any at all. With any at all
\* NoLostUpdate fails: Update tests the version sent and counts from the row selected.
VersionsFor(id) ==
    IF ObservedVersions THEN 1..table[id].version ELSE 1..MaxVersion

-----------------------------------------------------------------------------
(* Requests *)

Submit(r, ask) ==
    /\ pc[r] = "idle"
    /\ ask.op = "update" => Exists(ask.id) /\ ask.version \in VersionsFor(ask.id)
    /\ ask.op # "update" => ask.patch = {} /\ ask.version = 1
    /\ ask.override # "none" => ask.op = "update" /\ ask.id \in Documents
    \* a POST of a document makes a row of its own
    /\ ask.op = "create" /\ ask.id \in Documents =>
          ~Exists(ask.id) /\ ~\E other \in Requests : request[other] # NoAsk /\ request[other].id = ask.id
    /\ pc' = [pc EXCEPT ![r] = "select"]
    /\ request' = [request EXCEPT ![r] = ask]
    /\ UNCHANGED <<table, before, pending, recorded, auditEvents, unaudited, faults>>

End(r, how) ==
    /\ pc' = [pc EXCEPT ![r] = how]
    /\ before' = [before EXCEPT ![r] = Absent]
    /\ pending' = [pending EXCEPT ![r] = Absent]
    /\ recorded' = [recorded EXCEPT ![r] = {}]
    /\ UNCHANGED request

\* The select that opens update and archive; 404 when the row is gone.
Select(r) ==
    /\ pc[r] = "select"
    /\ request[r].op # "create"
    /\ IF Live(request[r].id)
       THEN /\ before' = [before EXCEPT ![r] = table[request[r].id]]
            /\ pc' = [pc EXCEPT ![r] = "write"]
            /\ UNCHANGED <<request, pending, recorded>>
       ELSE End(r, "refused")
    /\ UNCHANGED <<table, auditEvents, unaudited, faults>>

\* A document is created for an employee that is there; an employee is just inserted.
SelectOwner(r) ==
    /\ pc[r] = "select"
    /\ request[r].op = "create"
    /\ IF request[r].id \in Employees \/ Live(OwnerOf[request[r].id])
       THEN pc' = [pc EXCEPT ![r] = "write"] /\ UNCHANGED <<request, before, pending, recorded>>
       ELSE End(r, "refused")
    /\ UNCHANGED <<table, auditEvents, unaudited, faults>>

Wrote(r, row) ==
    /\ pending' = [pending EXCEPT ![r] = row]
    /\ pc' = [pc EXCEPT ![r] = "audit"]
    /\ UNCHANGED <<request, before, recorded>>

\* UNIQUE (tenant_id, employee_code) holds for archived employees too: 409.
Insert(r) ==
    /\ pc[r] = "write"
    /\ request[r].op = "create"
    /\ Unlocked(request[r].id)
    /\ IF Exists(request[r].id) THEN End(r, "refused")
       ELSE \E status \in IF request[r].id \in Employees THEN {"active"} ELSE ComputedStatuses :
               Wrote(r, [version |-> 1, fields |-> [f \in Fields |-> Initial],
                         status |-> status, deleted |-> FALSE])
    /\ UNCHANGED <<table, auditEvents, unaudited, faults>>

\* Mutant: a manual status is computed over.
NextStatusAfresh(ask, row) ==
    IF ask.id \in Employees THEN {row.status}
    ELSE IF ask.override # "none" THEN {ask.override}
    ELSE ComputedStatuses

\* What the Expiry Engine makes of a document; an employee's status is not set.
NextStatus(ask, row) ==
    IF ask.id \in Employees THEN {row.status}
    ELSE IF ask.override # "none" THEN {ask.override}
    ELSE IF row.status \in ManualStatus THEN {row.status}
    ELSE ComputedStatuses

\* Mutant: the version stays as it is.
PatchedSameVersion(r, status) ==
    [version |-> before[r].version,
     fields |-> [f \in Fields |-> IF f \in request[r].patch THEN r ELSE before[r].fields[f]],
     status |-> status, deleted |-> FALSE]

\* Every column is set, from the request or from the row selected before.
Patched(r, status) ==
    [version |-> before[r].version + 1,
     fields |-> [f \in Fields |-> IF f \in request[r].patch THEN r ELSE before[r].fields[f]],
     status |-> status, deleted |-> FALSE]

\* Mutant: the version is compared with the selected row, ahead of the update.
MatchesSelected(r) == Live(request[r].id) /\ before[r].version = request[r].version

\* Mutant: the WHERE clause leaves deleted_at out.
MatchesDeleted(r) == table[request[r].id].version = request[r].version

\* The WHERE clause tests the row as it is now: 409 without a row.
Matches(r) == Live(request[r].id) /\ table[request[r].id].version = request[r].version

Update(r) ==
    /\ pc[r] = "write"
    /\ request[r].op = "update"
    /\ Unlocked(request[r].id)
    /\ IF Matches(r)
       THEN \E status \in NextStatus(request[r], before[r]) : Wrote(r, Patched(r, status))
       ELSE End(r, "refused")
    /\ UNCHANGED <<table, auditEvents, unaudited, faults>>

\* Mutant: the row is deleted for good.
ArchiveHard(r) ==
    /\ pc[r] = "write"
    /\ request[r].op = "archive"
    /\ Unlocked(request[r].id)
    /\ IF Live(request[r].id) THEN Wrote(r, Absent) ELSE End(r, "refused")
    /\ UNCHANGED <<table, auditEvents, unaudited, faults>>

\* Archiving tests no version and leaves it alone: only deleted_at is set (and the
\* status of an employee).
Archive(r) ==
    /\ pc[r] = "write"
    /\ request[r].op = "archive"
    /\ Unlocked(request[r].id)
    /\ IF Live(request[r].id)
       THEN Wrote(r, [table[request[r].id] EXCEPT
                         !.deleted = TRUE,
                         !.status = IF request[r].id \in Employees THEN "archived" ELSE @])
       ELSE End(r, "refused")
    /\ UNCHANGED <<table, auditEvents, unaudited, faults>>

-----------------------------------------------------------------------------
(* Audit and commit *)

EventOf(r, action) ==
    [request |-> r, action |-> action, id |-> request[r].id,
     before |-> before[r], after |-> pending[r]]

\* What the services hand to AuditService.log.
EventsOf(r) ==
    CASE request[r].op = "create" -> {EventOf(r, "CREATED")}
      [] request[r].op = "archive" -> {EventOf(r, "ARCHIVED")}
      [] request[r].op = "update" ->
            {EventOf(r, "UPDATED")} \cup
            (IF request[r].id \in Documents /\ before[r].status # pending[r].status
             THEN {EventOf(r, "EXPIRY_STATUS_CHANGED")} ELSE {})

\* Mutant: the events are written on a connection of their own.
AuditOutside(r) ==
    /\ pc[r] = "audit"
    /\ recorded' = [recorded EXCEPT ![r] = EventsOf(r)]
    /\ auditEvents' = auditEvents \cup EventsOf(r)
    /\ pc' = [pc EXCEPT ![r] = "commit"]
    /\ UNCHANGED <<table, request, before, pending, unaudited, faults>>

\* A refused insert is rolled back to its savepoint, and the request goes on.
Audit(r) ==
    /\ pc[r] = "audit"
    /\ \E events \in SUBSET EventsOf(r) :
          /\ recorded' = [recorded EXCEPT ![r] = events]
          /\ \/ events = EventsOf(r) /\ UNCHANGED faults
             \/ events # EventsOf(r) /\ faults < MaxFaults /\ faults' = faults + 1
    /\ pc' = [pc EXCEPT ![r] = "commit"]
    /\ UNCHANGED <<table, request, before, pending, auditEvents, unaudited>>

Commit(r) ==
    /\ pc[r] = "commit"
    /\ table' = [table EXCEPT ![request[r].id] = pending[r]]
    /\ auditEvents' = auditEvents \cup recorded[r]
    /\ unaudited' = IF recorded[r] = EventsOf(r) THEN unaudited ELSE unaudited \cup {r}
    /\ End(r, "done")
    /\ UNCHANGED faults

\* The connection or the process goes before the commit.
Abort(r) ==
    /\ pc[r] \in {"select", "write", "audit", "commit"}
    /\ faults < MaxFaults
    /\ faults' = faults + 1
    /\ End(r, "aborted")
    /\ UNCHANGED <<table, auditEvents, unaudited>>

-----------------------------------------------------------------------------
(* The specification *)

Fresh(status) == [version |-> 1, fields |-> [f \in Fields |-> Initial],
                  status |-> status, deleted |-> FALSE]

\* Some employees and documents are there already, a document only with its owner.
Init ==
    /\ \E present \in SUBSET RowIds :
          /\ \A d \in Documents \cap present : OwnerOf[d] \in present
          /\ table = [id \in RowIds |->
                         IF id \notin present THEN Absent
                         ELSE Fresh(IF id \in Employees THEN "active" ELSE "VALID")]
    /\ request = [r \in Requests |-> NoAsk]
    /\ pc = [r \in Requests |-> "idle"]
    /\ before = [r \in Requests |-> Absent]
    /\ pending = [r \in Requests |-> Absent]
    /\ recorded = [r \in Requests |-> {}]
    /\ auditEvents = {} /\ unaudited = {} /\ faults = 0

Serve(r) ==
    \/ Select(r) \/ SelectOwner(r)
    \/ Insert(r) \/ Update(r) \/ Archive(r)
    \/ Audit(r) \/ Commit(r)

Next ==
    \/ \E r \in Requests, ask \in Ask : Submit(r, ask)
    \/ \E r \in Requests : Serve(r) \/ Abort(r)

Spec == Init /\ [][Next]_vars

-----------------------------------------------------------------------------
(* Properties *)

TableTypeOK == table \in [RowIds -> Row \cup {Absent}]

RequestTypeOK ==
    /\ request \in [Requests -> Ask \cup {NoAsk}]
    /\ pc \in [Requests -> Steps]
    /\ before \in [Requests -> Row \cup {Absent}]
    /\ pending \in [Requests -> Row \cup {Absent}]
    /\ recorded \in [Requests -> SUBSET Event]

\* Every variable has its type, the events in the log among them.
TypeOK ==
    /\ TableTypeOK /\ RequestTypeOK
    /\ auditEvents \subseteq Event
    /\ unaudited \subseteq Requests
    /\ faults \in 0..MaxFaults

\* Of the PATCHes that name the same version of the same row, at most one succeeds,
\* however they interleave (409 for the others).
OneWinnerPerVersion ==
    \A q, r \in Requests :
        /\ q # r /\ pc[q] = "done" /\ pc[r] = "done"
        /\ request[q].op = "update" /\ request[r].op = "update"
        => request[q].id # request[r].id \/ request[q].version # request[r].version

\* No lost update: a row that changes takes over everything committed before, but for
\* the columns that the request sets, although every column is written from a row that
\* was selected earlier.
NoLostUpdate ==
    [][\A id \in RowIds : Exists(id) => \A f \in Fields :
          table'[id].fields[f] # table[id].fields[f] =>
             \E r \in Requests : /\ pc[r] = "commit" /\ pc'[r] = "done"
                                /\ request[r].id = id /\ f \in request[r].patch]_vars

\* A manual status of a document stays until a request replaces it by another: no
\* request that was computing a status meanwhile overwrites it.
OverrideSticks ==
    [][\A d \in Documents :
          Exists(d) /\ table[d].status \in ManualStatus => table'[d].status \in ManualStatus]_vars

\* An archived row is final: a request that selected it alive does not revive or change it.
ArchivedIsFinal ==
    [][\A id \in RowIds : Exists(id) /\ table[id].deleted => table'[id] = table[id]]_vars

\* The events of a row make one history: an event that starts from version v starts
\* from the very row that the event which led to version v left.
AuditTrailIsOneHistory ==
    \A e, f \in auditEvents :
        /\ e.id = f.id /\ {e.action, f.action} \subseteq {"CREATED", "UPDATED"}
        /\ f.action = "UPDATED" /\ f.before.version = e.after.version
        => f.before = e.after

\* Audit and business commit together: a committed request has its events in the log
\* unless their insert failed, and the log has none of a request that did not commit.
AuditIsAtomic ==
    /\ \A r \in Requests \ unaudited : pc[r] = "done" =>
          \E e \in auditEvents : e.request = r /\ e.action \in {"CREATED", "UPDATED", "ARCHIVED"}
    /\ \A e \in auditEvents : pc[e.request] = "done"


\* A request that has to wait for a row waits for one that can go on: no lock outlives
\* its transaction, and no two transactions wait for each other.
WaitsForOneThatGoesOn ==
    \A r \in Requests :
        pc[r] \in {"select", "write", "audit", "commit"} /\ ~ENABLED Serve(r) =>
            \E q \in Requests : Locks(q, request[r].id) /\ ENABLED Serve(q)

-----------------------------------------------------------------------------
(* Refinement *)

Store == INSTANCE AtomicRecords WITH
    Manual <- ManualStatus,
    Computed <- ComputedStatuses,
    Unasked <- NoAsk,
    done <- {r \in Requests : pc[r] = "done"},
    trail <- auditEvents,
    partial <- unaudited

\* Every request that succeeds takes effect at once, on the row as it is when it commits,
\* although it selected, tested, wrote and audited in steps with others in between.
StoreSpec == Store!Spec
=============================================================================
