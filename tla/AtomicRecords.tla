--------------------------- MODULE AtomicRecords ----------------------------
(***************************************************************************)
(* What the API promises of employees and documents, whatever requests     *)
(* run beside each other: a request that succeeds takes effect in one      *)
(* step, on the row as it is then, as if it were alone; one that does not  *)
(* succeed has no effect.  The audit trail grows in that same step, by     *)
(* what it tells of it and by nothing else.  What an ARCHIVED event shows  *)
(* as the row before, and that the employee of a new document is still     *)
(* there, is not promised.                                                 *)
(***************************************************************************)
EXTENDS Integers

CONSTANTS
    Employees, Documents, Fields, Requests,
    Manual,        \* the statuses that are set by hand
    Computed,      \* the statuses that the Expiry Engine computes
    Initial,       \* a column as a POST leaves it
    Absent,        \* no such row
    Unasked        \* a request that has not come yet

VARIABLES
    table,     \* the rows
    request,   \* what each request asks for
    done,      \* the requests that have succeeded
    trail,     \* the audit events
    partial    \* those of them that lost audit events

vars == <<table, request, done, trail, partial>>

RowIds == Employees \cup Documents

Live(id) == table[id] # Absent /\ ~table[id].deleted

New(status) ==
    [version |-> 1, fields |-> [f \in Fields |-> Initial], status |-> status, deleted |-> FALSE]

FirstStatus(id) == IF id \in Employees THEN {"active"} ELSE Computed

Init ==
    /\ \E present \in SUBSET RowIds :
          table = [id \in RowIds |->
                      IF id \notin present THEN Absent
                      ELSE New(IF id \in Employees THEN "active" ELSE "VALID")]
    /\ request = [r \in Requests |-> Unasked]
    /\ done = {} /\ trail = {} /\ partial = {}

Ask(r) ==
    /\ r \notin done
    /\ request' = [request EXCEPT ![r] = request'[r]]
    /\ UNCHANGED <<table, done, trail, partial>>

-----------------------------------------------------------------------------
(* Success *)

\* The trail tells of the change of a row by r: these actions, and the row as it was and is.
Tells(r, actions, row) ==
    LET new == trail' \ trail
    IN  /\ trail \subseteq trail'
        /\ \A e \in new :
              /\ e.request = r /\ e.id = request[r].id /\ e.action \in actions /\ e.after = row
              /\ e.action # "ARCHIVED" => e.before = table[request[r].id]
        /\ partial' \in {partial, partial \cup {r}}
        /\ r \notin partial' => actions = {e.action : e \in new}

Becomes(r, row, actions) ==
    /\ table' = [table EXCEPT ![request[r].id] = row]
    /\ Tells(r, actions, row)
    /\ done' = done \cup {r}
    /\ UNCHANGED request

Create(r) ==
    /\ request[r].op = "create"
    /\ table[request[r].id] = Absent
    /\ \E status \in FirstStatus(request[r].id) : Becomes(r, New(status), {"CREATED"})

\* A status set by hand stays until another is set by hand; that of an employee is not set.
Statuses(ask) ==
    IF ask.id \in Employees THEN {table[ask.id].status}
    ELSE IF ask.override # "none" THEN {ask.override}
    ELSE IF table[ask.id].status \in Manual THEN {table[ask.id].status}
    ELSE Computed

\* The version that was asked for goes over into the next one, and only what was asked
\* for changes in it.
Patch(r) ==
    LET ask == request[r]
        old == table[ask.id]
    IN  /\ ask.op = "update"
        /\ Live(ask.id) /\ old.version = ask.version
        /\ \E status \in Statuses(ask) :
              Becomes(r, [version |-> ask.version + 1,
                          fields |-> [f \in Fields |-> IF f \in ask.patch THEN r ELSE old.fields[f]],
                          status |-> status, deleted |-> FALSE],
                      {"UPDATED"} \cup
                      (IF ask.id \in Documents /\ status # old.status
                       THEN {"EXPIRY_STATUS_CHANGED"} ELSE {}))

Archive(r) ==
    LET id == request[r].id
    IN  /\ request[r].op = "archive"
        /\ Live(id)
        /\ Becomes(r, [table[id] EXCEPT !.deleted = TRUE,
                                        !.status = IF id \in Employees THEN "archived" ELSE @],
                   {"ARCHIVED"})

Next ==
    \E r \in Requests :
        \/ Ask(r)
        \/ r \notin done /\ (Create(r) \/ Patch(r) \/ Archive(r))

Spec == Init /\ [][Next]_vars
=============================================================================
