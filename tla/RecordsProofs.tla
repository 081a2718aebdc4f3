--------------------------- MODULE RecordsProofs ----------------------------
(***************************************************************************)
(* Theorems about employees and documents under concurrent requests, for   *)
(* any number of rows, columns, requests and faults.                       *)
(***************************************************************************)
EXTENDS Records, TLAPS

-----------------------------------------------------------------------------
(* Transactions *)

\* What the row was found to be when the request wrote it, and still is.
Allows(r) ==
    IF request[r].op = "create" THEN ~Exists(request[r].id) ELSE Live(request[r].id)

RequestInv(r) ==
    /\ pc[r] # "idle" => request[r] \in Ask
    /\ pc[r] \in {"write", "audit", "commit"} /\ request[r].op # "create" => before[r] \in Row
    /\ pc[r] \in {"audit", "commit"} => pending[r] \in Row /\ Allows(r)
    /\ pc[r] = "commit" => recorded[r] \subseteq EventsOf(r)

\* A row lock has one holder.
OneHolder ==
    \A q, r \in Requests :
        /\ pc[q] \in {"audit", "commit"} /\ pc[r] \in {"audit", "commit"}
        /\ request[q].id = request[r].id
        => q = r

TypeInv ==
    /\ TypeOK
    /\ \A r \in Requests : RequestInv(r)
    /\ OneHolder
    /\ AuditIsAtomic

\* What a step of k leaves alone.
Kept(r) ==
    /\ pc'[r] = pc[r] /\ request'[r] = request[r]
    /\ before'[r] = before[r] /\ pending'[r] = pending[r] /\ recorded'[r] = recorded[r]

Moves(k) == \A r \in Requests \ {k} : Kept(r)

Calm == UNCHANGED <<table, auditEvents, unaudited>>

LEMMA EndMoves ==
    ASSUME TypeOK, NEW k \in Requests, NEW how \in {"done", "refused", "aborted"}, End(k, how)
    PROVE  /\ Moves(k) /\ RequestTypeOK'
           /\ pc'[k] = how /\ request'[k] = request[k]
BY DEF TypeOK, RequestTypeOK, End, Moves, Kept, Steps

LEMMA WroteMoves ==
    ASSUME TypeOK, NEW k \in Requests, NEW row \in Row \cup {Absent}, Wrote(k, row)
    PROVE  /\ Moves(k) /\ RequestTypeOK'
           /\ pc'[k] = "audit" /\ request'[k] = request[k]
           /\ before'[k] = before[k] /\ pending'[k] = row
BY DEF TypeOK, RequestTypeOK, Wrote, Moves, Kept, Steps

LEMMA EventsAreEvents ==
    ASSUME NEW r \in Requests, TypeOK, request[r] \in Ask, pending[r] \in Row
    PROVE  EventsOf(r) \subseteq Event
<1>1. before[r] \in Row \cup {Absent} /\ request[r].id \in RowIds
  BY DEF TypeOK, RequestTypeOK, Ask
<1>2. \A action \in Actions : EventOf(r, action) \in Event
  BY <1>1 DEF EventOf, Event
<1>3. request[r].op \in {"create", "update", "archive"}
  BY DEF Ask
<1> QED
  BY <1>2, <1>3 DEF EventsOf, Actions

LEMMA KeptInv ==
    ASSUME NEW r \in Requests, RequestInv(r), Kept(r),
           pc[r] \in {"audit", "commit"} => table'[request[r].id] = table[request[r].id]
    PROVE  RequestInv(r)'
<1>1. EventsOf(r)' = EventsOf(r)
  BY DEF Kept, EventsOf, EventOf
<1>2. pc[r] \in {"audit", "commit"} => Allows(r)' = Allows(r)
  BY DEF Kept, Allows, Live, Exists
<1> QED
  BY <1>1, <1>2 DEF RequestInv, Kept

\* A step that commits nothing.
LEMMA CalmStep ==
    ASSUME TypeInv, NEW k \in Requests, Moves(k), Calm, RequestTypeOK', faults' \in 0..MaxFaults,
           RequestInv(k)', pc[k] # "done", pc'[k] # "done",
           pc'[k] \in {"audit", "commit"} =>
               /\ request'[k] = request[k]
               /\ pc[k] \in {"audit", "commit"} \/ Unlocked(request[k].id)
    PROVE  TypeInv'
<1>1. TypeOK'
  BY DEF TypeInv, TypeOK, TableTypeOK, Calm
<1>2. ASSUME NEW r \in Requests PROVE RequestInv(r)'
  <2>1. CASE r = k
    BY <2>1
  <2>2. CASE r # k
    BY <2>2, KeptInv DEF TypeInv, Moves, Calm
  <2> QED
    BY <2>1, <2>2
<1>3. OneHolder'
  <2> SUFFICES ASSUME NEW q \in Requests, NEW r \in Requests,
                      pc'[q] \in {"audit", "commit"}, pc'[r] \in {"audit", "commit"},
                      request'[q].id = request'[r].id, q # r
               PROVE  FALSE
    BY DEF OneHolder
  <2>1. CASE q # k /\ r # k
    BY <2>1 DEF TypeInv, OneHolder, Moves, Kept
  <2>2. CASE q = k
    BY <2>2 DEF TypeInv, OneHolder, Moves, Kept, Unlocked, Locks
  <2>3. CASE r = k
    BY <2>3 DEF TypeInv, OneHolder, Moves, Kept, Unlocked, Locks
  <2> QED
    BY <2>1, <2>2, <2>3
<1>4. AuditIsAtomic'
  <2>1. \A r \in Requests : pc'[r] = "done" <=> pc[r] = "done"
    BY DEF Moves, Kept
  <2>2. \A e \in auditEvents : e.request \in Requests
    BY DEF TypeInv, TypeOK, Event
  <2> QED
    BY <2>1, <2>2 DEF TypeInv, AuditIsAtomic, Calm
<1> QED
  BY <1>1, <1>2, <1>3, <1>4 DEF TypeInv

LEMMA TypeInvInit == Init => TypeInv
<1> SUFFICES ASSUME Init PROVE TypeInv
  OBVIOUS
<1>1. Fresh("active") \in Row /\ Fresh("VALID") \in Row
  BY DEF Fresh, Row, ExpiryStatus, ComputedStatus
<1>2. TableTypeOK
  BY <1>1 DEF Init, TableTypeOK
<1>3. RequestTypeOK
  BY DEF Init, RequestTypeOK, Steps
<1>4. TypeOK
  BY <1>2, <1>3, RecordsBoundsAssumption DEF Init, TypeOK
<1> QED
  BY <1>4 DEF Init, TypeInv, RequestInv, OneHolder, AuditIsAtomic

LEMMA SubmitType ==
    ASSUME TypeInv, NEW k \in Requests, NEW ask \in Ask, Submit(k, ask) PROVE TypeInv'
<1>1. /\ Moves(k) /\ Calm /\ pc[k] = "idle" /\ pc'[k] = "select" /\ request'[k] = ask
      /\ faults' = faults
  BY DEF TypeInv, TypeOK, RequestTypeOK, Submit, Moves, Kept, Calm
<1>2. RequestTypeOK'
  BY DEF TypeInv, TypeOK, RequestTypeOK, Submit, Steps
<1>3. RequestInv(k)'
  BY <1>1 DEF RequestInv
<1> QED
  BY <1>1, <1>2, <1>3, CalmStep DEF TypeInv, TypeOK

LEMMA SelectType ==
    ASSUME TypeInv, NEW k \in Requests, Select(k) \/ SelectOwner(k) PROVE TypeInv'
<1>1. Calm /\ faults' = faults /\ pc[k] = "select" /\ request[k] \in Ask
  BY DEF TypeInv, RequestInv, Select, SelectOwner, Calm
<1>2. CASE End(k, "refused")
  <2>1. RequestInv(k)'
    BY <1>1, <1>2, EndMoves DEF TypeInv, RequestInv
  <2> QED
    BY <1>1, <1>2, <2>1, EndMoves, CalmStep DEF TypeInv, TypeOK
<1>3. CASE ~End(k, "refused")
  <2>1. Moves(k) /\ RequestTypeOK' /\ pc'[k] = "write" /\ request'[k] = request[k]
    <3>1. CASE Select(k)
      <4>1. table[request[k].id] \in Row \cup {Absent}
        BY <1>1 DEF TypeInv, TypeOK, TableTypeOK, Ask
      <4> QED
        BY <1>3, <3>1, <4>1 DEF Select, TypeInv, TypeOK, RequestTypeOK, Moves, Kept, Steps
    <3>2. CASE SelectOwner(k)
      BY <1>3, <3>2 DEF SelectOwner, TypeInv, TypeOK, RequestTypeOK, Moves, Kept, Steps
    <3> QED
      BY <3>1, <3>2
  <2>2. request[k].op # "create" => before'[k] \in Row
    <3> SUFFICES ASSUME request[k].op # "create" PROVE before'[k] \in Row
      OBVIOUS
    <3>1. before'[k] = table[request[k].id] /\ Live(request[k].id)
      BY <1>3 DEF Select, SelectOwner, TypeInv, TypeOK, RequestTypeOK
    <3> QED
      BY <1>1, <3>1 DEF TypeInv, TypeOK, TableTypeOK, Ask, Live, Exists
  <2>3. RequestInv(k)'
    BY <1>1, <2>1, <2>2 DEF RequestInv
  <2> QED
    BY <1>1, <2>1, <2>3, CalmStep DEF TypeInv, TypeOK
<1> QED
  BY <1>2, <1>3

\* What a write makes of a row.
FirstStatuses(id) == IF id \in Employees THEN {"active"} ELSE ComputedStatuses

LEMMA InsertedRow ==
    ASSUME NEW id \in RowIds, NEW status \in FirstStatuses(id)
    PROVE  Fresh(status) \in Row
<1>1. status \in ExpiryStatus \cup {"active", "archived"}
  BY StatusesAssumption DEF ExpiryStatus, FirstStatuses
<1> QED
  BY <1>1 DEF Row, Fresh

LEMMA PatchedRow ==
    ASSUME TypeOK, NEW k \in Requests, request[k] \in Ask, before[k] \in Row,
           NEW status \in NextStatus(request[k], before[k])
    PROVE  /\ Patched(k, status) \in Row
           /\ Patched(k, status).version = before[k].version + 1
           /\ Patched(k, status).status = status
           /\ \A f \in Fields \ request[k].patch : Patched(k, status).fields[f] = before[k].fields[f]
<1>1. status \in ExpiryStatus \cup {"active", "archived"}
  <2>1. before[k].status \in ExpiryStatus \cup {"active", "archived"}
    BY DEF Row
  <2>2. request[k].override \in ManualStatus \cup {"none"}
    BY DEF Ask
  <2> QED
    BY <2>1, <2>2, StatusesAssumption DEF NextStatus, ExpiryStatus
<1>2. before[k].version \in Nat /\ \A f \in Fields : before[k].fields[f] \in Requests \cup {Initial}
  BY DEF Row
<1> QED
  BY <1>1, <1>2 DEF Patched, Row

ArchivedRow(id) ==
    [table[id] EXCEPT !.deleted = TRUE,
                      !.status = IF id \in Employees THEN "archived" ELSE @]

LEMMA ArchivedRowIsRow ==
    ASSUME NEW id \in RowIds, table[id] \in Row
    PROVE  /\ ArchivedRow(id) \in Row
           /\ ArchivedRow(id).deleted
           /\ ArchivedRow(id).version = table[id].version
           /\ ArchivedRow(id).fields = table[id].fields
           /\ id \notin Employees => ArchivedRow(id).status = table[id].status
BY DEF ArchivedRow, Row

\* What a write that succeeds finds and leaves.
Writes(k) ==
    \/ /\ request[k].op = "create" /\ ~Exists(request[k].id)
       /\ \E status \in FirstStatuses(request[k].id) : pending'[k] = Fresh(status)
    \/ /\ request[k].op = "update" /\ Matches(k)
       /\ \E status \in NextStatus(request[k], before[k]) : pending'[k] = Patched(k, status)
    \/ /\ request[k].op = "archive" /\ Live(request[k].id)
       /\ pending'[k] = ArchivedRow(request[k].id)

LEMMA WriteEffect ==
    ASSUME TypeInv, NEW k \in Requests, Insert(k) \/ Update(k) \/ Archive(k)
    PROVE  /\ Calm /\ faults' = faults /\ pc[k] = "write" /\ request[k] \in Ask
           /\ Unlocked(request[k].id)
           /\ \/ End(k, "refused")
              \/ Writes(k) /\ \E row \in Row : Wrote(k, row)
<1>1. Calm /\ faults' = faults /\ pc[k] = "write" /\ request[k] \in Ask /\ Unlocked(request[k].id)
  BY DEF TypeInv, RequestInv, Insert, Update, Archive, Calm
<1>2. request[k].id \in RowIds
  BY <1>1 DEF Ask
<1>3. table[request[k].id] \in Row \cup {Absent}
  BY <1>2 DEF TypeInv, TypeOK, TableTypeOK
<1>4. \A row : Wrote(k, row) => pending'[k] = row
  BY DEF Wrote, TypeInv, TypeOK, RequestTypeOK
<1>5. CASE Insert(k)
  <2> SUFFICES ASSUME ~End(k, "refused")
               PROVE  Writes(k) /\ \E row \in Row : Wrote(k, row)
    BY <1>1
  <2>1. PICK status \in FirstStatuses(request[k].id) : Wrote(k, Fresh(status))
    BY <1>5 DEF Insert, Fresh, FirstStatuses
  <2>2. request[k].op = "create" /\ ~Exists(request[k].id)
    BY <1>5 DEF Insert
  <2> QED
    BY <1>2, <1>4, <2>1, <2>2, InsertedRow DEF Writes
<1>6. CASE Update(k)
  <2> SUFFICES ASSUME ~End(k, "refused")
               PROVE  Writes(k) /\ \E row \in Row : Wrote(k, row)
    BY <1>1
  <2>1. PICK status \in NextStatus(request[k], before[k]) : Wrote(k, Patched(k, status))
    BY <1>6 DEF Update
  <2>2. request[k].op = "update" /\ Matches(k)
    BY <1>6 DEF Update
  <2>3. before[k] \in Row
    BY <1>1, <2>2 DEF TypeInv, RequestInv
  <2>4. Patched(k, status) \in Row
    BY <1>1, <2>3, PatchedRow DEF TypeInv
  <2> QED
    BY <1>4, <2>1, <2>2, <2>4 DEF Writes
<1>7. CASE Archive(k)
  <2> SUFFICES ASSUME ~End(k, "refused")
               PROVE  Writes(k) /\ \E row \in Row : Wrote(k, row)
    BY <1>1
  <2>1. Wrote(k, ArchivedRow(request[k].id)) /\ request[k].op = "archive" /\ Live(request[k].id)
    BY <1>7 DEF Archive, ArchivedRow
  <2>2. ArchivedRow(request[k].id) \in Row
    BY <1>2, <1>3, <2>1, ArchivedRowIsRow DEF Live, Exists
  <2> QED
    BY <1>4, <2>1, <2>2 DEF Writes
<1> QED
  BY <1>1, <1>5, <1>6, <1>7

LEMMA WriteType ==
    ASSUME TypeInv, NEW k \in Requests, Insert(k) \/ Update(k) \/ Archive(k) PROVE TypeInv'
<1>1. /\ Calm /\ faults' = faults /\ pc[k] = "write" /\ request[k] \in Ask
      /\ Unlocked(request[k].id)
  BY WriteEffect
<1>2. CASE End(k, "refused")
  <2>1. RequestInv(k)'
    BY <1>1, <1>2, EndMoves DEF TypeInv, RequestInv
  <2> QED
    BY <1>1, <1>2, <2>1, EndMoves, CalmStep DEF TypeInv, TypeOK
<1>3. ASSUME Writes(k), NEW row \in Row, Wrote(k, row) PROVE TypeInv'
  <2>1. /\ Moves(k) /\ RequestTypeOK' /\ pc'[k] = "audit" /\ request'[k] = request[k]
        /\ before'[k] = before[k] /\ pending'[k] = row
    BY <1>3, WroteMoves DEF TypeInv
  <2>2. Allows(k)'
    BY <1>1, <1>3, <2>1 DEF Writes, Matches, Allows, Live, Exists, Calm
  <2>3. RequestInv(k)'
    BY <1>1, <2>1, <2>2 DEF TypeInv, RequestInv
  <2> QED
    BY <1>1, <2>1, <2>3, CalmStep DEF TypeInv, TypeOK
<1> QED
  BY <1>2, <1>3, WriteEffect

LEMMA AuditType ==
    ASSUME TypeInv, NEW k \in Requests, Audit(k) PROVE TypeInv'
<1>1. /\ Calm /\ pc[k] = "audit" /\ request[k] \in Ask /\ pending[k] \in Row
  BY DEF TypeInv, RequestInv, Audit, Calm
<1>2. PICK events \in SUBSET EventsOf(k) :
         /\ recorded' = [recorded EXCEPT ![k] = events]
         /\ \/ UNCHANGED faults
            \/ faults < MaxFaults /\ faults' = faults + 1
  BY DEF Audit
<1>3. events \subseteq Event
  BY <1>1, <1>2, EventsAreEvents DEF TypeInv
<1>4. /\ Moves(k) /\ pc'[k] = "commit" /\ request' = request /\ before' = before
      /\ pending' = pending /\ recorded'[k] = events
  BY <1>2 DEF TypeInv, TypeOK, RequestTypeOK, Audit, Moves, Kept
<1>5. RequestTypeOK'
  BY <1>2, <1>3 DEF TypeInv, TypeOK, RequestTypeOK, Audit, Steps
<1>6. EventsOf(k)' = EventsOf(k)
  BY <1>4 DEF EventsOf, EventOf
<1>7. Allows(k)' = Allows(k)
  BY <1>1, <1>4 DEF Allows, Live, Exists, Calm
<1>8. RequestInv(k)'
  BY <1>1, <1>4, <1>6, <1>7 DEF TypeInv, RequestInv
<1>9. faults' \in 0..MaxFaults
  BY <1>2, RecordsBoundsAssumption DEF TypeInv, TypeOK
<1> QED
  BY <1>1, <1>4, <1>5, <1>8, <1>9, CalmStep

LEMMA AbortType ==
    ASSUME TypeInv, NEW k \in Requests, Abort(k) PROVE TypeInv'
<1>1. Calm /\ pc[k] \in {"select", "write", "audit", "commit"} /\ request[k] \in Ask /\ End(k, "aborted")
  BY DEF TypeInv, RequestInv, Abort, Calm
<1>2. RequestInv(k)'
  BY <1>1, EndMoves DEF TypeInv, RequestInv
<1>3. faults' \in 0..MaxFaults
  BY RecordsBoundsAssumption DEF TypeInv, TypeOK, Abort
<1> QED
  BY <1>1, <1>2, <1>3, EndMoves, CalmStep DEF TypeInv

LEMMA CommitEffect ==
    ASSUME TypeInv, NEW k \in Requests, Commit(k)
    PROVE  /\ pc[k] = "commit" /\ pc'[k] = "done"
           /\ request[k] \in Ask /\ request'[k] = request[k] /\ Moves(k) /\ RequestTypeOK'
           /\ pending[k] \in Row /\ Allows(k)
           /\ table'[request[k].id] = pending[k]
           /\ \A id \in RowIds \ {request[k].id} : table'[id] = table[id]
           /\ TableTypeOK'
           /\ recorded[k] \subseteq EventsOf(k) /\ recorded[k] \subseteq Event
           /\ auditEvents' = auditEvents \cup recorded[k]
           /\ unaudited' = IF recorded[k] = EventsOf(k) THEN unaudited ELSE unaudited \cup {k}
           /\ faults' = faults
<1>1. /\ pc[k] = "commit" /\ request[k] \in Ask /\ pending[k] \in Row /\ Allows(k)
      /\ recorded[k] \subseteq EventsOf(k)
  BY DEF TypeInv, RequestInv, Commit
<1>2. Moves(k) /\ RequestTypeOK' /\ pc'[k] = "done" /\ request'[k] = request[k]
  BY EndMoves DEF TypeInv, Commit
<1>3. /\ table'[request[k].id] = pending[k]
      /\ \A id \in RowIds \ {request[k].id} : table'[id] = table[id]
      /\ TableTypeOK'
  BY <1>1 DEF Commit, TypeInv, TypeOK, TableTypeOK, Ask
<1>4. recorded[k] \subseteq Event
  BY DEF TypeInv, TypeOK, RequestTypeOK
<1> QED
  BY <1>1, <1>2, <1>3, <1>4 DEF Commit

\* The row that a commit replaces is locked by nobody else.
LEMMA CommitSpares ==
    ASSUME TypeInv, NEW k \in Requests, Commit(k), NEW r \in Requests \ {k},
           pc[r] \in {"audit", "commit"}
    PROVE  request[r].id # request[k].id /\ table'[request[r].id] = table[request[r].id]
<1>1. request[r].id # request[k].id
  BY CommitEffect DEF TypeInv, OneHolder
<1>2. request[r].id \in RowIds
  BY DEF TypeInv, RequestInv, Ask
<1> QED
  BY <1>1, <1>2, CommitEffect

LEMMA EventShape ==
    ASSUME NEW r \in Requests, request[r] \in Ask, NEW e \in EventsOf(r)
    PROVE  \E action \in Actions :
              /\ e = EventOf(r, action)
              /\ action = "CREATED" => request[r].op = "create"
              /\ action = "UPDATED" => request[r].op = "update"
<1>1. request[r].op \in {"create", "update", "archive"}
  BY DEF Ask
<1>2. CASE request[r].op = "create"
  BY <1>2 DEF EventsOf, Actions
<1>3. CASE request[r].op = "archive"
  BY <1>3 DEF EventsOf, Actions
<1>4. CASE request[r].op = "update"
  BY <1>4 DEF EventsOf, Actions
<1> QED
  BY <1>1, <1>2, <1>3, <1>4

LEMMA EventFields ==
    ASSUME NEW r \in Requests, request[r] \in Ask, NEW e \in EventsOf(r)
    PROVE  /\ e.request = r /\ e.id = request[r].id
           /\ e.before = before[r] /\ e.after = pending[r]
           /\ e.action = "CREATED" => request[r].op = "create"
           /\ e.action = "UPDATED" => request[r].op = "update"
BY EventShape DEF EventOf

LEMMA EventOfOperation ==
    ASSUME NEW r \in Requests, request[r] \in Ask
    PROVE  \E e \in EventsOf(r) : e.action \in {"CREATED", "UPDATED", "ARCHIVED"}
<1>1. request[r].op \in {"create", "update", "archive"}
  BY DEF Ask
<1>2. \E action \in {"CREATED", "UPDATED", "ARCHIVED"} : EventOf(r, action) \in EventsOf(r)
  BY <1>1 DEF EventsOf
<1>3. \A action : EventOf(r, action).action = action
  BY DEF EventOf
<1> QED
  BY <1>2, <1>3

LEMMA CommitType ==
    ASSUME TypeInv, NEW k \in Requests, Commit(k) PROVE TypeInv'
<1>1. TypeOK'
  BY CommitEffect DEF TypeInv, TypeOK
<1>2. ASSUME NEW r \in Requests PROVE RequestInv(r)'
  <2>1. CASE r = k
    BY <2>1, CommitEffect DEF RequestInv
  <2>2. CASE r # k
    BY <2>2, CommitEffect, CommitSpares, KeptInv DEF TypeInv, Moves
  <2> QED
    BY <2>1, <2>2
<1>3. OneHolder'
  BY CommitEffect DEF TypeInv, OneHolder, Moves, Kept
<1>4. AuditIsAtomic'
  <2>1. \A r \in Requests : pc[r] = "done" => pc'[r] = "done"
    BY CommitEffect DEF Moves, Kept
  <2>2. ASSUME NEW e \in auditEvents' PROVE pc'[e.request] = "done"
    <3>1. CASE e \in auditEvents
      <4>1. pc[e.request] = "done" /\ e.request \in Requests
        BY <3>1 DEF TypeInv, TypeOK, Event, AuditIsAtomic
      <4> QED
        BY <2>1, <4>1
    <3>2. CASE e \in recorded[k]
      <4>1. request[k] \in Ask /\ e \in EventsOf(k) /\ pc'[k] = "done"
        BY <3>2, CommitEffect
      <4>2. e.request = k
        BY <4>1, EventFields
      <4> QED
        BY <4>1, <4>2
    <3> QED
      BY <3>1, <3>2, CommitEffect
  <2>3. ASSUME NEW r \in Requests \ unaudited', pc'[r] = "done"
        PROVE  \E e \in auditEvents' : e.request = r /\ e.action \in {"CREATED", "UPDATED", "ARCHIVED"}
    <3>1. CASE r = k
      <4>1. recorded[k] = EventsOf(k)
        BY <2>3, <3>1 DEF Commit
      <4>2. request[k] \in Ask /\ EventsOf(k) \subseteq auditEvents'
        BY <4>1, CommitEffect
      <4>3. PICK e \in EventsOf(k) : e.action \in {"CREATED", "UPDATED", "ARCHIVED"}
        BY <4>2, EventOfOperation
      <4>4. e.request = k
        BY <4>2, EventFields
      <4> QED
        BY <3>1, <4>2, <4>3, <4>4
    <3>2. CASE r # k
      <4>1. pc[r] = "done" /\ r \notin unaudited
        BY <2>3, <3>2, CommitEffect DEF Moves, Kept
      <4> QED
        BY <4>1, CommitEffect DEF TypeInv, AuditIsAtomic
    <3> QED
      BY <3>1, <3>2
  <2> QED
    BY <2>2, <2>3 DEF AuditIsAtomic
<1> QED
  BY <1>1, <1>2, <1>3, <1>4 DEF TypeInv

LEMMA TypeInvNext == TypeInv /\ [Next]_vars => TypeInv'
<1> SUFFICES ASSUME TypeInv, [Next]_vars PROVE TypeInv'
  OBVIOUS
<1>1. CASE UNCHANGED vars
  BY <1>1 DEF vars, TypeInv, TypeOK, TableTypeOK, RequestTypeOK, RequestInv, Allows, Live, Exists,
              EventsOf, EventOf, OneHolder, AuditIsAtomic
<1>2. ASSUME NEW k \in Requests, Serve(k) PROVE TypeInv'
  BY <1>2, SelectType, WriteType, AuditType, CommitType DEF Serve
<1> QED
  BY <1>1, <1>2, SubmitType, AbortType DEF Next

LEMMA TypeInvariant == Spec => []TypeInv
BY TypeInvInit, TypeInvNext, PTL DEF Spec

\* Every variable has its type, whatever the clients send: no step writes a row that the
\* columns of the table do not allow, and the log has only events.
THEOREM RecordsTypeOK == Spec => []TypeOK
BY TypeInvariant, PTL DEF TypeInv

\* What AuditService writes commits with the request it belongs to, or not at all: no event
\* of a request that did not commit, no committed request without one unless its insert failed.
THEOREM RecordsAuditIsAtomic == Spec => []AuditIsAtomic
BY TypeInvariant, PTL DEF TypeInv

-----------------------------------------------------------------------------
(* Rows *)

\* Rows change in commits only.
LEMMA OnlyCommitsWrite ==
    ASSUME TypeInv, [Next]_vars, ~\E k \in Requests : Commit(k)
    PROVE  Calm
<1>1. \A k \in Requests : Serve(k) \/ Abort(k) => Calm
  BY WriteEffect DEF Serve, Select, SelectOwner, Audit, Abort, Calm
<1> QED
  BY <1>1 DEF Next, Submit, vars, Calm

\* The soft deletion is final: a row with deleted_at set stays as it is, whatever versions
\* the clients send and whoever selected it alive before.
THEOREM RecordsArchivedIsFinal == Spec => ArchivedIsFinal
<1>1. TypeInv /\ [Next]_vars =>
          [\A id \in RowIds : Exists(id) /\ table[id].deleted => table'[id] = table[id]]_vars
  <2> SUFFICES ASSUME TypeInv, [Next]_vars, NEW id \in RowIds, Exists(id), table[id].deleted
               PROVE  table'[id] = table[id]
    OBVIOUS
  <2>1. ASSUME NEW k \in Requests, Commit(k) PROVE table'[id] = table[id]
    BY <2>1, CommitEffect DEF Allows, Live
  <2> QED
    BY <2>1, OnlyCommitsWrite DEF Calm
<1> QED
  BY <1>1, TypeInvariant, PTL DEF Spec, ArchivedIsFinal

-----------------------------------------------------------------------------
(* Versions *)

\* How a row may go on while it is alive: to a higher version, or archived.
Advanced(old, new) ==
    \/ new = old
    \/ /\ ~old.deleted /\ new.version >= old.version
       /\ new.deleted \/ new.version > old.version

LEMMA AdvancedFurther ==
    ASSUME NEW x \in Row, NEW y \in Row, NEW z \in Row, Advanced(x, y), Advanced(y, z)
    PROVE  Advanced(x, z)
BY DEF Advanced, Row

\* What a request that has written is about to commit.
Written(r) ==
    \/ /\ request[r].op = "create"
       /\ \E status \in FirstStatuses(request[r].id) : pending[r] = Fresh(status)
    \/ /\ request[r].op = "update"
       /\ before[r] = table[request[r].id] /\ request[r].version = before[r].version
       /\ \E status \in NextStatus(request[r], before[r]) : pending[r] = Patched(r, status)
    \/ /\ request[r].op = "archive"
       /\ pending[r] = ArchivedRow(request[r].id)

\* No PATCH that is about to write names a version beyond the one it has selected.
NobodyAhead ==
    \A r \in Requests :
        pc[r] = "write" /\ request[r].op = "update" => request[r].version <= before[r].version

\* A request compared with the row it is about: what was selected is there or the row has
\* advanced since, and what was written is made from what is there.
SeenInv(r) ==
    /\ pc[r] \in {"write", "audit", "commit"} /\ request[r].op # "create" =>
          /\ Exists(request[r].id) /\ ~before[r].deleted
          /\ Advanced(before[r], table[request[r].id])
    /\ pc[r] \in {"audit", "commit"} => Written(r)
    /\ pc[r] = "done" /\ request[r].op = "update" =>
          Exists(request[r].id) /\ request[r].version < table[request[r].id].version

VersionInv == \A r \in Requests : SeenInv(r)

LEMMA ExistingRow ==
    ASSUME TypeOK, NEW id \in RowIds
    PROVE  Exists(id) <=> table[id] \in Row
BY RecordsAssumption DEF TypeOK, TableTypeOK, Exists, Row

LEMMA CommitAdvances ==
    ASSUME TypeInv, VersionInv, NEW k \in Requests, Commit(k), NEW id \in RowIds, Exists(id)
    PROVE  /\ table[id] \in Row /\ table'[id] \in Row
           /\ Exists(id)' /\ Advanced(table[id], table'[id])
<1>1. table[id] \in Row
  BY ExistingRow DEF TypeInv
<1>2. CASE id # request[k].id
  BY <1>1, <1>2, CommitEffect DEF Advanced, Exists
<1>3. CASE id = request[k].id
  <2>1. /\ table'[id] = pending[k] /\ pending[k] \in Row /\ request[k] \in Ask /\ Written(k)
        /\ request[k].op # "create" /\ ~table[id].deleted
    BY <1>3, CommitEffect DEF VersionInv, SeenInv, Allows, Live
  <2>2. Exists(id)'
    BY <2>1, RecordsAssumption DEF Exists, Row
  <2>3. CASE request[k].op = "update"
    <3>1. PICK status \in NextStatus(request[k], before[k]) : pending[k] = Patched(k, status)
      BY <2>1, <2>3 DEF Written
    <3>2. before[k] = table[id]
      BY <1>3, <2>1, <2>3 DEF Written
    <3>3. pending[k].version = table[id].version + 1
      BY <1>1, <2>1, <3>1, <3>2, PatchedRow DEF TypeInv
    <3> QED
      BY <1>1, <2>1, <2>2, <3>3 DEF Advanced, Row
  <2>4. CASE request[k].op = "archive"
    <3>1. pending[k] = ArchivedRow(id)
      BY <1>3, <2>1, <2>4 DEF Written
    <3>2. pending[k].deleted /\ pending[k].version = table[id].version
      BY <1>1, <3>1, ArchivedRowIsRow
    <3> QED
      BY <1>1, <2>1, <2>2, <3>2 DEF Advanced, Row
  <2> QED
    BY <2>1, <2>3, <2>4 DEF Ask
<1> QED
  BY <1>2, <1>3

\* A row only advances under a request that takes no step.
LEMMA SeenKept ==
    ASSUME TypeInv, TypeInv', NEW r \in Requests, SeenInv(r), Kept(r),
           \A id \in RowIds : Exists(id) =>
               table'[id] \in Row /\ Exists(id)' /\ Advanced(table[id], table'[id]),
           pc[r] \in {"audit", "commit"} => table'[request[r].id] = table[request[r].id]
    PROVE  SeenInv(r)'
<1> SUFFICES ASSUME pc[r] # "idle" PROVE SeenInv(r)'
  BY DEF Kept, SeenInv
<1> DEFINE id == request[r].id
<1>1. request[r] \in Ask /\ id \in RowIds /\ request[r].version \in Nat
  BY DEF TypeInv, RequestInv, Ask
<1>2. ASSUME Exists(id)
      PROVE  /\ table[id] \in Row /\ table'[id] \in Row /\ Exists(id)'
             /\ Advanced(table[id], table'[id]) /\ table'[id].version >= table[id].version
  <2>1. table[id] \in Row /\ table'[id] \in Row /\ Exists(id)' /\ Advanced(table[id], table'[id])
    BY <1>1, <1>2, ExistingRow DEF TypeInv, Kept, Exists
  <2> QED
    BY <2>1 DEF Advanced, Row
<1>3. (pc[r] \in {"write", "audit", "commit"} /\ request[r].op # "create" =>
          Exists(id) /\ ~before[r].deleted /\ Advanced(before[r], table[id]))'
  <2> SUFFICES ASSUME pc[r] \in {"write", "audit", "commit"}, request[r].op # "create"
               PROVE  Exists(id)' /\ ~before[r].deleted /\ Advanced(before[r], table'[id])
    BY DEF Kept, Advanced
  <2>1. before[r] \in Row /\ Exists(id) /\ ~before[r].deleted /\ Advanced(before[r], table[id])
    BY DEF TypeInv, RequestInv, SeenInv
  <2> QED
    BY <1>2, <2>1, AdvancedFurther
<1>4. (pc[r] \in {"audit", "commit"} => Written(r))'
  <2> SUFFICES ASSUME pc[r] \in {"audit", "commit"} PROVE Written(r)'
    BY DEF Kept
  <2>1. \A status : Patched(r, status)' = Patched(r, status)
    BY DEF Kept, Patched
  <2>2. ArchivedRow(id)' = ArchivedRow(id)
    BY DEF Kept, ArchivedRow
  <2> QED
    BY <2>1, <2>2 DEF SeenInv, Written, Kept
<1>5. (pc[r] = "done" /\ request[r].op = "update" =>
          Exists(id) /\ request[r].version < table[id].version)'
  BY <1>1, <1>2 DEF SeenInv, Kept, Row
<1> QED
  BY <1>3, <1>4, <1>5 DEF SeenInv, Kept

LEMMA CalmSeen ==
    ASSUME TypeInv, TypeInv', VersionInv, NEW k \in Requests, Moves(k), Calm, SeenInv(k)'
    PROVE  VersionInv'
<1>1. \A id \in RowIds : Exists(id) =>
          table'[id] \in Row /\ Exists(id)' /\ Advanced(table[id], table'[id])
  BY ExistingRow DEF TypeInv, Calm, Advanced, Exists
<1> QED
  BY <1>1, SeenKept DEF VersionInv, Moves, Calm

LEMMA SubmitSeen ==
    ASSUME TypeInv, TypeInv', VersionInv, NEW k \in Requests, NEW ask \in Ask, Submit(k, ask)
    PROVE  VersionInv'
<1>1. Moves(k) /\ Calm /\ pc'[k] = "select"
  BY DEF TypeInv, TypeOK, RequestTypeOK, Submit, Moves, Kept, Calm
<1>2. SeenInv(k)'
  BY <1>1 DEF SeenInv
<1> QED
  BY <1>1, <1>2, CalmSeen

\* A request that ends without a commit.
LEMMA EndSeen ==
    ASSUME TypeInv, TypeInv', VersionInv, NEW k \in Requests, NEW how \in {"refused", "aborted"},
           End(k, how), Calm
    PROVE  VersionInv'
<1>1. Moves(k) /\ pc'[k] = how
  BY EndMoves DEF TypeInv
<1>2. SeenInv(k)'
  BY <1>1 DEF SeenInv
<1> QED
  BY <1>1, <1>2, CalmSeen

LEMMA SelectSeen ==
    ASSUME TypeInv, TypeInv', VersionInv, NEW k \in Requests, Select(k) \/ SelectOwner(k)
    PROVE  VersionInv'
<1>1. Calm /\ pc[k] = "select" /\ request[k] \in Ask
  BY DEF TypeInv, RequestInv, Select, SelectOwner, Calm
<1>2. CASE End(k, "refused")
  BY <1>1, <1>2, EndSeen
<1>3. CASE ~End(k, "refused")
  <2>1. Moves(k) /\ pc'[k] = "write" /\ request'[k] = request[k]
    BY <1>3 DEF Select, SelectOwner, TypeInv, TypeOK, RequestTypeOK, Moves, Kept
  <2>2. ASSUME request[k].op # "create"
        PROVE  before'[k] = table[request[k].id] /\ Live(request[k].id)
    BY <1>3, <2>2 DEF Select, SelectOwner, TypeInv, TypeOK, RequestTypeOK
  <2>3. SeenInv(k)'
    BY <1>1, <2>1, <2>2 DEF VersionInv, SeenInv, Live, Exists, Advanced, Calm
  <2> QED
    BY <1>1, <2>1, <2>3, CalmSeen
<1> QED
  BY <1>2, <1>3

\* The version that the WHERE clause matches is the one that was selected, and with it the row.
LEMMA MatchesWhatWasSelected ==
    ASSUME TypeInv, VersionInv, NobodyAhead, NEW k \in Requests, pc[k] = "write",
           request[k].op = "update", Matches(k)
    PROVE  before[k] = table[request[k].id] /\ request[k].version = before[k].version
<1>1. /\ before[k] \in Row /\ request[k].id \in RowIds /\ request[k].version \in Nat
      /\ Exists(request[k].id) /\ Advanced(before[k], table[request[k].id])
      /\ request[k].version <= before[k].version
  BY DEF TypeInv, RequestInv, VersionInv, SeenInv, NobodyAhead, Ask
<1>2. table[request[k].id] \in Row
  BY <1>1, ExistingRow DEF TypeInv
<1> QED
  BY <1>1, <1>2 DEF Matches, Live, Advanced, Row

LEMMA WriteSeen ==
    ASSUME TypeInv, TypeInv', VersionInv, NobodyAhead,
           NEW k \in Requests, Insert(k) \/ Update(k) \/ Archive(k)
    PROVE  VersionInv'
<1>1. Calm /\ pc[k] = "write" /\ request[k] \in Ask
  BY WriteEffect
<1>2. CASE End(k, "refused")
  BY <1>1, <1>2, EndSeen
<1>3. ASSUME Writes(k), NEW row \in Row, Wrote(k, row) PROVE VersionInv'
  <2>1. /\ Moves(k) /\ pc'[k] = "audit" /\ request'[k] = request[k] /\ before'[k] = before[k]
    BY <1>3, WroteMoves DEF TypeInv
  <2>2. \A status : Patched(k, status)' = Patched(k, status)
    BY <2>1 DEF Patched
  <2>3. ArchivedRow(request[k].id)' = ArchivedRow(request[k].id)
    BY <1>1, <2>1 DEF ArchivedRow, Calm
  <2>4. NextStatus(request[k], before[k])' = NextStatus(request[k], before[k])
    BY <2>1 DEF NextStatus
  <2>5. Written(k)'
    <3>1. CASE request[k].op = "create"
      BY <1>3, <2>1, <3>1 DEF Written, Writes
    <3>2. CASE request[k].op = "update"
      <4>1. Matches(k) /\ \E status \in NextStatus(request[k], before[k]) : pending'[k] = Patched(k, status)
        BY <1>3, <3>2 DEF Writes
      <4>2. before[k] = table[request[k].id] /\ request[k].version = before[k].version
        BY <1>1, <3>2, <4>1, MatchesWhatWasSelected
      <4> QED
        BY <1>1, <2>1, <2>2, <2>4, <3>2, <4>1, <4>2 DEF Written, Calm
    <3>3. CASE request[k].op = "archive"
      BY <1>3, <2>1, <2>3, <3>3 DEF Written, Writes
    <3> QED
      BY <1>1, <3>1, <3>2, <3>3 DEF Ask
  <2>6. SeenInv(k)'
    BY <1>1, <2>1, <2>5 DEF VersionInv, SeenInv, Exists, Advanced, Calm
  <2> QED
    BY <1>1, <2>1, <2>6, CalmSeen
<1> QED
  BY <1>2, <1>3, WriteEffect

LEMMA AuditSeen ==
    ASSUME TypeInv, TypeInv', VersionInv, NEW k \in Requests, Audit(k) PROVE VersionInv'
<1>1. /\ Calm /\ Moves(k) /\ pc[k] = "audit" /\ pc'[k] = "commit"
      /\ request' = request /\ before' = before /\ pending' = pending /\ table' = table
  BY DEF TypeInv, TypeOK, RequestTypeOK, Audit, Moves, Kept, Calm
<1>2. Written(k)'
  <2>1. Written(k)
    BY <1>1 DEF VersionInv, SeenInv
  <2>2. \A status : Patched(k, status)' = Patched(k, status)
    BY <1>1 DEF Patched
  <2>3. ArchivedRow(request[k].id)' = ArchivedRow(request[k].id)
    BY <1>1 DEF ArchivedRow
  <2>4. NextStatus(request[k], before[k])' = NextStatus(request[k], before[k])
    BY <1>1 DEF NextStatus
  <2> QED
    BY <1>1, <2>1, <2>2, <2>3, <2>4 DEF Written
<1>3. SeenInv(k)'
  BY <1>1, <1>2 DEF VersionInv, SeenInv, Exists, Advanced
<1> QED
  BY <1>1, <1>3, CalmSeen

LEMMA CommitSeen ==
    ASSUME TypeInv, TypeInv', VersionInv, NEW k \in Requests, Commit(k) PROVE VersionInv'
<1>1. SeenInv(k)'
  <2>1. /\ pc'[k] = "done" /\ request'[k] = request[k] /\ request[k] \in Ask /\ request[k].id \in RowIds
        /\ table'[request[k].id] = pending[k] /\ pending[k] \in Row /\ pc[k] = "commit"
    BY CommitEffect DEF Ask
  <2>2. ASSUME request[k].op = "update"
        PROVE  request[k].version < pending[k].version
    <3>1. /\ request[k].version = before[k].version /\ before[k] \in Row
          /\ \E status \in NextStatus(request[k], before[k]) : pending[k] = Patched(k, status)
      BY <2>1, <2>2 DEF TypeInv, RequestInv, VersionInv, SeenInv, Written
    <3>2. pending[k].version = before[k].version + 1 /\ before[k].version \in Nat
      BY <2>1, <3>1, PatchedRow DEF TypeInv, Row
    <3> QED
      BY <3>1, <3>2
  <2>3. Exists(request[k].id)'
    BY <2>1, RecordsAssumption DEF Exists, Row
  <2> QED
    BY <2>1, <2>2, <2>3 DEF SeenInv
<1>2. \A id \in RowIds : Exists(id) =>
          table'[id] \in Row /\ Exists(id)' /\ Advanced(table[id], table'[id])
  BY CommitAdvances
<1>3. ASSUME NEW r \in Requests \ {k} PROVE SeenInv(r)'
  BY <1>2, CommitEffect, CommitSpares, SeenKept DEF VersionInv, Moves
<1> QED
  BY <1>1, <1>3 DEF VersionInv

LEMMA VersionInvNext == NobodyAhead /\ TypeInv /\ VersionInv /\ [Next]_vars => VersionInv'
<1> SUFFICES ASSUME NobodyAhead, TypeInv, VersionInv, [Next]_vars PROVE VersionInv'
  OBVIOUS
<1>1. TypeInv'
  BY TypeInvNext
<1>2. CASE UNCHANGED vars
  <2>1. Calm /\ \A r \in Requests : Kept(r)
    BY <1>2 DEF vars, Calm, Kept
  <2>2. \A id \in RowIds : Exists(id) =>
            table'[id] \in Row /\ Exists(id)' /\ Advanced(table[id], table'[id])
    BY <2>1, ExistingRow DEF TypeInv, Calm, Advanced, Exists
  <2> QED
    BY <1>1, <2>1, <2>2, SeenKept DEF VersionInv, Calm
<1>3. ASSUME NEW k \in Requests, Serve(k) PROVE VersionInv'
  BY <1>1, <1>3, SelectSeen, WriteSeen, AuditSeen, CommitSeen DEF Serve
<1>4. ASSUME NEW k \in Requests, Abort(k) PROVE VersionInv'
  BY <1>1, <1>4, EndSeen DEF Abort, Calm
<1> QED
  BY <1>1, <1>2, <1>3, <1>4, SubmitSeen DEF Next

LEMMA VersionInvariant == Spec /\ []NobodyAhead => [](TypeInv /\ VersionInv)
<1>1. Init => VersionInv
  BY DEF Init, VersionInv, SeenInv
<1>2. NobodyAhead /\ (TypeInv /\ VersionInv) /\ [Next]_vars => (TypeInv /\ VersionInv)'
  BY TypeInvNext, VersionInvNext
<1> QED
  BY <1>1, <1>2, TypeInvInit, PTL DEF Spec

\* What a commit does to a row that is there.
LEMMA CommitReplaces ==
    ASSUME TypeInv, VersionInv, NEW k \in Requests, Commit(k), Exists(request[k].id)
    PROVE  /\ request[k] \in Ask /\ request[k].id \in RowIds /\ table[request[k].id] \in Row
           /\ table'[request[k].id] = pending[k] /\ pending[k] \in Row
           /\ \/ /\ request[k].op = "update" /\ before[k] = table[request[k].id]
                 /\ request[k].version = before[k].version
                 /\ \E status \in NextStatus(request[k], before[k]) : pending[k] = Patched(k, status)
                 /\ pending[k].version = table[request[k].id].version + 1
              \/ request[k].op = "archive" /\ pending[k] = ArchivedRow(request[k].id)
<1>1. /\ request[k] \in Ask /\ request[k].id \in RowIds
      /\ table'[request[k].id] = pending[k] /\ pending[k] \in Row
      /\ Written(k) /\ request[k].op # "create"
  BY CommitEffect DEF Ask, VersionInv, SeenInv, Allows
<1>2. table[request[k].id] \in Row
  BY <1>1, ExistingRow DEF TypeInv
<1>3. ASSUME request[k].op = "update", before[k] = table[request[k].id],
             NEW status \in NextStatus(request[k], before[k]), pending[k] = Patched(k, status)
      PROVE  pending[k].version = table[request[k].id].version + 1
  BY <1>1, <1>2, <1>3, PatchedRow DEF TypeInv
<1> QED
  BY <1>1, <1>2, <1>3 DEF Written

\* A request that is done has just committed or was done before.
LEMMA OnlyCommitsFinish ==
    ASSUME TypeInv, [Next]_vars, NEW r \in Requests, pc'[r] = "done"
    PROVE  Commit(r) \/ (pc[r] = "done" /\ request'[r] = request[r])
<1>1. CASE UNCHANGED vars
  BY <1>1 DEF vars
<1>2. ASSUME NEW k \in Requests, NEW ask \in Ask, Submit(k, ask)
      PROVE  pc[r] = "done" /\ request'[r] = request[r]
  BY <1>2 DEF Submit, TypeInv, TypeOK, RequestTypeOK
<1>3. ASSUME NEW k \in Requests, Serve(k) \/ Abort(k), k # r
      PROVE  pc[r] = "done" /\ request'[r] = request[r]
  <2>1. CASE Insert(k) \/ Update(k) \/ Archive(k)
    BY <1>3, <2>1, WriteEffect, WroteMoves, EndMoves DEF TypeInv, Moves, Kept
  <2>2. CASE Select(k) \/ SelectOwner(k)
    BY <1>3, <2>2 DEF Select, SelectOwner, End, TypeInv, TypeOK, RequestTypeOK
  <2>3. CASE Audit(k) \/ Commit(k) \/ Abort(k)
    BY <1>3, <2>3 DEF Audit, Commit, Abort, End, TypeInv, TypeOK, RequestTypeOK
  <2> QED
    BY <1>3, <2>1, <2>2, <2>3 DEF Serve
<1>4. ASSUME Serve(r) \/ Abort(r) PROVE Commit(r)
  <2>1. CASE Insert(r) \/ Update(r) \/ Archive(r)
    BY <2>1, WriteEffect, WroteMoves, EndMoves DEF TypeInv
  <2>2. CASE Select(r) \/ SelectOwner(r)
    BY <2>2 DEF Select, SelectOwner, End, TypeInv, TypeOK, RequestTypeOK
  <2>3. CASE Audit(r) \/ Abort(r)
    BY <2>3 DEF Audit, Abort, End, TypeInv, TypeOK, RequestTypeOK
  <2> QED
    BY <1>4, <2>1, <2>2, <2>3 DEF Serve
<1> QED
  BY <1>1, <1>2, <1>3, <1>4 DEF Next

LEMMA OneWinner == Spec /\ []NobodyAhead => []OneWinnerPerVersion
<1>1. Init => OneWinnerPerVersion
  BY DEF Init, OneWinnerPerVersion
<1>2. TypeInv /\ VersionInv /\ OneWinnerPerVersion /\ [Next]_vars => OneWinnerPerVersion'
  <2> SUFFICES ASSUME TypeInv, VersionInv, OneWinnerPerVersion, [Next]_vars,
                      NEW q \in Requests, NEW r \in Requests, q # r,
                      pc'[q] = "done", pc'[r] = "done",
                      request'[q].op = "update", request'[r].op = "update",
                      request'[q].id = request'[r].id, request'[q].version = request'[r].version
               PROVE  FALSE
    BY DEF OneWinnerPerVersion
  <2>1. ASSUME NEW k \in Requests, NEW other \in Requests, k # other, Commit(k),
               request'[k].op = "update", pc'[other] = "done",
               request'[other].op = "update", request'[other].id = request'[k].id,
               request'[other].version = request'[k].version
        PROVE  FALSE
    <3>1. /\ request'[k] = request[k] /\ pc[other] = "done" /\ request'[other] = request[other]
      BY <2>1, CommitEffect DEF Moves, Kept
    <3>2. Exists(request[k].id) /\ request[k].version < table[request[k].id].version
      BY <2>1, <3>1 DEF VersionInv, SeenInv
    <3>3. request[k].version = table[request[k].id].version /\ table[request[k].id] \in Row
      BY <2>1, <3>1, <3>2, CommitReplaces
    <3> QED
      BY <3>2, <3>3 DEF Row
  <2>2. ~Commit(q) /\ ~Commit(r)
    BY <2>1
  <2> QED
    BY <2>2, OnlyCommitsFinish DEF OneWinnerPerVersion
<1> QED
  BY <1>1, <1>2, VersionInvariant, PTL DEF Spec

LEMMA NoUpdateIsLost == Spec /\ []NobodyAhead => NoLostUpdate
<1>1. TypeInv /\ VersionInv /\ [Next]_vars =>
        [\A id \in RowIds : Exists(id) => \A f \in Fields :
          table'[id].fields[f] # table[id].fields[f] =>
             \E r \in Requests : /\ pc[r] = "commit" /\ pc'[r] = "done"
                                /\ request[r].id = id /\ f \in request[r].patch]_vars
  <2> SUFFICES ASSUME TypeInv, VersionInv, [Next]_vars, NEW id \in RowIds, Exists(id),
                      NEW f \in Fields, table'[id].fields[f] # table[id].fields[f]
               PROVE  \E r \in Requests : /\ pc[r] = "commit" /\ pc'[r] = "done"
                                          /\ request[r].id = id /\ f \in request[r].patch
    OBVIOUS
  <2>1. PICK k \in Requests : Commit(k)
    BY OnlyCommitsWrite DEF Calm
  <2>2. pc[k] = "commit" /\ pc'[k] = "done" /\ request[k].id = id
    BY <2>1, CommitEffect
  <2>3. f \in request[k].patch
    <3>1. CASE request[k].op = "update"
      <4>1. /\ before[k] = table[id] /\ table'[id] = pending[k] /\ request[k] \in Ask /\ table[id] \in Row
            /\ \E status \in NextStatus(request[k], before[k]) : pending[k] = Patched(k, status)
        BY <2>1, <2>2, <3>1, CommitReplaces
      <4>2. f \notin request[k].patch => pending[k].fields[f] = before[k].fields[f]
        BY <4>1, PatchedRow DEF TypeInv
      <4> QED
        BY <4>1, <4>2
    <3>2. CASE request[k].op # "update"
      <4>1. table'[id] = ArchivedRow(id) /\ table[id] \in Row
        BY <2>1, <2>2, <3>2, CommitReplaces
      <4> QED
        BY <4>1, ArchivedRowIsRow
    <3> QED
      BY <3>1, <3>2
  <2> QED
    BY <2>2, <2>3
<1> QED
  BY <1>1, VersionInvariant, PTL DEF Spec, NoLostUpdate

LEMMA TheOverrideSticks == Spec /\ []NobodyAhead => OverrideSticks
<1>1. TypeInv /\ VersionInv /\ [Next]_vars =>
        [\A d \in Documents :
          Exists(d) /\ table[d].status \in ManualStatus => table'[d].status \in ManualStatus]_vars
  <2> SUFFICES ASSUME TypeInv, VersionInv, [Next]_vars, NEW d \in Documents, Exists(d),
                      table[d].status \in ManualStatus
               PROVE  table'[d].status \in ManualStatus
    OBVIOUS
  <2>1. d \in RowIds /\ d \notin Employees
    BY RecordsAssumption DEF RowIds
  <2>2. ASSUME NEW k \in Requests, Commit(k), request[k].id = d
        PROVE  table'[d].status \in ManualStatus
    <3>1. CASE request[k].op = "update"
      <4>1. /\ before[k] = table[d] /\ table'[d] = pending[k] /\ request[k] \in Ask /\ table[d] \in Row
            /\ \E status \in NextStatus(request[k], before[k]) : pending[k] = Patched(k, status)
        BY <2>2, <3>1, CommitReplaces
      <4>2. PICK status \in NextStatus(request[k], before[k]) : pending[k] = Patched(k, status)
        BY <4>1
      <4>3. pending[k].status = status
        BY <4>1, <4>2, PatchedRow DEF TypeInv
      <4>4. status \in ManualStatus
        BY <2>1, <2>2, <4>1, <4>2 DEF NextStatus, Ask
      <4> QED
        BY <4>1, <4>3, <4>4
    <3>2. CASE request[k].op # "update"
      <4>1. table'[d] = ArchivedRow(d) /\ table[d] \in Row
        BY <2>2, <3>2, CommitReplaces
      <4> QED
        BY <2>1, <4>1, ArchivedRowIsRow
    <3> QED
      BY <3>1, <3>2
  <2>3. ASSUME NEW k \in Requests, Commit(k), request[k].id # d
        PROVE  table'[d].status \in ManualStatus
    BY <2>1, <2>3, CommitEffect
  <2> QED
    BY <2>2, <2>3, OnlyCommitsWrite DEF Calm
<1> QED
  BY <1>1, VersionInvariant, PTL DEF Spec, OverrideSticks

-----------------------------------------------------------------------------
(* The audit trail *)

Led(e) == e.action \in {"CREATED", "UPDATED"}

\* The row has advanced since the event, and an update led to a higher version.
EventLed(e) ==
    Led(e) => /\ Exists(e.id) /\ Advanced(e.after, table[e.id])
              /\ e.action = "UPDATED" => e.before \in Row /\ e.before.version < e.after.version

\* What a request has selected at the version that an event left is what the event left.
SelectedAsLeft(r, e) ==
    /\ Led(e) /\ request[r].id = e.id
    /\ pc[r] \in {"write", "audit", "commit"} /\ request[r].op # "create"
    /\ before[r].version = e.after.version
    => before[r] = e.after

TrailInv ==
    /\ \A e \in auditEvents : EventLed(e)
    /\ \A e \in auditEvents, r \in Requests : SelectedAsLeft(r, e)
    /\ AuditTrailIsOneHistory

LEMMA EventRows ==
    ASSUME TypeOK, NEW e \in auditEvents
    PROVE  e.after \in Row /\ e.id \in RowIds
BY DEF TypeOK, Event

\* Where the row that a request holds comes from.
LEMMA OnlySelectsRead ==
    ASSUME TypeInv, [Next]_vars, NEW r \in Requests,
           pc'[r] \in {"write", "audit", "commit"}, request'[r].op # "create"
    PROVE  /\ request'[r] = request[r]
           /\ \/ pc[r] \in {"write", "audit", "commit"} /\ before'[r] = before[r]
              \/ request[r] \in Ask /\ Live(request[r].id) /\ before'[r] = table[request[r].id]
<1>1. CASE UNCHANGED vars
  BY <1>1 DEF vars
<1>2. ASSUME NEW k \in Requests, NEW ask \in Ask, Submit(k, ask)
      PROVE  request'[r] = request[r] /\ pc[r] \in {"write", "audit", "commit"} /\ before'[r] = before[r]
  BY <1>2 DEF Submit, TypeInv, TypeOK, RequestTypeOK
<1>3. ASSUME NEW k \in Requests, Insert(k) \/ Update(k) \/ Archive(k)
      PROVE  request'[r] = request[r] /\ pc[r] \in {"write", "audit", "commit"} /\ before'[r] = before[r]
  BY <1>3, WriteEffect, WroteMoves, EndMoves DEF TypeInv, Moves, Kept
<1>4. ASSUME NEW k \in Requests, Audit(k) \/ Commit(k) \/ Abort(k)
      PROVE  request'[r] = request[r] /\ pc[r] \in {"write", "audit", "commit"} /\ before'[r] = before[r]
  BY <1>4 DEF Audit, Commit, Abort, End, TypeInv, TypeOK, RequestTypeOK
<1>5. ASSUME NEW k \in Requests, Select(k) \/ SelectOwner(k)
      PROVE  /\ request'[r] = request[r]
             /\ \/ pc[r] \in {"write", "audit", "commit"} /\ before'[r] = before[r]
                \/ request[r] \in Ask /\ Live(request[r].id) /\ before'[r] = table[request[r].id]
  <2>1. CASE k = r
    BY <1>5, <2>1 DEF Select, SelectOwner, End, TypeInv, TypeOK, RequestTypeOK, RequestInv
  <2>2. CASE k # r
    BY <1>5, <2>2 DEF Select, SelectOwner, End, TypeInv, TypeOK, RequestTypeOK
  <2> QED
    BY <2>1, <2>2
<1> QED
  BY <1>1, <1>2, <1>3, <1>4, <1>5 DEF Next, Serve

LEMMA TrailCalm ==
    ASSUME TypeInv, TrailInv, [Next]_vars, Calm PROVE TrailInv'
<1>1. ASSUME NEW e \in auditEvents' PROVE EventLed(e)'
  BY <1>1 DEF TrailInv, EventLed, Exists, Advanced, Calm
<1>2. ASSUME NEW e \in auditEvents', NEW r \in Requests PROVE SelectedAsLeft(r, e)'
  <2> SUFFICES ASSUME Led(e), request'[r].id = e.id,
                      pc'[r] \in {"write", "audit", "commit"}, request'[r].op # "create",
                      before'[r].version = e.after.version
               PROVE  before'[r] = e.after
    BY DEF SelectedAsLeft, Led
  <2>1. e \in auditEvents
    BY DEF Calm
  <2>2. CASE pc[r] \in {"write", "audit", "commit"} /\ before'[r] = before[r]
    BY <2>1, <2>2, OnlySelectsRead DEF TrailInv, SelectedAsLeft
  <2>3. CASE Live(request[r].id) /\ before'[r] = table[request[r].id]
    <3>1. /\ request'[r] = request[r] /\ e.after \in Row /\ e.id \in RowIds
          /\ Advanced(e.after, table[e.id]) /\ Exists(e.id)
      BY <2>1, OnlySelectsRead, EventRows DEF TypeInv, TrailInv, EventLed
    <3>2. table[e.id] \in Row
      BY <3>1, ExistingRow DEF TypeInv
    <3> QED
      BY <2>3, <3>1, <3>2 DEF Advanced, Live, Row
  <2> QED
    BY <2>2, <2>3, OnlySelectsRead
<1>3. AuditTrailIsOneHistory'
  BY DEF TrailInv, AuditTrailIsOneHistory, Calm
<1> QED
  BY <1>1, <1>2, <1>3 DEF TrailInv

\* The events of a commit.
LEMMA CommittedEvent ==
    ASSUME TypeInv, VersionInv, NEW k \in Requests, Commit(k), NEW e \in recorded[k]
    PROVE  /\ e.id = request[k].id /\ e.before = before[k] /\ e.after = pending[k]
           /\ e.action = "CREATED" => ~Exists(e.id)
           /\ e.action = "UPDATED" => /\ request[k].op = "update" /\ Exists(e.id)
                                      /\ before[k] = table[e.id] /\ before[k] \in Row
                                      /\ pending[k].version = before[k].version + 1
<1>1. request[k] \in Ask /\ e \in EventsOf(k) /\ Allows(k)
  BY CommitEffect
<1>2. /\ e.id = request[k].id /\ e.before = before[k] /\ e.after = pending[k]
      /\ e.action = "CREATED" => request[k].op = "create"
      /\ e.action = "UPDATED" => request[k].op = "update"
  BY <1>1, EventFields
<1>3. ASSUME e.action = "UPDATED"
      PROVE  /\ Exists(e.id) /\ before[k] = table[e.id] /\ before[k] \in Row
             /\ pending[k].version = before[k].version + 1
  <2>1. Exists(request[k].id) /\ request[k].op = "update"
    BY <1>1, <1>2, <1>3 DEF Allows, Live
  <2> QED
    BY <1>2, <2>1, CommitReplaces
<1> QED
  BY <1>1, <1>2, <1>3 DEF Allows

LEMMA TrailCommit ==
    ASSUME TypeInv, TypeInv', VersionInv, TrailInv, [Next]_vars, NEW k \in Requests, Commit(k)
    PROVE  TrailInv'
<1>1. /\ auditEvents' = auditEvents \cup recorded[k] /\ pending[k] \in Row
      /\ request[k] \in Ask /\ request[k].id \in RowIds /\ pc[k] = "commit" /\ pc'[k] = "done"
      /\ table'[request[k].id] = pending[k] /\ request'[k] = request[k]
  BY CommitEffect DEF Ask
<1>2. ASSUME NEW e \in auditEvents, Led(e)
      PROVE  /\ e.after \in Row /\ e.id \in RowIds
             /\ Exists(e.id) /\ table[e.id] \in Row /\ Advanced(e.after, table[e.id])
             /\ e.after.version <= table[e.id].version
             /\ Exists(e.id)' /\ Advanced(e.after, table'[e.id])
  <2>1. /\ e.after \in Row /\ e.id \in RowIds /\ Exists(e.id) /\ Advanced(e.after, table[e.id])
    BY <1>2, EventRows DEF TypeInv, TrailInv, EventLed
  <2>2. /\ table[e.id] \in Row /\ table'[e.id] \in Row /\ Exists(e.id)'
        /\ Advanced(table[e.id], table'[e.id])
    BY <2>1, CommitAdvances
  <2>3. Advanced(e.after, table'[e.id])
    BY <2>1, <2>2, AdvancedFurther
  <2> QED
    BY <2>1, <2>2, <2>3 DEF Advanced, Row
<1>3. ASSUME NEW e \in auditEvents' PROVE EventLed(e)'
  <2> SUFFICES ASSUME Led(e)
               PROVE  /\ Exists(e.id)' /\ Advanced(e.after, table'[e.id])
                      /\ e.action = "UPDATED" => e.before \in Row /\ e.before.version < e.after.version
    BY DEF EventLed, Led, Advanced, Row
  <2>1. CASE e \in auditEvents
    BY <1>2, <2>1 DEF TrailInv, EventLed
  <2>2. CASE e \in recorded[k]
    <3>1. e.id = request[k].id /\ e.after = pending[k]
      BY <2>2, CommittedEvent
    <3>2. Exists(e.id)' /\ Advanced(e.after, table'[e.id])
      BY <1>1, <3>1, RecordsAssumption DEF Exists, Row, Advanced
    <3>3. e.action = "UPDATED" => e.before \in Row /\ e.before.version < e.after.version
      BY <2>2, CommittedEvent DEF Row
    <3> QED
      BY <3>2, <3>3
  <2> QED
    BY <1>1, <2>1, <2>2
<1>4. ASSUME NEW e \in auditEvents', NEW r \in Requests PROVE SelectedAsLeft(r, e)'
  <2> SUFFICES ASSUME Led(e), request'[r].id = e.id,
                      pc'[r] \in {"write", "audit", "commit"}, request'[r].op # "create",
                      before'[r].version = e.after.version
               PROVE  before'[r] = e.after
    BY DEF SelectedAsLeft, Led
  <2>1. /\ r # k /\ request'[r] = request[r] /\ pc[r] = pc'[r] /\ before'[r] = before[r]
    BY <1>1, CommitEffect DEF Moves, Kept
  <2>2. CASE e \in auditEvents
    BY <2>1, <2>2 DEF TrailInv, SelectedAsLeft
  <2>3. CASE e \in recorded[k]
    <3>1. /\ e.id \in RowIds /\ Exists(e.id) /\ before[r] \in Row /\ Advanced(before[r], table[e.id])
      BY <1>1, <2>1, <2>3, CommittedEvent DEF TypeInv, RequestInv, VersionInv, SeenInv
    <3>2. table[e.id] \in Row
      BY <3>1, ExistingRow DEF TypeInv
    <3>3. e.after.version = table[e.id].version + 1
      BY <2>3, <3>1, CommittedEvent DEF Led
    <3> QED
      BY <2>1, <3>1, <3>2, <3>3 DEF Advanced, Row
  <2> QED
    BY <1>1, <2>2, <2>3
<1>5. ASSUME NEW e \in auditEvents', NEW f \in auditEvents', e.id = f.id, Led(e),
             f.action = "UPDATED", f.before.version = e.after.version
      PROVE  f.before = e.after
  <2>1. CASE e \in auditEvents /\ f \in auditEvents
    BY <1>5, <2>1 DEF TrailInv, AuditTrailIsOneHistory, Led
  <2>2. CASE e \in auditEvents /\ f \in recorded[k]
    <3>1. f.id = request[k].id /\ f.before = before[k] /\ request[k].op = "update"
      BY <1>5, <2>2, CommittedEvent
    <3> QED
      BY <1>1, <1>5, <2>2, <3>1 DEF TrailInv, SelectedAsLeft
  <2>3. CASE e \in recorded[k] /\ f \in auditEvents
    <3>1. /\ f.before \in Row /\ f.before.version < f.after.version
          /\ f.after \in Row /\ f.after.version <= table[f.id].version
          /\ table[f.id] \in Row /\ Exists(f.id)
      BY <1>2, <1>5, <2>3 DEF TrailInv, EventLed, Led
    <3>2. e.after.version = table[f.id].version + 1
      BY <1>5, <2>3, <3>1, CommittedEvent DEF Led
    <3> QED
      BY <1>5, <3>1, <3>2 DEF Row
  <2>4. CASE e \in recorded[k] /\ f \in recorded[k]
    <3>1. /\ f.before = before[k] /\ before[k] \in Row /\ e.after = pending[k]
          /\ pending[k].version = before[k].version + 1
      BY <1>5, <2>4, CommittedEvent
    <3> QED
      BY <1>5, <3>1 DEF Row
  <2> QED
    BY <1>1, <2>1, <2>2, <2>3, <2>4
<1>6. AuditTrailIsOneHistory'
  BY <1>5 DEF AuditTrailIsOneHistory, Led
<1> QED
  BY <1>3, <1>4, <1>6 DEF TrailInv

LEMMA OneHistory == Spec /\ []NobodyAhead => []AuditTrailIsOneHistory
<1>1. Init => TrailInv
  BY DEF Init, TrailInv, AuditTrailIsOneHistory
<1>2. TypeInv /\ VersionInv /\ TrailInv /\ [Next]_vars => TrailInv'
  BY TypeInvNext, TrailCalm, TrailCommit, OnlyCommitsWrite
<1>3. TrailInv => AuditTrailIsOneHistory
  BY DEF TrailInv
<1> QED
  BY <1>1, <1>2, <1>3, VersionInvariant, PTL DEF Spec

-----------------------------------------------------------------------------
(* Refinement of AtomicRecords *)

\* A row is held by a request that has selected it, and by no POST.
ReadInv ==
    \A r \in Requests :
        before[r] # Absent => pc[r] \in {"write", "audit", "commit"} /\ request[r].op # "create"

LEMMA ReadInvNext == TypeInv /\ ReadInv /\ [Next]_vars => ReadInv'
<1> SUFFICES ASSUME TypeInv, ReadInv, [Next]_vars, NEW r \in Requests, before'[r] # Absent
             PROVE  pc'[r] \in {"write", "audit", "commit"} /\ request'[r].op # "create"
  BY DEF ReadInv
<1>1. CASE UNCHANGED vars
  BY <1>1 DEF vars, ReadInv
<1>2. ASSUME NEW k \in Requests, NEW ask \in Ask, Submit(k, ask)
      PROVE  pc'[r] \in {"write", "audit", "commit"} /\ request'[r].op # "create"
  BY <1>2 DEF Submit, TypeInv, TypeOK, RequestTypeOK, ReadInv
<1>3. ASSUME NEW k \in Requests, Select(k) \/ SelectOwner(k)
      PROVE  pc'[r] \in {"write", "audit", "commit"} /\ request'[r].op # "create"
  BY <1>3 DEF Select, SelectOwner, End, TypeInv, TypeOK, RequestTypeOK, ReadInv
<1>4. ASSUME NEW k \in Requests, End(k, "refused") \/ End(k, "done") \/ End(k, "aborted")
      PROVE  pc'[r] \in {"write", "audit", "commit"} /\ request'[r].op # "create"
  BY <1>4 DEF End, TypeInv, TypeOK, RequestTypeOK, ReadInv
<1>5. ASSUME NEW k \in Requests, NEW row \in Row, Wrote(k, row)
      PROVE  pc'[r] \in {"write", "audit", "commit"} /\ request'[r].op # "create"
  BY <1>5 DEF Wrote, TypeInv, TypeOK, RequestTypeOK, ReadInv
<1>6. ASSUME NEW k \in Requests, Audit(k)
      PROVE  pc'[r] \in {"write", "audit", "commit"} /\ request'[r].op # "create"
  BY <1>6 DEF Audit, TypeInv, TypeOK, RequestTypeOK, ReadInv
<1> QED
  BY <1>1, <1>2, <1>3, <1>4, <1>5, <1>6, WriteEffect DEF Next, Serve, Commit, Abort

Done == {r \in Requests : pc[r] = "done"}

\* Up to its commit a request does nothing that others see.
LEMMA UnseenUntilCommit ==
    ASSUME TypeInv, NEW k \in Requests, Serve(k) \/ Abort(k), ~Commit(k)
    PROVE  request' = request /\ Done' = Done
<1>1. ASSUME NEW how \in {"refused", "aborted"}, End(k, how), pc[k] # "done"
      PROVE  request' = request /\ Done' = Done
  BY <1>1 DEF End, Done, TypeInv, TypeOK, RequestTypeOK
<1>2. ASSUME NEW row \in Row, Wrote(k, row), pc[k] # "done"
      PROVE  request' = request /\ Done' = Done
  BY <1>2 DEF Wrote, Done, TypeInv, TypeOK, RequestTypeOK
<1>3. CASE Select(k) \/ SelectOwner(k)
  BY <1>1, <1>3 DEF Select, SelectOwner, Done, TypeInv, TypeOK, RequestTypeOK
<1>4. CASE Insert(k) \/ Update(k) \/ Archive(k)
  BY <1>1, <1>2, <1>4, WriteEffect
<1>5. CASE Audit(k)
  BY <1>5 DEF Audit, Done, TypeInv, TypeOK, RequestTypeOK
<1>6. CASE Abort(k)
  BY <1>1, <1>6 DEF Abort
<1> QED
  BY <1>3, <1>4, <1>5, <1>6 DEF Serve

ActionsOf(r) == {e.action : e \in EventsOf(r)}

LEMMA ActionsByOperation ==
    ASSUME NEW r \in Requests, request[r] \in Ask
    PROVE  /\ request[r].op = "create" => ActionsOf(r) = {"CREATED"}
           /\ request[r].op = "archive" => ActionsOf(r) = {"ARCHIVED"}
           /\ request[r].op = "update" =>
                 ActionsOf(r) = {"UPDATED"} \cup
                    (IF request[r].id \in Documents /\ before[r].status # pending[r].status
                     THEN {"EXPIRY_STATUS_CHANGED"} ELSE {})
<1>1. \A action : EventOf(r, action).action = action
  BY DEF EventOf
<1> QED
  BY <1>1 DEF ActionsOf, EventsOf

\* The trail grows in a commit by what tells of it.
LEMMA CommitTells ==
    ASSUME TypeInv, VersionInv, ReadInv, NEW k \in Requests, Commit(k)
    PROVE  Store!Tells(k, ActionsOf(k), pending[k])
<1>1. /\ request[k] \in Ask /\ Allows(k) /\ pc[k] = "commit"
      /\ recorded[k] \subseteq EventsOf(k)
      /\ auditEvents' = auditEvents \cup recorded[k]
      /\ unaudited' = IF recorded[k] = EventsOf(k) THEN unaudited ELSE unaudited \cup {k}
  BY CommitEffect
<1>2. \A e \in EventsOf(k) : /\ e.request = k /\ e.id = request[k].id
                             /\ e.before = before[k] /\ e.after = pending[k]
                             /\ e.action \in ActionsOf(k)
  BY <1>1, EventFields DEF ActionsOf
<1>3. auditEvents' \ auditEvents = recorded[k]
  <2>1. \A e \in auditEvents : e.request # k
    BY <1>1 DEF TypeInv, AuditIsAtomic
  <2> QED
    BY <1>1, <1>2, <2>1
<1>4. "ARCHIVED" \in ActionsOf(k) \/ before[k] = table[request[k].id]
  <2>1. CASE request[k].op = "create"
    BY <1>1, <2>1 DEF Allows, Exists, ReadInv
  <2>2. CASE request[k].op # "create"
    BY <1>1, <2>2, CommitReplaces, ActionsByOperation DEF Allows, Live
  <2> QED
    BY <2>1, <2>2
<1>5. "ARCHIVED" \in ActionsOf(k) => ActionsOf(k) = {"ARCHIVED"}
  BY <1>1, ActionsByOperation DEF Ask
<1>6. \A e \in recorded[k] :
         /\ e.request = k /\ e.id = request[k].id /\ e.action \in ActionsOf(k) /\ e.after = pending[k]
         /\ e.action # "ARCHIVED" => e.before = table[request[k].id]
  BY <1>1, <1>2, <1>4, <1>5
<1>7. k \notin unaudited' => ActionsOf(k) = {e.action : e \in recorded[k]}
  BY <1>1 DEF ActionsOf
<1> QED
  BY <1>1, <1>3, <1>6, <1>7 DEF Store!Tells

\* A commit is one step of the store.
LEMMA CommitStore ==
    ASSUME TypeInv, VersionInv, ReadInv, NEW k \in Requests, Commit(k)
    PROVE  k \notin Done /\ (Store!Create(k) \/ Store!Patch(k) \/ Store!Archive(k))
<1> DEFINE id == request[k].id
<1>1. /\ request[k] \in Ask /\ id \in RowIds /\ Allows(k) /\ pc[k] = "commit" /\ pending[k] \in Row
      /\ Written(k)
  BY CommitEffect DEF Ask, VersionInv, SeenInv
<1>2. k \notin Done /\ Done' = Done \cup {k}
  BY <1>1 DEF Commit, End, Done, TypeInv, TypeOK, RequestTypeOK
<1>3. Store!Becomes(k, pending[k], ActionsOf(k))
  BY <1>2, CommitTells DEF Store!Becomes, Commit, End, Done
<1>4. CASE request[k].op = "create"
  <2>1. PICK status \in FirstStatuses(id) : pending[k] = Fresh(status)
    BY <1>1, <1>4 DEF Written
  <2>2. pending[k] = Store!New(status) /\ status \in Store!FirstStatus(id)
    BY <2>1 DEF Fresh, Store!New, FirstStatuses, Store!FirstStatus
  <2>3. table[id] = Absent /\ ActionsOf(k) = {"CREATED"}
    BY <1>1, <1>4, ActionsByOperation DEF Allows, Exists
  <2>4. Store!Becomes(k, Store!New(status), {"CREATED"})
    BY <1>3, <2>2, <2>3 DEF Store!Becomes, Store!Tells
  <2>5. Store!Create(k)
    BY <1>4, <2>2, <2>3, <2>4 DEF Store!Create
  <2> QED
    BY <1>2, <2>5
<1>5. CASE request[k].op = "update"
  <2>1. Live(id) /\ Store!Live(id)
    BY <1>1, <1>5 DEF Allows, Live, Exists, Store!Live
  <2>2. /\ before[k] = table[id] /\ request[k].version = before[k].version /\ before[k] \in Row
    BY <1>5, <2>1, CommitReplaces DEF Live
  <2>3. PICK status \in NextStatus(request[k], before[k]) : pending[k] = Patched(k, status)
    BY <1>5, <2>1, CommitReplaces DEF Live
  <2>4. status \in Store!Statuses(request[k])
    BY <2>2, <2>3 DEF NextStatus, Store!Statuses
  <2> DEFINE row == [version |-> request[k].version + 1,
                     fields |-> [f \in Fields |-> IF f \in request[k].patch THEN k
                                                  ELSE table[id].fields[f]],
                     status |-> status, deleted |-> FALSE]
             actions == {"UPDATED"} \cup (IF id \in Documents /\ status # table[id].status
                                         THEN {"EXPIRY_STATUS_CHANGED"} ELSE {})
  <2>5. pending[k] = row
    BY <2>2, <2>3 DEF Patched
  <2>6. pending[k].status = status
    BY <2>5
  <2>7. ActionsOf(k) = actions
    BY <1>1, <1>5, <2>2, <2>6, ActionsByOperation
  <2>8. Store!Becomes(k, row, actions)
    <3> HIDE DEF row, actions
    <3> QED
      BY <1>3, <2>5, <2>7 DEF Store!Becomes, Store!Tells
  <2>9. Store!Patch(k)
    BY <1>5, <2>1, <2>2, <2>4, <2>8 DEF Store!Patch
  <2> QED
    BY <1>2, <2>9
<1>6. CASE request[k].op = "archive"
  <2>1. pending[k] = ArchivedRow(id) /\ ActionsOf(k) = {"ARCHIVED"}
    BY <1>1, <1>6, ActionsByOperation DEF Written
  <2>2. Store!Live(id)
    BY <1>1, <1>6 DEF Allows, Live, Exists, Store!Live
  <2>3. Store!Becomes(k, ArchivedRow(id), {"ARCHIVED"})
    BY <1>3, <2>1 DEF Store!Becomes, Store!Tells
  <2>4. Store!Archive(k)
    BY <1>6, <2>2, <2>3 DEF Store!Archive, ArchivedRow
  <2> QED
    BY <1>2, <2>4
<1> QED
  BY <1>1, <1>4, <1>5, <1>6 DEF Ask

LEMMA StoreInit == Init => Store!Init
BY DEF Init, Store!Init, Fresh, Store!New, RowIds, Store!RowIds

LEMMA StoreNext ==
    TypeInv /\ VersionInv /\ ReadInv /\ [Next]_vars => [Store!Next]_(Store!vars)
<1> SUFFICES ASSUME TypeInv, VersionInv, ReadInv, [Next]_vars
             PROVE  Store!Next \/ UNCHANGED Store!vars
  OBVIOUS
<1>1. CASE UNCHANGED vars
  BY <1>1 DEF vars, Store!vars
<1>2. ASSUME NEW k \in Requests, NEW ask \in Ask, Submit(k, ask) PROVE Store!Next
  <2>1. request'[k] = ask /\ request' = [request EXCEPT ![k] = request'[k]]
    BY <1>2 DEF Submit, TypeInv, TypeOK, RequestTypeOK
  <2>2. k \notin Done /\ Done' = Done
    BY <1>2 DEF Submit, Done, TypeInv, TypeOK, RequestTypeOK
  <2>3. Store!Ask(k)
    BY <1>2, <2>1, <2>2 DEF Store!Ask, Submit, Done
  <2> QED
    BY <2>3 DEF Store!Next
<1>3. ASSUME NEW k \in Requests, Commit(k) PROVE Store!Next
  BY <1>3, CommitStore DEF Store!Next, Done
<1>4. ASSUME NEW k \in Requests, Serve(k) \/ Abort(k), ~\E r \in Requests : Commit(r)
      PROVE  UNCHANGED Store!vars
  <2>1. Calm
    BY <1>4, OnlyCommitsWrite
  <2> QED
    BY <1>4, <2>1, UnseenUntilCommit DEF Store!vars, Calm, Done
<1> QED
  BY <1>1, <1>2, <1>3, <1>4 DEF Next

LEMMA StoreIsImplemented == Spec /\ []NobodyAhead => StoreSpec
<1>1. Init => ReadInv
  BY DEF Init, ReadInv
<1>2. ReadInv /\ (TypeInv /\ VersionInv) /\ [Next]_vars => ReadInv'
  BY ReadInvNext
<1> QED
  BY <1>1, <1>2, StoreInit, StoreNext, VersionInvariant, PTL DEF Spec, StoreSpec, Store!Spec

-----------------------------------------------------------------------------
(* Whose versions the lock relies on *)

\* A version that a client has read stays behind the row, from the request to the write.
AheadInv ==
    \A r \in Requests :
        /\ pc[r] = "select" /\ request[r].op = "update" =>
              Exists(request[r].id) /\ request[r].version <= table[request[r].id].version
        /\ pc[r] = "write" /\ request[r].op = "update" => request[r].version <= before[r].version

\* How a request gets to its select and to its write.
LEMMA OnlyPatchesMoveOn ==
    ASSUME TypeInv, [Next]_vars, NEW r \in Requests
    PROVE  /\ pc'[r] = "select" =>
                 \/ pc[r] = "select" /\ request'[r] = request[r]
                 \/ \E ask \in Ask : Submit(r, ask) /\ request'[r] = ask
           /\ pc'[r] = "write" => request'[r] = request[r] /\ pc[r] \in {"select", "write"}
           /\ pc[r] = "write" /\ pc'[r] = "write" => before'[r] = before[r]
           /\ pc[r] = "select" /\ pc'[r] = "write" /\ request[r].op # "create" =>
                 Live(request[r].id) /\ before'[r] = table[request[r].id]
<1>1. CASE UNCHANGED vars
  BY <1>1 DEF vars
<1>2. ASSUME NEW k \in Requests, NEW ask \in Ask, Submit(k, ask)
      PROVE  \/ k # r /\ Kept(r)
             \/ k = r /\ pc[r] = "idle" /\ pc'[r] = "select" /\ request'[r] = ask
  BY <1>2 DEF Submit, Kept, TypeInv, TypeOK, RequestTypeOK
<1>3. ASSUME NEW k \in Requests, Insert(k) \/ Update(k) \/ Archive(k)
      PROVE  Kept(r) \/ pc'[r] \notin {"select", "write"}
  BY <1>3, WriteEffect, WroteMoves, EndMoves DEF TypeInv, Moves
<1>4. ASSUME NEW k \in Requests, Audit(k) \/ Commit(k) \/ Abort(k)
      PROVE  Kept(r) \/ pc'[r] \notin {"select", "write"}
  BY <1>4 DEF Audit, Commit, Abort, End, Kept, TypeInv, TypeOK, RequestTypeOK
<1>5. ASSUME NEW k \in Requests, Select(k) \/ SelectOwner(k)
      PROVE  \/ Kept(r)
             \/ pc'[r] \notin {"select", "write"}
             \/ /\ pc[r] = "select" /\ pc'[r] = "write" /\ request'[r] = request[r]
                /\ request[r].op # "create" =>
                      Live(request[r].id) /\ before'[r] = table[request[r].id]
  <2>1. CASE k = r
    BY <1>5, <2>1 DEF Select, SelectOwner, End, TypeInv, TypeOK, RequestTypeOK
  <2>2. CASE k # r
    BY <1>5, <2>2 DEF Select, SelectOwner, End, Kept, TypeInv, TypeOK, RequestTypeOK
  <2> QED
    BY <2>1, <2>2
<1> QED
  BY <1>1, <1>2, <1>3, <1>4, <1>5 DEF Next, Serve, Kept

LEMMA ObservedAsk ==
    ASSUME TypeInv, ObservedVersions, NEW r \in Requests, NEW ask \in Ask, Submit(r, ask),
           ask.op = "update"
    PROVE  Exists(ask.id) /\ ask.version <= table[ask.id].version
<1>1. Exists(ask.id) /\ ask.version \in 1..table[ask.id].version /\ ask.id \in RowIds
  BY DEF Submit, VersionsFor, Ask
<1>2. table[ask.id].version \in Nat
  BY <1>1, ExistingRow DEF TypeInv, Row
<1> QED
  BY <1>1, <1>2

\* No row goes back to a lower version.
LEMMA VersionsGrow ==
    ASSUME TypeInv, VersionInv, [Next]_vars, NEW id \in RowIds, Exists(id)
    PROVE  /\ Exists(id)' /\ table[id].version \in Nat /\ table'[id].version \in Nat
           /\ table[id].version <= table'[id].version
<1>1. table[id] \in Row
  BY ExistingRow DEF TypeInv
<1>2. CASE \E k \in Requests : Commit(k)
  BY <1>2, CommitAdvances DEF Advanced, Row
<1>3. CASE ~\E k \in Requests : Commit(k)
  BY <1>1, <1>3, OnlyCommitsWrite DEF Calm, Exists, Row
<1> QED
  BY <1>2, <1>3

LEMMA AheadInvNext ==
    ObservedVersions /\ TypeInv /\ VersionInv /\ AheadInv /\ [Next]_vars => AheadInv'
<1> SUFFICES ASSUME ObservedVersions, TypeInv, VersionInv, AheadInv, [Next]_vars,
                    NEW r \in Requests, pc'[r] \in {"select", "write"}, request'[r].op = "update"
             PROVE  /\ pc'[r] = "select" =>
                          /\ table'[request'[r].id] # Absent
                          /\ request'[r].version <= table'[request'[r].id].version
                    /\ pc'[r] = "write" => request'[r].version <= before'[r].version
  BY DEF AheadInv, Exists
<1>1. CASE pc'[r] = "write"
  <2>1. request'[r] = request[r] /\ pc[r] \in {"select", "write"}
    BY <1>1, OnlyPatchesMoveOn
  <2>2. CASE pc[r] = "select"
    BY <1>1, <2>1, <2>2, OnlyPatchesMoveOn DEF AheadInv
  <2>3. CASE pc[r] = "write"
    BY <1>1, <2>1, <2>3, OnlyPatchesMoveOn DEF AheadInv
  <2> QED
    BY <1>1, <2>1, <2>2, <2>3
<1>2. CASE pc'[r] = "select"
  <2> DEFINE id == request'[r].id
  <2>1. request'[r] \in Ask /\ Exists(id) /\ request'[r].version <= table[id].version
    <3>1. CASE pc[r] = "select" /\ request'[r] = request[r]
      BY <3>1 DEF AheadInv, TypeInv, RequestInv
    <3>2. CASE \E ask \in Ask : Submit(r, ask) /\ request'[r] = ask
      BY <3>2, ObservedAsk
    <3> QED
      BY <1>2, <3>1, <3>2, OnlyPatchesMoveOn
  <2>2. id \in RowIds /\ request'[r].version \in Nat
    BY <2>1 DEF Ask
  <2> QED
    BY <1>2, <2>1, <2>2, VersionsGrow DEF Exists
<1> QED
  BY <1>1, <1>2

\* A client that sends only versions it has read is ahead of nobody.
LEMMA ObservedIsNotAhead == ASSUME ObservedVersions PROVE Spec => []NobodyAhead
<1>1. Init => TypeInv /\ VersionInv /\ AheadInv
  BY TypeInvInit DEF Init, VersionInv, SeenInv, AheadInv
<1>2. AheadInv => NobodyAhead
  BY DEF AheadInv, NobodyAhead
<1>3. (TypeInv /\ VersionInv /\ AheadInv) /\ [Next]_vars => (TypeInv /\ VersionInv /\ AheadInv)'
  BY <1>2, TypeInvNext, VersionInvNext, AheadInvNext
<1> QED
  BY <1>1, <1>2, <1>3, PTL DEF Spec

\* The update tests the version a client sends and counts from the row selected before.  All
\* that the lock promises holds of every behaviour in which no PATCH that is about to write
\* names a version beyond its select, whatever clients send: so testing the version at the
\* select as well would be enough, and a violation takes a client ahead of the row.
THEOREM OnlyVersionsAheadBreakTheLock ==
    Spec /\ []NobodyAhead =>
        /\ []OneWinnerPerVersion
        /\ NoLostUpdate
        /\ OverrideSticks
        /\ []AuditTrailIsOneHistory
        /\ StoreSpec
BY OneWinner, NoUpdateIsLost, TheOverrideSticks, OneHistory, StoreIsImplemented

\* Of the PATCHes that name one version of a row at most one succeeds, if clients send
\* versions that they have read.
THEOREM RecordsOneWinner == ASSUME ObservedVersions PROVE Spec => []OneWinnerPerVersion
BY ObservedIsNotAhead, OnlyVersionsAheadBreakTheLock

\* No lost update: what a commit changes of a row, its request has set; all the rest is
\* as committed before it.
THEOREM RecordsNoLostUpdate == ASSUME ObservedVersions PROVE Spec => NoLostUpdate
BY ObservedIsNotAhead, OnlyVersionsAheadBreakTheLock

\* A manual status of a document gives way to another manual one only, though requests that
\* were computing a status are under way.
THEOREM RecordsOverrideSticks == ASSUME ObservedVersions PROVE Spec => OverrideSticks
BY ObservedIsNotAhead, OnlyVersionsAheadBreakTheLock

\* The events of a row make one history: what an update started from is what the event that
\* led to its version left.
THEOREM RecordsOneHistory == ASSUME ObservedVersions PROVE Spec => []AuditTrailIsOneHistory
BY ObservedIsNotAhead, OnlyVersionsAheadBreakTheLock

\* Each request that succeeds is as if it had run alone at the moment of its commit: it finds
\* the version it names, changes what it asks for in the row as it is then, and the trail tells
\* of just that.  A request that does not succeed is as if it had not run.
THEOREM RecordsAreAtomic == ASSUME ObservedVersions PROVE Spec => StoreSpec
BY ObservedIsNotAhead, OnlyVersionsAheadBreakTheLock

-----------------------------------------------------------------------------
(* How far a request is, and whom it waits for *)

\* The steps that are left of a request, 5 when it has yet to come.
StepsToGo(r) ==
    IF pc[r] = "idle" THEN 5
    ELSE IF pc[r] = "select" THEN 4
    ELSE IF pc[r] = "write" THEN 3
    ELSE IF pc[r] = "audit" THEN 2
    ELSE IF pc[r] = "commit" THEN 1
    ELSE 0

StepsAreNatural == \A r \in Requests : StepsToGo(r) \in 0..5

\* A step brings one request nearer to its end and sets no other back.
RunsDown ==
    \E k \in Requests :
        /\ StepsToGo(k)' < StepsToGo(k)
        /\ \A r \in Requests \ {k} : StepsToGo(r)' = StepsToGo(r)

\* Whoever finds its row locked waits for one request, which is past its write: what is
\* left to that one, audit and commit, waits for no lock.
WaitsForOneWriter ==
    \A r \in Requests :
        pc[r] = "write" /\ ~Unlocked(request[r].id) =>
            \E q \in Requests \ {r} :
                \A p \in Requests : Locks(p, request[r].id) <=> p = q

LEMMA StepRunsDown ==
    ASSUME TypeInv, Next
    PROVE  RunsDown
<1>1. ASSUME NEW k \in Requests, Moves(k), StepsToGo(k)' < StepsToGo(k)
      PROVE  RunsDown
  BY <1>1 DEF RunsDown, Moves, Kept, StepsToGo
<1>2. ASSUME NEW k \in Requests, NEW how \in {"done", "refused", "aborted"}, End(k, how),
             pc[k] \in {"select", "write", "audit", "commit"}
      PROVE  RunsDown
  <2>1. Moves(k) /\ pc'[k] = how
    BY <1>2, EndMoves DEF TypeInv
  <2>2. StepsToGo(k)' < StepsToGo(k)
    BY <1>2, <2>1 DEF StepsToGo
  <2> QED
    BY <1>1, <2>1, <2>2
<1>3. ASSUME NEW k \in Requests, NEW ask \in Ask, Submit(k, ask) PROVE RunsDown
  <2>1. Moves(k) /\ pc[k] = "idle" /\ pc'[k] = "select"
    BY <1>3 DEF Submit, TypeInv, TypeOK, RequestTypeOK, Moves, Kept
  <2> QED
    BY <1>1, <2>1 DEF StepsToGo
<1>4. ASSUME NEW k \in Requests, Select(k) \/ SelectOwner(k) PROVE RunsDown
  <2>1. pc[k] = "select"
    BY <1>4 DEF Select, SelectOwner
  <2>2. CASE ~End(k, "refused")
    <3>1. Moves(k) /\ pc'[k] = "write"
      BY <1>4, <2>2 DEF Select, SelectOwner, TypeInv, TypeOK, RequestTypeOK, Moves, Kept
    <3> QED
      BY <1>1, <2>1, <3>1 DEF StepsToGo
  <2> QED
    BY <1>2, <2>1, <2>2
<1>5. ASSUME NEW k \in Requests, Insert(k) \/ Update(k) \/ Archive(k) PROVE RunsDown
  <2>1. pc[k] = "write"
    BY <1>5, WriteEffect
  <2>2. ASSUME NEW row \in Row, Wrote(k, row) PROVE RunsDown
    <3>1. Moves(k) /\ pc'[k] = "audit"
      BY <2>2, WroteMoves DEF TypeInv
    <3> QED
      BY <1>1, <2>1, <3>1 DEF StepsToGo
  <2> QED
    BY <1>2, <1>5, <2>1, <2>2, WriteEffect
<1>6. ASSUME NEW k \in Requests, Audit(k) PROVE RunsDown
  <2>1. Moves(k) /\ pc[k] = "audit" /\ pc'[k] = "commit"
    BY <1>6 DEF Audit, TypeInv, TypeOK, RequestTypeOK, Moves, Kept
  <2> QED
    BY <1>1, <2>1 DEF StepsToGo
<1>7. ASSUME NEW k \in Requests, Commit(k) \/ Abort(k) PROVE RunsDown
  BY <1>2, <1>7 DEF Commit, Abort
<1> QED
  BY <1>3, <1>4, <1>5, <1>6, <1>7 DEF Next, Serve

\* Every request, whatever versions clients send, is through after five steps of its own, and
\* where it has to wait for a row it waits for one request that waits for nobody: the safety
\* core of the claim that no request hangs.
THEOREM RecordsRunDown == Spec => []StepsAreNatural /\ []WaitsForOneWriter /\ [][RunsDown]_vars
<1>1. TypeInv => StepsAreNatural
  BY DEF StepsAreNatural, StepsToGo
<1>2. TypeInv => WaitsForOneWriter
  <2> SUFFICES ASSUME TypeInv, NEW r \in Requests, pc[r] = "write", ~Unlocked(request[r].id)
               PROVE  \E q \in Requests \ {r} :
                         \A p \in Requests : Locks(p, request[r].id) <=> p = q
    BY DEF WaitsForOneWriter
  <2>1. PICK q \in Requests : Locks(q, request[r].id)
    BY DEF Unlocked
  <2>2. q # r /\ \A p \in Requests : Locks(p, request[r].id) <=> p = q
    BY <2>1 DEF Locks, TypeInv, OneHolder
  <2> QED
    BY <2>2
<1>3. TypeInv /\ [Next]_vars => [RunsDown]_vars
  BY StepRunsDown
<1> QED
  BY <1>1, <1>2, <1>3, TypeInvariant, PTL DEF Spec
=============================================================================
