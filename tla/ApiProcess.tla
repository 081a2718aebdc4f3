----------------------------- MODULE ApiProcess -----------------------------
(***************************************************************************)
(* The API process: requests that pass the guards and run transactions in  *)
(* the context of their tenant, readiness probes, and the shutdown on      *)
(* SIGTERM, all over one pool of connections.                              *)
(*                                                                         *)
(* An action is a stretch of code between two awaits. A request runs one   *)
(* transaction, or several in a row (an upload), always of the form BEGIN, *)
(* setTenantContext, statements, COMMIT.                                   *)
(***************************************************************************)
EXTENDS Guards, Pool, FiniteSets

CONSTANTS
    Requests,        \* bound: requests to guarded routes
    Probes,          \* bound: GET /health/ready
    Calls,           \* bound: what each request may ask for, and with which token
    TransactionsOf,  \* how many transactions a route runs, at most
    Enqueuing,       \* the routes that signal their end to a queue in Redis: POST /import
    MaxFaults,       \* bound: backends that die and clients that hang up
    Impatient        \* bound: the requests whose client may hang up

ASSUME CallersAssumption == Callers = Requests \cup Probes /\ Requests \cap Probes = {}
ASSUME CallsAssumption == Calls \in [Requests -> SUBSET [token : Tokens, route : Routes]]
ASSUME RoutesAssumption == TransactionsOf \in [Routes -> Nat \ {0}]
ASSUME FaultsAssumption == MaxFaults \in Nat
ASSUME QueueAssumption == Enqueuing \subseteq Routes
ASSUME ImpatientAssumption == Impatient \subseteq Requests /\ IsFiniteSet(Impatient)

VARIABLES
    phase,      \* of the process, see main.ts
    drain,      \* how the race of the drain ended
    importQueue, \* the connection of ImportQueueService
    gone,       \* the requests whose client has hung up: no answer reaches them
    pc,         \* where a request stands
    call,       \* its token and its route
    tenant,     \* req.tenantId
    left,       \* the transactions it has still to run
    saw,        \* for each of its statements, the tenants whose rows it could see
    answer,     \* the HTTP status
    probe,      \* where a readiness probe stands, or the HTTP status it was given
    checkDb,    \* its check of the database
    job,        \* its SELECT 1, which goes on after the check has timed out
    faults      \* the backends that have died

requestVars == <<pc, call, tenant, left, saw, answer>>
probeVars == <<probe, checkDb, job>>
processVars == <<phase, drain, importQueue, gone, faults>>
vars == <<phase, drain, importQueue, gone, faults, pc, call, tenant, left, saw, answer, probe, checkDb, job,
          client, holds, queue, pool>>

NoCall == [token |-> "none", route |-> "none"]

Steps == {"unborn", "authenticate", "await lookup", "lookup", "open", "await client", "begin",
          "context", "statement", "commit", "reply", "answered"}

\* In these steps the request has a connection checked out.
WithClient == {"lookup", "begin", "context", "statement", "commit"}

Answers == {200, 401, 403, 409, 500}

Phases == {"up", "draining", "closing", "exited"}

\* Counted against MaxFaults.
Troubles == faults + Cardinality(gone)

Up == phase # "exited"

\* The caller has no connection to the server open.
Closed(caller) ==
    IF caller \in Requests THEN pc[caller] \in {"unborn", "answered"} \/ caller \in gone
    ELSE probe[caller] # "checking"

Init ==
    /\ PoolInit
    /\ phase = "up" /\ drain = "open" /\ importQueue = "open" /\ gone = {} /\ faults = 0
    /\ pc = [r \in Requests |-> "unborn"]
    /\ call = [r \in Requests |-> NoCall]
    /\ tenant = [r \in Requests |-> NoTenant]
    /\ left = [r \in Requests |-> 0]
    /\ saw = [r \in Requests |-> {}]
    /\ answer = [r \in Requests |-> 0]
    /\ probe = [p \in Probes |-> "unborn"]
    /\ checkDb = [p \in Probes |-> "pending"]
    /\ job = [p \in Probes |-> "none"]

-----------------------------------------------------------------------------
(* A request *)

Goto(r, step) == pc' = [pc EXCEPT ![r] = step] /\ UNCHANGED answer

\* The answer goes out and the request object with it.
Reply(r, status) ==
    /\ pc' = [pc EXCEPT ![r] = "answered"]
    /\ answer' = [answer EXCEPT ![r] = status]
    /\ call' = [call EXCEPT ![r] = NoCall]
    /\ tenant' = [tenant EXCEPT ![r] = NoTenant]
    /\ left' = [left EXCEPT ![r] = 0]
    /\ saw' = [saw EXCEPT ![r] = {}]

\* The server accepts requests until the shutdown closes it.
Arrive(r) ==
    /\ phase = "up"
    /\ pc[r] = "unborn"
    /\ \E asked \in Calls[r] : call' = [call EXCEPT ![r] = asked]
    /\ Goto(r, "authenticate")
    /\ UNCHANGED <<tenant, left, saw, probeVars, processVars, poolVars>>

\* A query that finds the pool ending is an error of the request.
Ask(r, step) ==
    \/ Connect(r) /\ Goto(r, step) /\ UNCHANGED <<call, tenant, left, saw>>
    \/ pool = "ending" /\ Reply(r, 500) /\ UNCHANGED poolVars

\* AuthGuard, and TenantMiddleware up to its query.
Authenticate(r) ==
    /\ Up /\ pc[r] = "authenticate"
    /\ \/ /\ call[r].token \notin Verified
          /\ Reply(r, 401) /\ UNCHANGED poolVars
       \/ /\ call[r].token \in Verified /\ OrgOf[call[r].token] = NoOrg
          /\ Reply(r, 403) /\ UNCHANGED poolVars
       \/ /\ call[r].token \in Verified /\ OrgOf[call[r].token] # NoOrg
          /\ Ask(r, "await lookup")
    /\ UNCHANGED <<probeVars, processVars>>

\* Mutant: the connection of the lookup is kept for the handler.
LookupAndKeep(r) ==
    /\ Up /\ pc[r] = "lookup" /\ Alive(r)
    /\ \/ /\ Resolved(call[r].token) = {} \/ ~Permits(call[r].token, call[r].route)
          /\ Reply(r, 403) /\ Release(r, Session(r))
       \/ /\ Permits(call[r].token, call[r].route)
          /\ \E t \in Resolved(call[r].token) : tenant' = [tenant EXCEPT ![r] = t]
          /\ left' = [left EXCEPT ![r] = TransactionsOf[call[r].route]]
          /\ Goto(r, "open") /\ UNCHANGED <<call, saw, poolVars>>
    /\ UNCHANGED <<probeVars, processVars>>

\* The resolver's select, on a connection of its own that it hands back at once, the rest of
\* TenantMiddleware, and RbacGuard.
Lookup(r) ==
    /\ Up /\ pc[r] = "lookup" /\ Alive(r)
    /\ Release(r, Session(r))
    /\ \/ /\ Resolved(call[r].token) = {} \/ ~Permits(call[r].token, call[r].route)
          /\ Reply(r, 403)
       \/ /\ Permits(call[r].token, call[r].route)
          /\ \E t \in Resolved(call[r].token) : tenant' = [tenant EXCEPT ![r] = t]
          /\ left' = [left EXCEPT ![r] = TransactionsOf[call[r].route]]
          /\ Goto(r, "open") /\ UNCHANGED <<call, saw>>
    /\ UNCHANGED <<probeVars, processVars>>

\* db.transaction() asks for a connection.
Open(r) ==
    /\ Up /\ pc[r] = "open"
    /\ Ask(r, "await client")
    /\ UNCHANGED <<probeVars, processVars>>

Begin(r) ==
    /\ Up /\ pc[r] = "begin" /\ Alive(r)
    /\ InSession(r, Begun(Session(r)))
    /\ Goto(r, "context")
    /\ UNCHANGED <<call, tenant, left, saw, probeVars, processVars>>

\* SELECT set_config(...) inside the transaction.
SetTenantContext(r) ==
    /\ Up /\ pc[r] = "context" /\ Alive(r)
    /\ InSession(r, WithTenant(Session(r), tenant[r]))
    /\ Goto(r, "statement")
    /\ UNCHANGED <<call, tenant, left, saw, probeVars, processVars>>

\* The statements of the handler, over the rows its session can see.
Statement(r) ==
    /\ Up /\ pc[r] = "statement" /\ Alive(r)
    /\ saw' = [saw EXCEPT ![r] = @ \cup {Visible(Session(r))}]
    /\ Goto(r, "commit")
    /\ UNCHANGED <<call, tenant, left, probeVars, processVars, poolVars>>

\* Mutant: one transaction too many.
NoneLeft(r) == left[r] = 0

LastOne(r) == left[r] = 1

\* COMMIT and release; the handler goes on to its next transaction or is through.
Commit(r) ==
    /\ Up /\ pc[r] = "commit" /\ Alive(r)
    /\ Release(r, Over(Session(r)))
    /\ left' = [left EXCEPT ![r] = @ - 1]
    /\ Goto(r, IF LastOne(r) THEN "reply" ELSE "open")
    /\ UNCHANGED <<call, tenant, saw, probeVars, processVars>>

\* Mutant: a handler that throws does not hand its connection back.
ThrowAndKeep(r) ==
    /\ Up /\ pc[r] = "commit" /\ Alive(r)
    /\ Reply(r, 409)
    /\ UNCHANGED <<probeVars, processVars, poolVars>>

\* The handler throws (404, 409, a constraint): ROLLBACK and release.
Throw(r) ==
    /\ Up /\ pc[r] = "commit" /\ Alive(r)
    /\ Release(r, Over(Session(r)))
    /\ Reply(r, 409)
    /\ UNCHANGED <<probeVars, processVars>>

\* The backend of its connection has died: the next statement fails, and so does ROLLBACK.
Fail(r) ==
    /\ Up /\ pc[r] \in WithClient /\ ~Alive(r)
    /\ Release(r, Broken)
    /\ Reply(r, 500)
    /\ UNCHANGED <<probeVars, processVars>>

Succeed(r) ==
    /\ Up /\ pc[r] = "reply" /\ call[r].route \notin Enqueuing
    /\ Reply(r, 200)
    /\ UNCHANGED <<probeVars, processVars, poolVars>>

\* enqueueCompletion, which waits for Redis as long as that takes, and the answer after it; a
\* connection that the shutdown has closed is an error of the request.
EnqueueCompletion(r) ==
    /\ Up /\ pc[r] = "reply" /\ call[r].route \in Enqueuing
    /\ Reply(r, IF importQueue = "open" THEN 200 ELSE 500)
    /\ UNCHANGED <<probeVars, processVars, poolVars>>

\* The client, or the proxy for it, closes the connection. The handler goes on.
HangUp(r) ==
    /\ phase \in {"draining", "closing"}
    /\ Troubles < MaxFaults /\ r \in Impatient \ gone /\ pc[r] \notin {"unborn", "answered"}
    /\ gone' = gone \cup {r}
    /\ UNCHANGED <<phase, drain, importQueue, faults, requestVars, probeVars, poolVars>>

-----------------------------------------------------------------------------
(* A readiness probe *)

\* Both checks start at once, each racing its timeout.
Probe(p) ==
    /\ phase = "up"
    /\ probe[p] = "unborn"
    /\ probe' = [probe EXCEPT ![p] = "checking"]
    /\ job' = [job EXCEPT ![p] = "await client"]
    /\ Connect(p)
    /\ UNCHANGED <<checkDb, requestVars, processVars>>

\* The promise settles once: what comes later is dropped.
Settle(p, result) ==
    checkDb' = [checkDb EXCEPT ![p] = IF @ = "pending" THEN result ELSE @]

\* SELECT 1, or its failure on a dead connection, in time or not.
SelectOne(p) ==
    /\ Up /\ job[p] = "select"
    /\ job' = [job EXCEPT ![p] = "done"]
    /\ Settle(p, IF Alive(p) THEN "ok" ELSE "fail")
    /\ Release(p, Session(p))
    /\ UNCHANGED <<probe, requestVars, processVars>>

\* Mutant: the timer is cleared at once.
NeverTimesOut(p) == FALSE /\ Settle(p, "fail") /\ UNCHANGED <<probe, job, requestVars, processVars, poolVars>>

DbTimesOut(p) ==
    /\ Up /\ probe[p] = "checking" /\ checkDb[p] = "pending"
    /\ Settle(p, "fail")
    /\ UNCHANGED <<probe, job, requestVars, processVars, poolVars>>

\* computeReadiness
Ready(db, redis) == db = "ok" /\ redis = "ok"

\* The check of Redis has settled as well, one way or the other: it has a timeout too.
ReplyReadiness(p) ==
    /\ Up /\ probe[p] = "checking" /\ checkDb[p] # "pending"
    /\ \E redis \in {"ok", "fail"} :
          probe' = [probe EXCEPT ![p] = IF Ready(checkDb[p], redis) THEN "200" ELSE "503"]
    /\ UNCHANGED <<checkDb, job, requestVars, processVars, poolVars>>

-----------------------------------------------------------------------------
(* The process *)

\* The pool serves the first of its queue.
Serve(caller) ==
    /\ Up
    /\ \E c \in Clients : Grant(caller, c)
    /\ \/ /\ caller \in Requests
          /\ pc' = [pc EXCEPT ![caller] = IF @ = "await lookup" THEN "lookup" ELSE "begin"]
          /\ UNCHANGED job
       \/ /\ caller \in Probes
          /\ job' = [job EXCEPT ![caller] = "select"]
          /\ UNCHANGED pc
    /\ UNCHANGED <<call, tenant, left, saw, answer, probe, checkDb, processVars>>

LoseBackend(c) ==
    /\ Up /\ Troubles < MaxFaults
    /\ faults' = faults + 1
    /\ BackendDies(c)
    /\ UNCHANGED <<phase, drain, importQueue, gone, requestVars, probeVars>>

\* Mutant: the shutdown hooks of the framework, which end the pool ahead of the server.
SignalAndClose ==
    /\ phase = "up"
    /\ phase' = "closing" /\ EndPool
    /\ UNCHANGED <<drain, importQueue, gone, faults, requestVars, probeVars>>

\* SIGTERM or SIGINT, the first one: the server is closed.
Signal ==
    /\ phase = "up"
    /\ phase' = "draining"
    /\ UNCHANGED <<drain, importQueue, gone, faults, requestVars, probeVars, poolVars>>

\* The race of the drain is over, and app.close() begins.
Close(result) ==
    /\ phase = "draining"
    /\ phase' = "closing" /\ drain' = result
    /\ UNCHANGED <<importQueue, gone, faults, requestVars, probeVars, poolVars>>

\* httpServer.close() is through: nobody is connected any more.
Drained == (\A caller \in Callers : Closed(caller)) /\ Close("drained")

DrainTimesOut == Close("timeout")

\* The OnModuleDestroy hooks that app.close() runs first, in whatever order the framework takes
\* them. One ends the pool,
DestroyPool ==
    /\ phase = "closing" /\ pool = "serving"
    /\ EndPool
    /\ UNCHANGED <<processVars, requestVars, probeVars>>

\* and one closes the queue and quits Redis.
CloseRedis ==
    /\ phase = "closing" /\ importQueue = "open"
    /\ importQueue' = "closed"
    /\ UNCHANGED <<phase, drain, gone, faults, requestVars, probeVars, poolVars>>

\* Then it closes the server again, which takes until nobody is connected, drain or no drain.
AppClosed == PoolEnded /\ importQueue = "closed" /\ \A caller \in Callers : Closed(caller)

\* process.exit(0)
Exit ==
    /\ phase = "closing" /\ AppClosed
    /\ phase' = "exited"
    /\ UNCHANGED <<drain, importQueue, gone, faults, requestVars, probeVars, poolVars>>

-----------------------------------------------------------------------------
(* The specification *)

\* What waits for the database only.
RunStatement(r) ==
    \/ Lookup(r) \/ Begin(r) \/ SetTenantContext(r)
    \/ Statement(r) \/ Commit(r) \/ Throw(r)

\* What the event loop does by itself.
Handle(r) == Authenticate(r) \/ Open(r) \/ Fail(r) \/ Succeed(r)
HandleProbe(p) == DbTimesOut(p) \/ ReplyReadiness(p)

Next ==
    \/ \E r \in Requests : Arrive(r) \/ Handle(r) \/ RunStatement(r) \/ EnqueueCompletion(r)
    \/ \E r \in Requests : HangUp(r)
    \/ \E p \in Probes : Probe(p) \/ SelectOne(p) \/ HandleProbe(p)
    \/ \E caller \in Callers : Serve(caller)
    \/ \E c \in Clients : LoseBackend(c)
    \/ Signal \/ Drained \/ DrainTimesOut \/ DestroyPool \/ CloseRedis \/ Exit

Spec == Init /\ [][Next]_vars

\* The event loop runs what is ready and its timers fire; that the database or Redis answers,
\* or that a client hangs up, is not assumed.
FairSpec ==
    /\ Spec
    /\ \A r \in Requests : WF_vars(Handle(r))
    /\ \A p \in Probes : WF_vars(HandleProbe(p))
    /\ WF_vars(\E caller \in Callers : Serve(caller))
    /\ WF_vars(Drained \/ DrainTimesOut) /\ WF_vars(Exit)

\* The database answers every statement in the end.
DatabaseAnswers ==
    /\ \A r \in Requests : WF_vars(RunStatement(r))
    /\ \A p \in Probes : WF_vars(SelectOne(p))

\* Redis answers every command in the end, so that no upload and no hook of app.close() waits
\* for it for ever.
RedisAnswers ==
    /\ \A r \in Requests : WF_vars(EnqueueCompletion(r))
    /\ WF_vars(DestroyPool \/ CloseRedis)

-----------------------------------------------------------------------------
(* Properties *)

RequestTypeOK ==
    /\ pc \in [Requests -> Steps]
    /\ call \in [Requests -> [token : Tokens, route : Routes] \cup {NoCall}]
    /\ tenant \in [Requests -> Tenants \cup {NoTenant}]
    /\ left \in [Requests -> Nat]
    /\ saw \in [Requests -> SUBSET SUBSET Tenants]
    /\ answer \in [Requests -> {0} \cup Answers]

ProbeTypeOK ==
    /\ probe \in [Probes -> {"unborn", "checking", "200", "503"}]
    /\ checkDb \in [Probes -> {"pending", "ok", "fail"}]
    /\ job \in [Probes -> {"none", "await client", "select", "done"}]

ProcessTypeOK ==
    /\ phase \in Phases /\ drain \in {"open", "drained", "timeout"}
    /\ importQueue \in {"open", "closed"} /\ gone \subseteq Impatient /\ faults \in 0..MaxFaults

\* Every variable has its type; the transactions left to a request never run below zero.
TypeOK == ProcessTypeOK /\ RequestTypeOK /\ ProbeTypeOK /\ PoolTypeOK

\* Isolation: whatever connection a request was given and whoever had it before, its
\* statements see the rows of exactly one tenant, the active one that its verified token names,
\* and only when its roles reach the route.
SeesItsTenantOnly ==
    \A r \in Requests : \A seen \in saw[r] :
        \E t \in Tenants : seen = {t} /\ Entitled(call[r].token, call[r].route, t)

\* A connection that is back in the pool carries no tenant and no open transaction on to its next user.
PooledIsClean ==
    \A c \in Clients : CheckedIn(c) => client[c].tenant = NoTenant /\ client[c].state # "in transaction"

\* Nobody waits for a connection while holding one: the pool cannot deadlock, however small.
NoHoldAndWait ==
    \A i \in 1..Len(queue) : holds[queue[i]] = NoClient

\* In the queue of a pool that is ending: it is served no more, and it has no timeout.
Stranded(r) == pool = "ending" /\ pc[r] \in {"await lookup", "await client"}

\* A shutdown breaks nothing off: when the process exits no transaction is open, not even after
\* the timeout, and nobody is left without an answer who has not hung up. No request fails, and
\* none is stranded, because of the shutdown, unless the drain ran into the timeout or its
\* client is gone, for whom the drain does not wait.
ShutdownIsGraceful ==
    /\ phase = "exited" =>
          /\ \A c \in Clients : client[c].state # "in transaction"
          /\ \A caller \in Callers : Closed(caller)
    /\ \A r \in Requests :
          /\ answer[r] = 500 => drain = "timeout" \/ r \in gone \/ faults > 0
          /\ Stranded(r) => drain = "timeout" \/ r \in gone

\* A database and a Redis that answer mean that every request ends, on a pool of any size,
\* unless the process does, or has ended the pool while the request waited in its queue.
EveryRequestEnds ==
    DatabaseAnswers /\ RedisAnswers =>
        \A r \in Requests : pc[r] # "unborn" ~> pc[r] = "answered" \/ Stranded(r) \/ ~Up

\* A probe ends whether the database answers or not, and though it may never get a connection.
EveryProbeEnds ==
    \A p \in Probes : probe[p] = "checking" ~> probe[p] # "checking" \/ ~Up

\* A client waits for a request that will never be answered.
HeldOpen == \E r \in Requests : Stranded(r) /\ r \notin gone

\* With a database and a Redis that answer, a shutdown ends, whatever is under way when it
\* begins, unless a request that the end of the pool has stranded holds its connection open.
ShutdownEnds ==
    DatabaseAnswers /\ RedisAnswers => (phase = "draining" ~> ~Up \/ []HeldOpen)
=============================================================================
