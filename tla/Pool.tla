-------------------------------- MODULE Pool --------------------------------
(***************************************************************************)
(* The connection pool of DrizzleService, shared by every request and      *)
(* probe, and the session of each connection in PostgreSQL as far as row   *)
(* level security looks at it. Operators on the pool's variables, to be    *)
(* composed with the steps of the callers.                                 *)
(***************************************************************************)
EXTENDS Tenancy, Sequences

CONSTANTS
    Clients,     \* the connections of the pool: max in createDb
    NoClient,
    Callers      \* who asks for connections

ASSUME PoolAssumption == NoClient \notin Clients

VARIABLES
    client,      \* the session behind each connection
    holds,       \* the connection a caller has checked out
    queue,       \* the callers that wait for one, in order
    pool         \* "ending" once pool.end() has been called

poolVars == <<client, holds, queue, pool>>

\* tenant is what current_setting('app.current_tenant_id') says, NULL and '' being NoTenant.
Client == [state : {"ready", "in transaction", "dead"}, tenant : Tenants \cup {NoTenant}]

Fresh == [state |-> "ready", tenant |-> NoTenant]
Broken == [state |-> "dead", tenant |-> NoTenant]

PoolTypeOK ==
    /\ client \in [Clients -> Client]
    /\ holds \in [Callers -> Clients \cup {NoClient}]
    /\ queue \in Seq(Callers)
    /\ pool \in {"serving", "ending"}

CheckedIn(c) == \A caller \in Callers : holds[caller] # c

\* No connection is open yet: each is fresh when its first user gets it.
PoolInit ==
    /\ client = [c \in Clients |-> Fresh]
    /\ holds = [caller \in Callers |-> NoClient]
    /\ queue = <<>>
    /\ pool = "serving"

-----------------------------------------------------------------------------
(* The pool *)

\* pool.connect(), with no limit to the time it may take. Once the pool is ending it throws.
Connect(caller) ==
    /\ pool = "serving"
    /\ queue' = Append(queue, caller)
    /\ UNCHANGED <<client, holds, pool>>

\* The first in the queue gets an idle connection or a new one, unless the pool is ending.
Grant(caller, c) ==
    /\ pool = "serving"
    /\ queue # <<>> /\ caller = Head(queue)
    /\ CheckedIn(c)
    /\ queue' = Tail(queue)
    /\ holds' = [holds EXCEPT ![caller] = c]
    /\ UNCHANGED <<client, pool>>

\* The caller hands its connection back as its last statement left it; a dead one is replaced.
Release(caller, left) ==
    /\ client' = [client EXCEPT ![holds[caller]] = IF left.state = "dead" THEN Fresh ELSE left]
    /\ holds' = [holds EXCEPT ![caller] = NoClient]
    /\ UNCHANGED <<queue, pool>>

EndPool == pool' = "ending" /\ UNCHANGED <<client, holds, queue>>

\* pool.end() is through when every connection has come back.
PoolEnded == pool = "ending" /\ \A c \in Clients : CheckedIn(c)

\* A backend goes (restart, failover, pg_terminate_backend): an idle client is discarded by
\* the listener on the pool, a client in use fails its next statement.
BackendDies(c) ==
    /\ client[c].state # "dead"
    /\ client' = [client EXCEPT ![c] = IF CheckedIn(c) THEN Fresh ELSE Broken]
    /\ UNCHANGED <<holds, queue, pool>>

-----------------------------------------------------------------------------
(* Sessions *)

Session(caller) == client[holds[caller]]

Alive(caller) == Session(caller).state # "dead"

InSession(caller, session) ==
    /\ client' = [client EXCEPT ![holds[caller]] = session]
    /\ UNCHANGED <<holds, queue, pool>>

\* BEGIN
Begun(session) == [session EXCEPT !.state = "in transaction"]

\* set_config(..., true): until the transaction ends, and of no effect outside of one.
WithTenant(session, t) ==
    IF session.state = "in transaction" THEN [session EXCEPT !.tenant = t] ELSE session

\* Mutant: set_config(..., false), a setting that outlives the transaction.
OverButKept(session) == [session EXCEPT !.state = "ready"]

\* COMMIT and ROLLBACK: the setting is what it was before BEGIN, that is nothing.
Over(session) == Fresh

\* The policies of row level security: whose rows a statement may see and write.
Visible(session) == {t \in Tenants : session.tenant # NoTenant /\ t = session.tenant}
=============================================================================
