--------------------------- MODULE IsolationProofs ---------------------------
(***************************************************************************)
(* Theorems about ApiProcess: the isolation of the tenants over the shared *)
(* pool, and the shutdown. They rest on the invariant of ApiProofs.        *)
(***************************************************************************)
EXTENDS ApiProofs

\* In each step of a request, what its token and tenant entitle it to, what it has seen, and
\* the session behind its connection: with no tenant before setTenantContext, its own after.
RequestSession(r) ==
    /\ pc[r] \in {"await lookup", "lookup"} => call[r].token \in Verified
    /\ pc[r] \in Inside =>
          tenant[r] \in Tenants /\ Entitled(call[r].token, call[r].route, tenant[r])
    /\ \A seen \in saw[r] : seen = {tenant[r]} /\ pc[r] \in Inside
    /\ pc[r] \in {"lookup", "begin"} => client[holds[r]] \in {Fresh, Broken}
    /\ pc[r] = "context" => client[holds[r]] \in {Begun(Fresh), Broken}
    /\ pc[r] \in {"statement", "commit"} =>
          client[holds[r]] \in {WithTenant(Begun(Fresh), tenant[r]), Broken}

ProbeSession(p) == job[p] = "select" => client[holds[p]] \in {Fresh, Broken}

IdleIsFresh == \A c \in Clients : CheckedIn(c) => client[c] = Fresh

SessionInv ==
    /\ \A r \in Requests : RequestSession(r)
    /\ \A p \in Probes : ProbeSession(p)
    /\ IdleIsFresh

\* The answer of the caller is out, or it has not asked yet; the code no longer runs for it.
Answered(caller) ==
    IF caller \in Requests THEN pc[caller] \in {"unborn", "answered"}
    ELSE probe[caller] # "checking"

\* The drain, the pool and the queue follow the phase; the drain leaves nobody connected but
\* after its timeout, nor does the exit; a failure has one of its three causes.
ShutdownInv ==
    /\ pool = "ending" \/ importQueue = "closed" => phase \in {"closing", "exited"}
    /\ phase \in {"up", "draining"} => drain = "open"
    /\ phase = "exited" => \A c \in Clients : CheckedIn(c)
    /\ phase = "exited" \/ (phase = "closing" /\ drain # "timeout") => \A k \in Callers : Closed(k)
    /\ \A r \in Requests : answer[r] = 500 => drain = "timeout" \/ r \in gone \/ faults > 0
    /\ \A c \in Clients : client[c].state = "dead" => faults > 0

ApiInv == TypeInv /\ SessionInv /\ ShutdownInv

LEMMA ApiInvInit == Init => ApiInv
<1> SUFFICES ASSUME Init PROVE SessionInv /\ ShutdownInv
  BY TypeInvInit DEF ApiInv
<1>1. SessionInv
  BY DEF Init, PoolInit, SessionInv, RequestSession, ProbeSession, IdleIsFresh, Inside
<1>2. ShutdownInv
  BY CallersAssumption DEF Init, PoolInit, ShutdownInv, Closed, Fresh
<1> QED
  BY <1>1, <1>2

LEMMA SessionStates ==
    /\ Fresh.state = "ready" /\ Fresh.tenant = NoTenant
    /\ Broken.state = "dead"
    /\ Begun(Fresh).state = "in transaction" /\ Begun(Fresh).tenant = NoTenant
    /\ \A t : /\ WithTenant(Begun(Fresh), t).state = "in transaction"
              /\ WithTenant(Begun(Fresh), t).tenant = t
BY DEF Fresh, Broken, Begun, WithTenant

\* What the callers other than k rely on, when k takes a step on its own connection at most.
LEMMA OwnSession ==
    ASSUME TypeInv, SessionInv, NEW k \in Callers, OthersKept(k),
           \A c \in Clients \ {holds[k]} : client'[c] = client[c],
           \/ holds'[k] = holds[k]
           \/ holds'[k] = NoClient /\ client'[holds[k]] = Fresh,
           k \in Requests => RequestSession(k)',
           k \in Probes => ProbeSession(k)'
    PROVE  SessionInv'
<1> USE CallersAssumption
<1>1. \A j \in Callers \ {k} : holds[j] # NoClient =>
         holds'[j] = holds[j] /\ client'[holds[j]] = client[holds[j]]
  BY DEF TypeInv, TypeOK, PoolTypeOK, Exclusive, OthersKept, HoldsKept
<1>2. \A r \in Requests : RequestSession(r)'
  <2> SUFFICES ASSUME NEW r \in Requests, r # k PROVE RequestSession(r)'
    OBVIOUS
  <2>1. /\ pc'[r] = pc[r] /\ call'[r] = call[r] /\ tenant'[r] = tenant[r] /\ saw'[r] = saw[r]
    BY DEF OthersKept, RequestsKept
  <2>2. pc[r] \in WithClient => client'[holds'[r]] = client[holds[r]]
    BY <1>1 DEF TypeInv, RequestControl
  <2>3. RequestSession(r)
    BY DEF SessionInv
  <2> QED
    BY <2>1, <2>2, <2>3 DEF RequestSession, WithClient
<1>3. \A p \in Probes : ProbeSession(p)'
  BY <1>1 DEF TypeInv, ProbeControl, SessionInv, ProbeSession, OthersKept, ProbesKept
<1>4. IdleIsFresh'
  <2> SUFFICES ASSUME NEW c \in Clients, CheckedIn(c)' PROVE client'[c] = Fresh
    BY DEF IdleIsFresh
  <2>1. CASE CheckedIn(c)
    BY <2>1 DEF CheckedIn, SessionInv, IdleIsFresh
  <2>2. CASE ~CheckedIn(c)
    <3>1. holds[k] = c
      BY <2>2 DEF CheckedIn, OthersKept, HoldsKept
    <3> QED
      BY <3>1 DEF CheckedIn
  <2> QED
    BY <2>1, <2>2
<1> QED
  BY <1>2, <1>3, <1>4 DEF SessionInv

\* A step of a caller that is not through yet, or of one that may still begin, leaves the
\* shutdown alone.
LEMMA OwnShutdown ==
    ASSUME ShutdownInv, Up, NEW k \in Callers, OthersKept(k),
           UNCHANGED <<processVars, pool>>,
           phase = "up" \/ ~Answered(k) \/ Answered(k)',
           k \in Requests =>
              (answer'[k] = 500 =>
                  \/ answer[k] = 500 \/ faults > 0
                  \/ (pool = "ending" \/ importQueue = "closed") /\ ~Answered(k)),
           \A c \in Clients : client'[c].state = "dead" => client[c].state = "dead" \/ faults > 0
    PROVE  ShutdownInv'
<1> USE CallersAssumption DEF processVars
<1>0. \A j \in Callers : Closed(j) <=> Answered(j) \/ (j \in Requests /\ j \in gone)
  BY DEF Closed, Answered
<1>1. phase = "closing" /\ drain # "timeout" => \A j \in Callers : Closed(j)'
  <2> SUFFICES ASSUME phase = "closing", drain # "timeout", NEW j \in Callers
               PROVE  Closed(j)'
    OBVIOUS
  <2>1. Closed(j) /\ Closed(k)
    BY DEF ShutdownInv
  <2>2. CASE j \in Requests /\ j \in gone
    BY <2>2 DEF Closed
  <2>3. CASE j = k /\ Answered(k)'
    BY <2>3 DEF Closed, Answered
  <2>4. CASE j # k
    BY <2>1, <2>4 DEF Closed, OthersKept, RequestsKept, ProbesKept
  <2> QED
    BY <1>0, <2>1, <2>2, <2>3, <2>4
<1>2. \A r \in Requests : answer'[r] = 500 => drain = "timeout" \/ r \in gone \/ faults > 0
  <2> SUFFICES ASSUME NEW r \in Requests, answer'[r] = 500
               PROVE  drain = "timeout" \/ r \in gone \/ faults > 0
    OBVIOUS
  <2>1. CASE answer[r] = 500
    BY <2>1 DEF ShutdownInv
  <2>2. CASE answer[r] # 500
    <3>1. r = k
      BY <2>2 DEF OthersKept, RequestsKept
    <3>2. faults > 0 \/ (phase = "closing" /\ ~Answered(r))
      BY <2>2, <3>1 DEF ShutdownInv, Up
    <3> QED
      BY <1>0, <3>1, <3>2 DEF ShutdownInv
  <2> QED
    BY <2>1, <2>2
<1> QED
  BY <1>1, <1>2 DEF ShutdownInv, Up

-----------------------------------------------------------------------------
(* The steps of the callers *)

LEMMA ReleasedFresh ==
    ASSUME TypeInv, NEW k \in Callers, holds[k] # NoClient,
           NEW session \in {Fresh, Broken}, Release(k, session)
    PROVE  /\ HoldsKept(k) /\ holds'[k] = NoClient /\ pool' = pool
           /\ client'[holds[k]] = Fresh
           /\ \A c \in Clients \ {holds[k]} : client'[c] = client[c]
           /\ \A c \in Clients : client'[c].state = "dead" => client[c].state = "dead"
<1>0. Fresh \in Client /\ Broken \in Client
  BY DEF Fresh, Broken, Client
<1>1. session \in Client /\ PoolTypeOK
  BY <1>0 DEF TypeInv, TypeOK
<1>2. /\ HoldsKept(k) /\ holds'[k] = NoClient /\ pool' = pool
      /\ client'[holds[k]] = Fresh
      /\ \A c \in Clients \ {holds[k]} : client'[c] = client[c]
  BY <1>1, ReleaseEffect, SessionStates
<1> QED
  BY <1>2, SessionStates

LEMMA ReplySession ==
    ASSUME TypeInv, NEW r \in Requests, NEW status \in Answers, Reply(r, status)
    PROVE  /\ RequestSession(r)' /\ RequestsKept(r)
           /\ answer'[r] = status /\ pc'[r] = "answered"
<1>1. RequestsKept(r) /\ answer'[r] = status /\ pc'[r] = "answered" /\ saw'[r] = {}
  BY ReplyEffect DEF TypeInv, TypeOK
<1> QED
  BY <1>1 DEF RequestSession, Inside

LEMMA HoldsClient ==
    ASSUME TypeInv, NEW r \in Requests, pc[r] \in WithClient
    PROVE  holds[r] # NoClient /\ holds[r] \in Clients /\ Session(r) = client[holds[r]]
BY CallersAssumption DEF TypeInv, TypeOK, PoolTypeOK, RequestControl, Session

\* A request that answers, its connection, if it had one, handed back.
LEMMA AnswerStep ==
    ASSUME ApiInv, Up, NEW r \in Requests, NEW status \in Answers, Reply(r, status),
           ProbesKept(r), HoldsKept(r),
           \A c \in Clients \ {holds[r]} : client'[c] = client[c],
           \/ holds'[r] = holds[r] /\ client' = client
           \/ holds'[r] = NoClient /\ client'[holds[r]] = Fresh,
           UNCHANGED <<processVars, pool>>,
           ~Answered(r),
           status = 500 => faults > 0 \/ pool = "ending" \/ importQueue = "closed"
    PROVE  SessionInv' /\ ShutdownInv'
<1> USE CallersAssumption
<1>1. /\ RequestSession(r)' /\ RequestsKept(r)
      /\ answer'[r] = status /\ pc'[r] = "answered"
  BY ReplySession DEF ApiInv
<1>2. OthersKept(r)
  BY <1>1 DEF OthersKept
<1>3. SessionInv'
  BY <1>1, <1>2, OwnSession DEF ApiInv
<1>4. \A c \in Clients : client'[c].state = "dead" => client[c].state = "dead"
  BY SessionStates
<1>5. ShutdownInv'
  BY <1>1, <1>2, <1>4, OwnShutdown DEF ApiInv
<1> QED
  BY <1>3, <1>5

LEMMA SessionArrive ==
    ASSUME ApiInv, NEW r \in Requests, Arrive(r)
    PROVE  SessionInv' /\ ShutdownInv'
<1> USE CallersAssumption
<1>1. /\ ProbesKept(r) /\ HoldsKept(r) /\ UNCHANGED <<client, holds, queue, pool, processVars>>
      /\ UNCHANGED <<tenant, left, saw>> /\ phase = "up" /\ pc[r] = "unborn"
  BY DEF Arrive, ProbesKept, HoldsKept, probeVars, poolVars, processVars
<1>2. /\ pc'[r] = "authenticate" /\ answer' = answer
      /\ \A q \in Requests \ {r} : pc'[q] = pc[q] /\ call'[q] = call[q]
  BY GotoEffect DEF Arrive, Goto, Steps, ApiInv, TypeInv, TypeOK, RequestTypeOK
<1>3. OthersKept(r)
  BY <1>1, <1>2 DEF OthersKept, RequestsKept
<1>4. saw'[r] = {}
  BY <1>1 DEF ApiInv, SessionInv, RequestSession, Inside, TypeInv, TypeOK, RequestTypeOK
<1>5. RequestSession(r)'
  BY <1>2, <1>4 DEF RequestSession, Inside
<1>6. SessionInv'
  BY <1>1, <1>3, <1>5, OwnSession DEF ApiInv
<1>7. ShutdownInv'
  BY <1>1, <1>2, <1>3, OwnShutdown DEF ApiInv, Up
<1> QED
  BY <1>6, <1>7

LEMMA SessionAuthenticate ==
    ASSUME ApiInv, NEW r \in Requests, Authenticate(r)
    PROVE  SessionInv' /\ ShutdownInv'
<1> USE CallersAssumption
<1>1. /\ ProbesKept(r) /\ UNCHANGED processVars /\ Up
      /\ pc[r] = "authenticate" /\ ~Answered(r)
  BY DEF Authenticate, ProbesKept, probeVars, processVars, Answered
<1>2. CASE Connect(r) /\ Goto(r, "await lookup") /\ UNCHANGED <<call, tenant, left, saw>>
  <2>1. call[r].token \in Verified \/ call[r].token \notin Verified
    OBVIOUS
  <2>2. UNCHANGED <<client, holds, pool>> /\ HoldsKept(r)
    BY <1>2 DEF Connect, HoldsKept
  <2>3. /\ pc'[r] = "await lookup" /\ answer' = answer
        /\ \A q \in Requests \ {r} : pc'[q] = pc[q]
    BY <1>2, GotoEffect DEF Steps, ApiInv, TypeInv, TypeOK
  <2>4. OthersKept(r)
    BY <1>1, <1>2, <2>2, <2>3 DEF OthersKept, RequestsKept
  <2>5. call[r].token \in Verified
    <3>1. pc'[r] # "answered"
      BY <2>3
    <3>2. ~Reply(r, 401) /\ ~Reply(r, 403)
      BY <3>1, <1>1 DEF Reply, ApiInv, TypeInv, TypeOK, RequestTypeOK
    <3> QED
      BY <3>2 DEF Authenticate
  <2>6. saw'[r] = {}
    BY <1>1, <1>2 DEF ApiInv, SessionInv, RequestSession, Inside, TypeInv, TypeOK, RequestTypeOK
  <2>7. RequestSession(r)'
    BY <1>2, <2>3, <2>5, <2>6 DEF RequestSession, Inside
  <2>8. SessionInv'
    BY <2>2, <2>4, <2>7, OwnSession DEF ApiInv
  <2>9. ShutdownInv'
    BY <1>1, <2>2, <2>3, <2>4, OwnShutdown DEF ApiInv
  <2> QED
    BY <2>8, <2>9
<1>3. CASE UNCHANGED poolVars /\ (Reply(r, 401) \/ Reply(r, 403) \/ (pool = "ending" /\ Reply(r, 500)))
  <2>1. PICK status \in Answers : Reply(r, status) /\ (status = 500 => pool = "ending")
    BY <1>3 DEF Answers
  <2>2. UNCHANGED <<client, holds, pool>> /\ HoldsKept(r)
    BY <1>3 DEF poolVars, HoldsKept
  <2> QED
    BY <1>1, <2>1, <2>2, AnswerStep
<1> QED
  BY <1>2, <1>3 DEF Authenticate, Ask

LEMMA SessionOpen ==
    ASSUME ApiInv, NEW r \in Requests, Open(r)
    PROVE  SessionInv' /\ ShutdownInv'
<1> USE CallersAssumption
<1>1. /\ ProbesKept(r) /\ UNCHANGED processVars /\ Up
      /\ pc[r] = "open" /\ ~Answered(r)
  BY DEF Open, ProbesKept, probeVars, processVars, Answered
<1>2. CASE Connect(r) /\ Goto(r, "await client") /\ UNCHANGED <<call, tenant, left, saw>>
  <2>2. UNCHANGED <<client, holds, pool>> /\ HoldsKept(r)
    BY <1>2 DEF Connect, HoldsKept
  <2>3. /\ pc'[r] = "await client" /\ answer' = answer
        /\ \A q \in Requests \ {r} : pc'[q] = pc[q]
    BY <1>2, GotoEffect DEF Steps, ApiInv, TypeInv, TypeOK
  <2>4. OthersKept(r)
    BY <1>1, <1>2, <2>2, <2>3 DEF OthersKept, RequestsKept
  <2>7. RequestSession(r)'
    BY <1>1, <1>2, <2>3 DEF RequestSession, Inside, ApiInv, SessionInv
  <2>8. SessionInv'
    BY <2>2, <2>4, <2>7, OwnSession DEF ApiInv
  <2>9. ShutdownInv'
    BY <1>1, <2>2, <2>3, <2>4, OwnShutdown DEF ApiInv
  <2> QED
    BY <2>8, <2>9
<1>3. CASE UNCHANGED poolVars /\ pool = "ending" /\ Reply(r, 500)
  <2>1. 500 \in Answers
    BY DEF Answers
  <2>2. UNCHANGED <<client, holds, pool>> /\ HoldsKept(r)
    BY <1>3 DEF poolVars, HoldsKept
  <2> QED
    BY <1>1, <1>3, <2>1, <2>2, AnswerStep
<1> QED
  BY <1>2, <1>3 DEF Open, Ask

LEMMA SessionLookup ==
    ASSUME ApiInv, NEW r \in Requests, Lookup(r)
    PROVE  SessionInv' /\ ShutdownInv'
<1> USE CallersAssumption
<1>1. /\ ProbesKept(r) /\ UNCHANGED processVars /\ Up
      /\ pc[r] = "lookup" /\ ~Answered(r)
  BY DEF Lookup, ProbesKept, probeVars, processVars, Answered
<1>2. holds[r] # NoClient /\ Session(r) = client[holds[r]]
  BY <1>1, HoldsClient DEF WithClient, ApiInv
<1>3. Session(r) \in {Fresh, Broken} /\ call[r].token \in Verified
  BY <1>1, <1>2 DEF ApiInv, SessionInv, RequestSession
<1>4. /\ HoldsKept(r) /\ holds'[r] = NoClient /\ pool' = pool
      /\ client'[holds[r]] = Fresh
      /\ \A c \in Clients \ {holds[r]} : client'[c] = client[c]
      /\ \A c \in Clients : client'[c].state = "dead" => client[c].state = "dead"
  <2>1. Release(r, Session(r))
    BY DEF Lookup
  <2> QED
    BY <1>2, <1>3, <2>1, ReleasedFresh DEF ApiInv
<1>5. CASE Reply(r, 403)
  <2>1. 403 \in Answers
    BY DEF Answers
  <2> QED
    BY <1>1, <1>4, <1>5, <2>1, AnswerStep
<1>6. CASE ~Reply(r, 403)
  <2>1. PICK t \in Resolved(call[r].token) : tenant' = [tenant EXCEPT ![r] = t]
    BY <1>6 DEF Lookup
  <2>2. call[r].route \in Routes /\ Permits(call[r].token, call[r].route)
    BY <1>1, <1>6 DEF Lookup, ApiInv, TypeInv, RequestControl, Called, Steps
  <2>3. t \in Tenants /\ Entitled(call[r].token, call[r].route, t)
    BY <1>3, <2>2, ResolvedIsEntitled
  <2>4. /\ pc'[r] = "open" /\ answer' = answer
        /\ \A q \in Requests \ {r} : pc'[q] = pc[q]
    BY <1>6, GotoEffect DEF Lookup, Steps, ApiInv, TypeInv, TypeOK
  <2>10. saw[r] = {}
    BY <1>1 DEF ApiInv, SessionInv, RequestSession, Inside
  <2>11. UNCHANGED <<call, saw>> /\ left' = [left EXCEPT ![r] = TransactionsOf[call[r].route]]
    BY <1>6 DEF Lookup
  <2>12. tenant \in [Requests -> Tenants \cup {NoTenant}] /\ left \in [Requests -> Nat]
    BY DEF ApiInv, TypeInv, TypeOK, RequestTypeOK
  <2>5. UNCHANGED <<call, saw>> /\ tenant'[r] = t /\ saw[r] = {}
        /\ \A q \in Requests \ {r} : tenant'[q] = tenant[q] /\ left'[q] = left[q]
    BY <2>1, <2>10, <2>11, <2>12
  <2>6. OthersKept(r)
    BY <1>1, <1>4, <2>4, <2>5 DEF OthersKept, RequestsKept
  <2>7. RequestSession(r)'
    BY <2>3, <2>4, <2>5 DEF RequestSession, Inside
  <2>8. SessionInv'
    BY <1>4, <2>6, <2>7, OwnSession DEF ApiInv
  <2>9. ShutdownInv'
    BY <1>1, <1>4, <2>4, <2>6, OwnShutdown DEF ApiInv
  <2> QED
    BY <2>8, <2>9
<1> QED
  BY <1>5, <1>6

LEMMA SessionBegin ==
    ASSUME ApiInv, NEW r \in Requests, Begin(r)
    PROVE  SessionInv' /\ ShutdownInv'
<1> USE CallersAssumption
<1>1. /\ ProbesKept(r) /\ UNCHANGED processVars /\ Up
      /\ pc[r] = "begin" /\ ~Answered(r) /\ Alive(r)
      /\ UNCHANGED <<call, tenant, left, saw>>
  BY DEF Begin, ProbesKept, probeVars, processVars, Answered
<1>2. holds[r] # NoClient /\ Session(r) = client[holds[r]] /\ holds[r] \in Clients
  BY <1>1, HoldsClient DEF WithClient, ApiInv
<1>3. Session(r) = Fresh /\ tenant[r] \in Tenants
  BY <1>1, <1>2, SessionStates DEF ApiInv, SessionInv, RequestSession, Alive, Inside
<1>4. /\ client' = [client EXCEPT ![holds[r]] = Begun(Fresh)]
      /\ UNCHANGED <<holds, pool>>
  BY <1>3 DEF Begin, InSession
<1>5. /\ HoldsKept(r) /\ client'[holds[r]] = Begun(Fresh)
      /\ \A c \in Clients \ {holds[r]} : client'[c] = client[c]
      /\ \A c \in Clients : client'[c].state = "dead" => client[c].state = "dead"
  BY <1>2, <1>4, SessionStates DEF HoldsKept, ApiInv, TypeInv, TypeOK, PoolTypeOK
<1>6. /\ pc'[r] = "context" /\ answer' = answer
      /\ \A q \in Requests \ {r} : pc'[q] = pc[q]
  BY GotoEffect DEF Begin, Steps, ApiInv, TypeInv, TypeOK
<1>7. OthersKept(r)
  BY <1>1, <1>5, <1>6 DEF OthersKept, RequestsKept
<1>8. RequestSession(r)'
  BY <1>1, <1>4, <1>5, <1>6 DEF RequestSession, Inside, ApiInv, SessionInv
<1>9. SessionInv'
  BY <1>4, <1>5, <1>7, <1>8, OwnSession DEF ApiInv
<1>10. ShutdownInv'
  BY <1>1, <1>4, <1>5, <1>6, <1>7, OwnShutdown DEF ApiInv
<1> QED
  BY <1>9, <1>10

LEMMA SessionSetTenantContext ==
    ASSUME ApiInv, NEW r \in Requests, SetTenantContext(r)
    PROVE  SessionInv' /\ ShutdownInv'
<1> USE CallersAssumption
<1>1. /\ ProbesKept(r) /\ UNCHANGED processVars /\ Up
      /\ pc[r] = "context" /\ ~Answered(r) /\ Alive(r)
      /\ UNCHANGED <<call, tenant, left, saw>>
  BY DEF SetTenantContext, ProbesKept, probeVars, processVars, Answered
<1>2. holds[r] # NoClient /\ Session(r) = client[holds[r]] /\ holds[r] \in Clients
  BY <1>1, HoldsClient DEF WithClient, ApiInv
<1>3. Session(r) = Begun(Fresh) /\ tenant[r] \in Tenants
  BY <1>1, <1>2, SessionStates DEF ApiInv, SessionInv, RequestSession, Alive, Inside
<1>4. /\ client' = [client EXCEPT ![holds[r]] = WithTenant(Begun(Fresh), tenant[r])]
      /\ UNCHANGED <<holds, pool>>
  BY <1>3 DEF SetTenantContext, InSession
<1>5. /\ HoldsKept(r) /\ client'[holds[r]] = WithTenant(Begun(Fresh), tenant[r])
      /\ \A c \in Clients \ {holds[r]} : client'[c] = client[c]
      /\ \A c \in Clients : client'[c].state = "dead" => client[c].state = "dead"
  BY <1>2, <1>4, SessionStates DEF HoldsKept, ApiInv, TypeInv, TypeOK, PoolTypeOK
<1>6. /\ pc'[r] = "statement" /\ answer' = answer
      /\ \A q \in Requests \ {r} : pc'[q] = pc[q]
  BY GotoEffect DEF SetTenantContext, Steps, ApiInv, TypeInv, TypeOK
<1>7. OthersKept(r)
  BY <1>1, <1>5, <1>6 DEF OthersKept, RequestsKept
<1>8. RequestSession(r)'
  BY <1>1, <1>4, <1>5, <1>6 DEF RequestSession, Inside, ApiInv, SessionInv
<1>9. SessionInv'
  BY <1>4, <1>5, <1>7, <1>8, OwnSession DEF ApiInv
<1>10. ShutdownInv'
  BY <1>1, <1>4, <1>5, <1>6, <1>7, OwnShutdown DEF ApiInv
<1> QED
  BY <1>9, <1>10

LEMMA SessionStatement ==
    ASSUME ApiInv, NEW r \in Requests, Statement(r)
    PROVE  SessionInv' /\ ShutdownInv'
<1> USE CallersAssumption
<1>1. /\ ProbesKept(r) /\ HoldsKept(r) /\ UNCHANGED processVars /\ Up
      /\ pc[r] = "statement" /\ ~Answered(r) /\ Alive(r)
      /\ UNCHANGED <<call, tenant, left, client, holds, pool>>
  BY DEF Statement, ProbesKept, HoldsKept, probeVars, poolVars, processVars, Answered
<1>2. Session(r) = client[holds[r]] /\ Session(r).state # "dead"
  BY <1>1, HoldsClient DEF WithClient, ApiInv, Alive
<1>3. Session(r) = WithTenant(Begun(Fresh), tenant[r]) /\ tenant[r] \in Tenants
  BY <1>1, <1>2, SessionStates DEF ApiInv, SessionInv, RequestSession, Inside
<1>4. Visible(Session(r)) = {tenant[r]}
  BY <1>3, SessionStates, TenancyAssumption DEF Visible
<1>5. /\ saw'[r] = saw[r] \cup {{tenant[r]}}
      /\ \A q \in Requests \ {r} : saw'[q] = saw[q]
  BY <1>4 DEF Statement, ApiInv, TypeInv, TypeOK, RequestTypeOK
<1>6. /\ pc'[r] = "commit" /\ answer' = answer
      /\ \A q \in Requests \ {r} : pc'[q] = pc[q]
  BY GotoEffect DEF Statement, Steps, ApiInv, TypeInv, TypeOK
<1>7. OthersKept(r)
  BY <1>1, <1>5, <1>6 DEF OthersKept, RequestsKept
<1>8. RequestSession(r)'
  BY <1>1, <1>2, <1>3, <1>5, <1>6 DEF RequestSession, Inside, ApiInv, SessionInv
<1>9. SessionInv'
  BY <1>1, <1>7, <1>8, OwnSession DEF ApiInv
<1>10. ShutdownInv'
  BY <1>1, <1>6, <1>7, OwnShutdown DEF ApiInv
<1> QED
  BY <1>9, <1>10

LEMMA SessionCommit ==
    ASSUME ApiInv, NEW r \in Requests, Commit(r)
    PROVE  SessionInv' /\ ShutdownInv'
<1> USE CallersAssumption
<1>1. /\ ProbesKept(r) /\ UNCHANGED processVars /\ Up
      /\ pc[r] = "commit" /\ ~Answered(r)
      /\ UNCHANGED <<call, tenant, saw>>
  BY DEF Commit, ProbesKept, probeVars, processVars, Answered
<1>2. holds[r] # NoClient
  BY <1>1, HoldsClient DEF WithClient, ApiInv
<1>3. /\ HoldsKept(r) /\ holds'[r] = NoClient /\ pool' = pool
      /\ client'[holds[r]] = Fresh
      /\ \A c \in Clients \ {holds[r]} : client'[c] = client[c]
      /\ \A c \in Clients : client'[c].state = "dead" => client[c].state = "dead"
  <2>1. Release(r, Fresh)
    BY DEF Commit, Over
  <2> QED
    BY <1>2, <2>1, ReleasedFresh DEF ApiInv
<1>4. PICK there \in {"reply", "open"} :
         /\ pc'[r] = there /\ answer' = answer
         /\ \A q \in Requests \ {r} : pc'[q] = pc[q]
  <2>1. PICK there \in {"reply", "open"} : Goto(r, there)
    BY DEF Commit
  <2>2. there \in Steps
    BY DEF Steps
  <2> QED
    BY <2>1, <2>2, GotoEffect DEF ApiInv, TypeInv, TypeOK
<1>5. \A q \in Requests \ {r} : left'[q] = left[q]
  BY DEF Commit, ApiInv, TypeInv, TypeOK, RequestTypeOK
<1>6. OthersKept(r)
  BY <1>1, <1>3, <1>4, <1>5 DEF OthersKept, RequestsKept
<1>7. RequestSession(r)'
  BY <1>1, <1>4 DEF RequestSession, Inside, ApiInv, SessionInv
<1>8. SessionInv'
  BY <1>3, <1>6, <1>7, OwnSession DEF ApiInv
<1>9. ShutdownInv'
  BY <1>1, <1>3, <1>4, <1>6, OwnShutdown DEF ApiInv
<1> QED
  BY <1>8, <1>9

LEMMA SessionThrow ==
    ASSUME ApiInv, NEW r \in Requests, Throw(r)
    PROVE  SessionInv' /\ ShutdownInv'
<1> USE CallersAssumption
<1>1. /\ ProbesKept(r) /\ UNCHANGED processVars /\ Up
      /\ pc[r] \in WithClient /\ ~Answered(r) /\ Reply(r, 409)
  BY DEF Throw, ProbesKept, probeVars, processVars, Answered, WithClient
<1>2. holds[r] # NoClient /\ holds[r] \in Clients /\ Session(r) = client[holds[r]]
  BY <1>1, HoldsClient DEF ApiInv
<1>3. /\ HoldsKept(r) /\ holds'[r] = NoClient /\ pool' = pool
      /\ client'[holds[r]] = Fresh
      /\ \A c \in Clients \ {holds[r]} : client'[c] = client[c]
  <2>1. Release(r, Fresh)
    BY DEF Throw, Over
  <2> QED
    BY <1>2, <2>1, ReleasedFresh DEF ApiInv
<1>4. 409 \in Answers
  BY DEF Answers
<1>5. 409 = 500 => faults > 0
  OBVIOUS
<1> QED
  BY <1>1, <1>3, <1>4, <1>5, AnswerStep

LEMMA SessionFail ==
    ASSUME ApiInv, NEW r \in Requests, Fail(r)
    PROVE  SessionInv' /\ ShutdownInv'
<1> USE CallersAssumption
<1>1. /\ ProbesKept(r) /\ UNCHANGED processVars /\ Up
      /\ pc[r] \in WithClient /\ ~Answered(r) /\ Reply(r, 500)
  BY DEF Fail, ProbesKept, probeVars, processVars, Answered, WithClient
<1>2. holds[r] # NoClient /\ holds[r] \in Clients /\ Session(r) = client[holds[r]]
  BY <1>1, HoldsClient DEF ApiInv
<1>3. /\ HoldsKept(r) /\ holds'[r] = NoClient /\ pool' = pool
      /\ client'[holds[r]] = Fresh
      /\ \A c \in Clients \ {holds[r]} : client'[c] = client[c]
  <2>1. Release(r, Broken)
    BY DEF Fail, Over
  <2> QED
    BY <1>2, <2>1, ReleasedFresh DEF ApiInv
<1>4. 500 \in Answers
  BY DEF Answers
<1>5. 500 = 500 => faults > 0
  BY <1>2 DEF Fail, Alive, ApiInv, ShutdownInv
<1> QED
  BY <1>1, <1>3, <1>4, <1>5, AnswerStep

LEMMA SessionSucceed ==
    ASSUME ApiInv, NEW r \in Requests, Succeed(r)
    PROVE  SessionInv' /\ ShutdownInv'
<1>1. /\ ProbesKept(r) /\ HoldsKept(r) /\ UNCHANGED processVars /\ Up
      /\ ~Answered(r) /\ Reply(r, 200) /\ UNCHANGED <<client, holds, pool>>
  BY DEF Succeed, ProbesKept, HoldsKept, probeVars, poolVars, processVars, Answered
<1>2. 200 \in Answers
  BY DEF Answers
<1> QED
  BY <1>1, <1>2, AnswerStep

LEMMA SessionEnqueueCompletion ==
    ASSUME ApiInv, NEW r \in Requests, EnqueueCompletion(r)
    PROVE  SessionInv' /\ ShutdownInv'
<1>1. /\ ProbesKept(r) /\ HoldsKept(r) /\ UNCHANGED processVars /\ Up
      /\ ~Answered(r) /\ UNCHANGED <<client, holds, pool>>
  BY DEF EnqueueCompletion, ProbesKept, HoldsKept, probeVars, poolVars, processVars, Answered
<1>2. PICK status \in Answers : Reply(r, status) /\ (status = 500 => importQueue # "open")
  BY DEF EnqueueCompletion, Answers
<1>3. importQueue \in {"open", "closed"}
  BY DEF ApiInv, TypeInv, TypeOK, ProcessTypeOK
<1> QED
  BY <1>1, <1>2, <1>3, AnswerStep

LEMMA SessionProbe ==
    ASSUME ApiInv, NEW p \in Probes, Probe(p) \/ DbTimesOut(p) \/ ReplyReadiness(p)
    PROVE  SessionInv' /\ ShutdownInv'
<1> USE CallersAssumption
<1>1. /\ RequestsKept(p) /\ HoldsKept(p) /\ UNCHANGED <<processVars, client, holds, pool>>
      /\ Up
  BY DEF Probe, DbTimesOut, ReplyReadiness, Connect, RequestsKept, HoldsKept, requestVars,
         poolVars, processVars, Up
<1>2. ProbesKept(p) /\ (job'[p] = job[p] \/ job'[p] = "await client")
  BY DEF Probe, DbTimesOut, ReplyReadiness, Settle, ProbesKept, ApiInv, TypeInv, TypeOK, ProbeTypeOK
<1>3. phase = "up" \/ ~Answered(p)
  BY DEF Probe, DbTimesOut, ReplyReadiness, Answered
<1>4. OthersKept(p)
  BY <1>1, <1>2 DEF OthersKept
<1>5. ProbeSession(p)'
  BY <1>1, <1>2 DEF ProbeSession, ApiInv, SessionInv
<1>6. SessionInv'
  BY <1>1, <1>4, <1>5, OwnSession DEF ApiInv
<1>7. ShutdownInv'
  BY <1>1, <1>3, <1>4, OwnShutdown DEF ApiInv
<1> QED
  BY <1>6, <1>7

LEMMA SessionSelectOne ==
    ASSUME ApiInv, NEW p \in Probes, SelectOne(p)
    PROVE  SessionInv' /\ ShutdownInv'
<1> USE CallersAssumption
<1>1. /\ RequestsKept(p) /\ UNCHANGED <<processVars, probe>> /\ Up /\ job[p] = "select"
      /\ job' = [job EXCEPT ![p] = "done"]
  BY DEF SelectOne, RequestsKept, requestVars, processVars
<1>2. holds[p] # NoClient /\ Session(p) \in {Fresh, Broken}
  BY <1>1 DEF ApiInv, TypeInv, ProbeControl, SessionInv, ProbeSession, Session
<1>3. /\ HoldsKept(p) /\ holds'[p] = NoClient /\ pool' = pool
      /\ client'[holds[p]] = Fresh
      /\ \A c \in Clients \ {holds[p]} : client'[c] = client[c]
      /\ \A c \in Clients : client'[c].state = "dead" => client[c].state = "dead"
  <2>1. Release(p, Session(p))
    BY DEF SelectOne
  <2> QED
    BY <1>2, <2>1, ReleasedFresh DEF ApiInv
<1>4. ProbesKept(p) /\ job'[p] = "done"
  BY <1>1 DEF SelectOne, Settle, ProbesKept, ApiInv, TypeInv, TypeOK, ProbeTypeOK
<1>5. OthersKept(p)
  BY <1>1, <1>3, <1>4 DEF OthersKept
<1>6. ProbeSession(p)'
  BY <1>4 DEF ProbeSession
<1>7. SessionInv'
  BY <1>3, <1>5, <1>6, OwnSession DEF ApiInv
<1>8. \A q \in Probes : Answered(q) => Answered(q)'
  BY <1>1 DEF Answered
<1>9. ShutdownInv'
  BY <1>1, <1>3, <1>5, <1>8, OwnShutdown DEF ApiInv
<1> QED
  BY <1>7, <1>9

-----------------------------------------------------------------------------
(* The steps of the process *)

LEMMA SessionServe ==
    ASSUME ApiInv, NEW k \in Callers, Serve(k)
    PROVE  SessionInv' /\ ShutdownInv'
<1> USE CallersAssumption
<1>1. PICK c \in Clients :
         /\ CheckedIn(c) /\ pool = "serving" /\ queue # <<>> /\ k = Head(queue)
         /\ holds' = [holds EXCEPT ![k] = c] /\ UNCHANGED <<client, pool>>
  BY DEF Serve, Grant
<1>2. UNCHANGED <<call, tenant, left, saw, answer, probe, checkDb, processVars>>
  BY DEF Serve
<1>3. holds'[k] = c /\ client[c] = Fresh /\ \A j \in Callers \ {k} : holds'[j] = holds[j]
  BY <1>1 DEF ApiInv, SessionInv, IdleIsFresh, TypeInv, TypeOK, PoolTypeOK
<1>4. Waiting(k)
  <2>1. queue \in Seq(Callers) /\ Len(queue) > 0 /\ k = queue[1]
    BY <1>1 DEF ApiInv, TypeInv, TypeOK, PoolTypeOK
  <2> QED
    BY <2>1 DEF ApiInv, TypeInv, QueueOK
<1>5. \A r \in Requests : RequestSession(r)'
  <2> SUFFICES ASSUME NEW r \in Requests PROVE RequestSession(r)'
    OBVIOUS
  <2>1. CASE r = k
    <3>1. PICK there \in {"lookup", "begin"} :
             /\ pc' = [pc EXCEPT ![k] = there]
             /\ there = "lookup" <=> pc[k] = "await lookup"
      BY <2>1 DEF Serve
    <3>2. pc'[k] = there
      BY <2>1, <3>1 DEF ApiInv, TypeInv, TypeOK, RequestTypeOK
    <3>3. RequestSession(k) /\ pc[k] \in {"await lookup", "await client"}
      BY <1>4, <2>1 DEF Waiting, ApiInv, SessionInv
    <3>4. there = "begin" => pc[k] = "await client"
      BY <3>1, <3>3
    <3> QED
      BY <1>1, <1>2, <1>3, <2>1, <3>1, <3>2, <3>3, <3>4 DEF RequestSession, Inside
  <2>2. CASE r # k
    <3>1. pc'[r] = pc[r] /\ holds'[r] = holds[r]
      BY <1>3, <2>2 DEF Serve, ApiInv, TypeInv, TypeOK, RequestTypeOK
    <3> QED
      BY <1>1, <1>2, <3>1 DEF RequestSession, ApiInv, SessionInv
  <2> QED
    BY <2>1, <2>2
<1>6. \A p \in Probes : ProbeSession(p)'
  <2> SUFFICES ASSUME NEW p \in Probes, job'[p] = "select" PROVE client'[holds'[p]] \in {Fresh, Broken}
    BY DEF ProbeSession
  <2>1. CASE p = k
    BY <1>1, <1>3, <2>1
  <2>2. CASE p # k
    <3>1. job[p] = "select" /\ holds'[p] = holds[p]
      BY <1>3, <2>2 DEF Serve, ApiInv, TypeInv, TypeOK, ProbeTypeOK
    <3> QED
      BY <1>1, <3>1 DEF ApiInv, SessionInv, ProbeSession
  <2> QED
    BY <2>1, <2>2
<1>7. IdleIsFresh'
  <2> SUFFICES ASSUME NEW d \in Clients, CheckedIn(d)' PROVE client'[d] = Fresh
    BY DEF IdleIsFresh
  <2>1. \A j \in Callers : holds[j] # NoClient => holds'[j] = holds[j]
    BY <1>3, <1>4 DEF ApiInv, TypeInv, TypeOK, PoolTypeOK, RequestControl, ProbeControl, Waiting, WithClient
  <2>2. CheckedIn(d)
    BY <2>1, PoolAssumption DEF CheckedIn
  <2> QED
    BY <1>1, <2>2 DEF ApiInv, SessionInv, IdleIsFresh
<1>8. ShutdownInv'
  <2>1. phase # "exited" /\ UNCHANGED processVars /\ \A j \in Callers : Closed(j) => Closed(j)'
    <3>1. k \in Requests => pc[k] \notin {"unborn", "answered"}
      BY <1>4, CallersAssumption DEF Waiting
    <3>2. \A j \in Requests : j # k => pc'[j] = pc[j]
      BY <3>1 DEF Serve, ApiInv, TypeInv, TypeOK, RequestTypeOK
    <3>3. phase # "exited" /\ UNCHANGED <<processVars, probe>>
      BY <1>2 DEF Serve, Up
    <3> QED
      BY <3>1, <3>2, <3>3 DEF Closed, processVars
  <2> QED
    BY <1>1, <1>2, <2>1 DEF ApiInv, ShutdownInv, processVars
<1> QED
  BY <1>5, <1>6, <1>7, <1>8 DEF SessionInv

LEMMA SessionLoseBackend ==
    ASSUME ApiInv, NEW c \in Clients, LoseBackend(c)
    PROVE  SessionInv' /\ ShutdownInv'
<1> USE CallersAssumption
<1>1. /\ UNCHANGED <<phase, drain, importQueue, gone, pc, call, tenant, left, saw, answer, probe,
                     checkDb, job, holds, queue, pool>>
      /\ faults' = faults + 1 /\ Up
  BY DEF LoseBackend, BackendDies, requestVars, probeVars
<1>2. client' = [client EXCEPT ![c] = IF CheckedIn(c) THEN Fresh ELSE Broken]
  BY DEF LoseBackend, BackendDies
<1>3. /\ \A d \in Clients \ {c} : client'[d] = client[d]
      /\ client'[c] = IF CheckedIn(c) THEN Fresh ELSE Broken
  BY <1>2 DEF ApiInv, TypeInv, TypeOK, PoolTypeOK
<1>4. \A d \in Clients : ~CheckedIn(d) => client'[d] \in {client[d], Broken}
  BY <1>3
<1>5. \A r \in Requests : RequestSession(r)'
  <2> SUFFICES ASSUME NEW r \in Requests PROVE RequestSession(r)'
    OBVIOUS
  <2>1. RequestSession(r)
    BY DEF ApiInv, SessionInv
  <2>2. CASE pc[r] \in WithClient
    <3>1. holds[r] \in Clients /\ ~CheckedIn(holds[r])
      BY <2>2, HoldsClient DEF ApiInv, CheckedIn
    <3>2. client'[holds[r]] \in {client[holds[r]], Broken}
      BY <1>4, <3>1
    <3> QED
      BY <1>1, <2>1, <3>2 DEF RequestSession
  <2>3. CASE pc[r] \notin WithClient
    BY <1>1, <2>1, <2>3 DEF RequestSession, WithClient
  <2> QED
    BY <2>2, <2>3
<1>6. \A p \in Probes : ProbeSession(p)'
  <2> SUFFICES ASSUME NEW p \in Probes, job[p] = "select" PROVE client'[holds[p]] \in {Fresh, Broken}
    BY <1>1 DEF ProbeSession
  <2>1. holds[p] \in Clients /\ ~CheckedIn(holds[p])
    BY DEF ApiInv, TypeInv, TypeOK, PoolTypeOK, ProbeControl, CheckedIn
  <2>2. client[holds[p]] \in {Fresh, Broken}
    BY DEF ApiInv, SessionInv, ProbeSession
  <2> QED
    BY <1>4, <2>1, <2>2
<1>7. IdleIsFresh'
  BY <1>1, <1>3 DEF ApiInv, SessionInv, IdleIsFresh, CheckedIn
<1>8. faults' > 0
  BY <1>1 DEF ApiInv, TypeInv, TypeOK, ProcessTypeOK
<1>9. ShutdownInv'
  BY <1>1, <1>8 DEF ApiInv, ShutdownInv, Up, Closed, CheckedIn
<1> QED
  BY <1>5, <1>6, <1>7, <1>9 DEF SessionInv

LEMMA SessionProcess ==
    ASSUME ApiInv,
           \/ \E r \in Requests : HangUp(r)
           \/ Signal \/ Drained \/ DrainTimesOut \/ DestroyPool \/ CloseRedis \/ Exit
           \/ UNCHANGED vars
    PROVE  SessionInv' /\ ShutdownInv'
<1> USE DEF HangUp, Signal, Drained, DrainTimesOut, Close, DestroyPool, EndPool, CloseRedis, Exit,
            vars, requestVars, probeVars, processVars, poolVars
<1>1. UNCHANGED <<pc, call, tenant, left, saw, answer, probe, checkDb, job, client, holds, faults>>
  OBVIOUS
<1>2. SessionInv'
  BY <1>1 DEF ApiInv, SessionInv, RequestSession, ProbeSession, IdleIsFresh, CheckedIn
<1>3. gone \subseteq gone'
  OBVIOUS
<1>4. \A k \in Callers : Closed(k) => Closed(k)'
  BY <1>1, <1>3 DEF Closed
<1>5. \A c \in Clients : CheckedIn(c) <=> CheckedIn(c)'
  BY <1>1 DEF CheckedIn
<1>6. \A r \in Requests : answer'[r] = 500 => drain' = "timeout" \/ r \in gone' \/ faults > 0
  <2>1. drain = "timeout" => drain' = "timeout"
    BY DEF ApiInv, ShutdownInv
  <2> QED
    BY <1>1, <1>3, <2>1 DEF ApiInv, ShutdownInv
<1>7. pool' = "ending" \/ importQueue' = "closed" => phase' \in {"closing", "exited"}
  BY DEF ApiInv, ShutdownInv
<1>8. phase' \in {"up", "draining"} => drain' = "open"
  BY DEF ApiInv, ShutdownInv
<1>9. phase' = "exited" => \A c \in Clients : CheckedIn(c)
  BY DEF ApiInv, ShutdownInv, AppClosed, PoolEnded
<1>10. phase' = "exited" \/ (phase' = "closing" /\ drain' # "timeout") =>
           \A k \in Callers : Closed(k)
  BY DEF ApiInv, ShutdownInv, AppClosed
<1>11. \A c \in Clients : client'[c].state = "dead" => faults' > 0
  BY <1>1 DEF ApiInv, ShutdownInv
<1>12. ShutdownInv'
  BY <1>1, <1>4, <1>5, <1>6, <1>7, <1>8, <1>9, <1>10, <1>11 DEF ShutdownInv
<1> QED
  BY <1>2, <1>12

LEMMA ApiInvNext == ApiInv /\ [Next]_vars => ApiInv'
<1> SUFFICES ASSUME ApiInv, [Next]_vars PROVE SessionInv' /\ ShutdownInv'
  BY TypeInvNext DEF ApiInv
<1>1. ASSUME NEW r \in Requests,
             Arrive(r) \/ Handle(r) \/ RunStatement(r) \/ EnqueueCompletion(r)
      PROVE  SessionInv' /\ ShutdownInv'
  BY <1>1, SessionArrive, SessionAuthenticate, SessionOpen, SessionFail, SessionSucceed,
     SessionEnqueueCompletion,
     SessionLookup, SessionBegin, SessionSetTenantContext, SessionStatement, SessionCommit,
     SessionThrow DEF Handle, RunStatement
<1>2. ASSUME NEW p \in Probes, Probe(p) \/ SelectOne(p) \/ HandleProbe(p)
      PROVE  SessionInv' /\ ShutdownInv'
  BY <1>2, SessionProbe, SessionSelectOne DEF HandleProbe
<1>3. ASSUME NEW k \in Callers, Serve(k) PROVE SessionInv' /\ ShutdownInv'
  BY <1>3, SessionServe
<1>4. ASSUME NEW c \in Clients, LoseBackend(c) PROVE SessionInv' /\ ShutdownInv'
  BY <1>4, SessionLoseBackend
<1> QED
  BY <1>1, <1>2, <1>3, <1>4, SessionProcess DEF Next

LEMMA ApiInvAlways == Spec => []ApiInv
BY ApiInvInit, ApiInvNext, PTL DEF Spec

-----------------------------------------------------------------------------
(* The theorems *)

\* Row level security behind setTenantContext isolates the tenants whatever the size of the
\* pool and however requests, probes and lost backends interleave: each statement sees the rows
\* of the one tenant that the request is entitled to, and no other's.
THEOREM ApiIsolation == Spec => []SeesItsTenantOnly
<1>1. ApiInv => SeesItsTenantOnly
  BY DEF ApiInv, SessionInv, RequestSession, SeesItsTenantOnly
<1> QED
  BY <1>1, ApiInvAlways, PTL

\* No connection carries a tenant or an open transaction back into the pool of DrizzleService.
THEOREM ApiPooledIsClean == Spec => []PooledIsClean
<1>1. ApiInv => PooledIsClean
  BY SessionStates DEF ApiInv, SessionInv, IdleIsFresh, PooledIsClean
<1> QED
  BY <1>1, ApiInvAlways, PTL

\* The shutdown of main.ts breaks no transaction off, exits with nobody connected, and fails or
\* strands no request unless the drain times out or the client of the request hangs up.
THEOREM ApiShutdown == Spec => []ShutdownIsGraceful
<1>1. ApiInv => ShutdownIsGraceful
  <2> SUFFICES ASSUME ApiInv PROVE ShutdownIsGraceful
    OBVIOUS
  <2>1. phase = "exited" => \A c \in Clients : client[c].state # "in transaction"
    BY SessionStates DEF ApiInv, SessionInv, IdleIsFresh, ShutdownInv
  <2>2. phase = "exited" => \A k \in Callers : Closed(k)
    BY DEF ApiInv, ShutdownInv
  <2>3. \A r \in Requests : answer[r] = 500 => drain = "timeout" \/ r \in gone \/ faults > 0
    BY DEF ApiInv, ShutdownInv
  <2>4. \A r \in Requests : Stranded(r) => drain = "timeout" \/ r \in gone
    <3> SUFFICES ASSUME NEW r \in Requests, Stranded(r), drain # "timeout" PROVE r \in gone
      OBVIOUS
    <3>1. Closed(r)
      BY CallersAssumption DEF Stranded, ApiInv, ShutdownInv
    <3> QED
      BY <3>1 DEF Closed, Stranded
  <2>5. \A r \in Requests :
           /\ answer[r] = 500 => drain = "timeout" \/ r \in gone \/ faults > 0
           /\ Stranded(r) => drain = "timeout" \/ r \in gone
    BY <2>3, <2>4
  <2> QED
    BY <2>1, <2>2, <2>5 DEF ShutdownIsGraceful
<1> QED
  BY <1>1, ApiInvAlways, PTL
==============================================================================
