------------------------------ MODULE ApiProofs ------------------------------
(***************************************************************************)
(* Theorems about ApiProcess, for any number of requests, probes and       *)
(* connections, and any tenants, tokens and routes.                        *)
(***************************************************************************)
EXTENDS ApiProcess, FiniteSetTheorems, TLAPS

-----------------------------------------------------------------------------
(* The guards *)

LEMMA LevelsAreBounded ==
    ASSUME NEW S \in SUBSET (0..5), S # {}
    PROVE  /\ Max(S) \in S /\ \A n \in S : n <= Max(S)
           /\ Min(S) \in S /\ \A n \in S : Min(S) <= n
<1>0. \A n \in S : n \in {0, 1, 2, 3, 4, 5}
  OBVIOUS
<1>1. \E m \in S : \A n \in S : m >= n
  <2>1. CASE 5 \in S
    BY <1>0, <2>1
  <2>2. CASE 5 \notin S /\ 4 \in S
    BY <1>0, <2>2
  <2>3. CASE S \cap {4, 5} = {} /\ 3 \in S
    BY <1>0, <2>3
  <2>4. CASE S \cap {3, 4, 5} = {} /\ 2 \in S
    BY <1>0, <2>4
  <2>5. CASE S \cap {2, 3, 4, 5} = {} /\ 1 \in S
    BY <1>0, <2>5
  <2>6. CASE S = {0}
    BY <2>6
  <2> QED
    BY <1>0, <2>1, <2>2, <2>3, <2>4, <2>5, <2>6
<1>2. \E m \in S : \A n \in S : m <= n
  <2>1. CASE 0 \in S
    BY <1>0, <2>1
  <2>2. CASE 0 \notin S /\ 1 \in S
    BY <1>0, <2>2
  <2>3. CASE S \cap {0, 1} = {} /\ 2 \in S
    BY <1>0, <2>3
  <2>4. CASE S \cap {0, 1, 2} = {} /\ 3 \in S
    BY <1>0, <2>4
  <2>5. CASE S \cap {0, 1, 2, 3} = {} /\ 4 \in S
    BY <1>0, <2>5
  <2>6. CASE S = {5}
    BY <2>6
  <2> QED
    BY <1>0, <2>1, <2>2, <2>3, <2>4, <2>5, <2>6
<1>3. Max(S) \in S /\ \A n \in S : n <= Max(S)
  BY <1>1 DEF Max
<1>4. Min(S) \in S /\ \A n \in S : Min(S) <= n
  BY <1>2 DEF Min
<1> QED
  BY <1>3, <1>4

\* What RbacGuard computes with the highest and the lowest level is what @Roles promises: one
\* of the caller's roles reaches one of those of the route.
LEMMA PermitsReaches ==
    ASSUME NEW token, NEW route \in Routes, Permits(token, route), RequiredBy[route] # {}
    PROVE  \E own \in RolesOf[token] \cap Role, required \in RequiredBy[route] :
              ROLE_HIERARCHY[own] >= ROLE_HIERARCHY[required]
<1> DEFINE Own == {0} \cup {ROLE_HIERARCHY[role] : role \in RolesOf[token] \cap Role}
           Needed == {ROLE_HIERARCHY[role] : role \in RequiredBy[route]}
<1>1. \A role \in Role : ROLE_HIERARCHY[role] \in 1..5
  BY DEF Role, ROLE_HIERARCHY
<1>2. RequiredBy[route] \subseteq Role
  BY GuardsAssumption
<1>3. Own \in SUBSET (0..5) /\ Own # {} /\ Needed \in SUBSET (0..5) /\ Needed # {}
  BY <1>1, <1>2
<1>4. UserLevel(token) \in Own /\ MinRequiredLevel(route) \in Needed
  <2> HIDE DEF Own, Needed
  <2>1. Max(Own) \in Own /\ Min(Needed) \in Needed
    BY <1>3, LevelsAreBounded
  <2> QED
    BY <2>1 DEF UserLevel, MinRequiredLevel, Own, Needed
<1>5. UserLevel(token) # 0 /\ UserLevel(token) >= MinRequiredLevel(route)
  BY DEF Permits
<1>6. PICK own \in RolesOf[token] \cap Role : UserLevel(token) = ROLE_HIERARCHY[own]
  BY <1>4, <1>5
<1>7. PICK required \in RequiredBy[route] : MinRequiredLevel(route) = ROLE_HIERARCHY[required]
  BY <1>4
<1> QED
  BY <1>5, <1>6, <1>7

LEMMA ResolvedIsEntitled ==
    ASSUME NEW token \in Verified, NEW route \in Routes, Permits(token, route),
           NEW t \in Resolved(token)
    PROVE  t \in Tenants /\ Entitled(token, route, t)
BY PermitsReaches, TenancyAssumption DEF Resolved, Entitled

-----------------------------------------------------------------------------
(* The types *)

LEMMA TypeInit == Init => TypeOK
BY PoolAssumption, CallersAssumption, FaultsAssumption
   DEF Init, PoolInit, TypeOK, ProcessTypeOK, RequestTypeOK, ProbeTypeOK, PoolTypeOK, Fresh, NoCall,
       Client, Phases, Steps, Answers


-----------------------------------------------------------------------------
(* Who holds a connection and who waits for one *)

Called == Steps \ {"unborn", "answered"}

\* The steps after the guards.
Inside == {"open", "await client", "begin", "context", "statement", "commit", "reply"}

Waiting(caller) ==
    \/ caller \in Requests /\ pc[caller] \in {"await lookup", "await client"}
    \/ caller \in Probes /\ job[caller] = "await client"

RequestControl(r) ==
    /\ pc[r] \in WithClient <=> holds[r] # NoClient
    /\ pc[r] \in Called => call[r] \in [token : Tokens, route : Routes]
    /\ pc[r] \in Inside \ {"reply"} => left[r] > 0

ProbeControl(p) ==
    /\ job[p] = "select" <=> holds[p] # NoClient
    /\ probe[p] = "unborn" => job[p] = "none"

Exclusive ==
    \A j, k \in Callers : holds[j] # NoClient /\ holds[j] = holds[k] => j = k

QueueOK ==
    \A i, j \in 1..Len(queue) :
        /\ Waiting(queue[i])
        /\ queue[i] = queue[j] => i = j

TypeInv ==
    /\ TypeOK
    /\ \A r \in Requests : RequestControl(r)
    /\ \A p \in Probes : ProbeControl(p)
    /\ Exclusive
    /\ QueueOK

LEMMA TypeInvInit == Init => TypeInv
BY TypeInit, CallersAssumption
   DEF Init, PoolInit, TypeInv, RequestControl, ProbeControl, Exclusive, QueueOK, Called, Inside,
       Steps, WithClient

\* What a step of one caller leaves alone.
RequestsKept(k) ==
    \A r \in Requests \ {k} :
        /\ pc'[r] = pc[r] /\ call'[r] = call[r] /\ tenant'[r] = tenant[r]
        /\ left'[r] = left[r] /\ saw'[r] = saw[r] /\ answer'[r] = answer[r]

ProbesKept(k) ==
    \A p \in Probes \ {k} : probe'[p] = probe[p] /\ checkDb'[p] = checkDb[p] /\ job'[p] = job[p]

HoldsKept(k) == \A j \in Callers \ {k} : holds'[j] = holds[j]

OthersKept(k) == RequestsKept(k) /\ ProbesKept(k) /\ HoldsKept(k)

LEMMA OthersWaitOn ==
    ASSUME NEW k \in Callers, OthersKept(k)
    PROVE  \A j \in Callers : j # k /\ Waiting(j) => Waiting(j)'
BY CallersAssumption DEF OthersKept, RequestsKept, ProbesKept, Waiting

\* A step of a caller that neither waits nor goes to wait, and gets no connection.
LEMMA OwnStep ==
    ASSUME TypeInv, TypeOK', NEW k \in Callers, OthersKept(k),
           ~Waiting(k), queue' = queue,
           holds'[k] \in {holds[k], NoClient},
           k \in Requests => RequestControl(k)',
           k \in Probes => ProbeControl(k)'
    PROVE  TypeInv'
<1> USE CallersAssumption
<1>1. \A r \in Requests : RequestControl(r)'
  <2> SUFFICES ASSUME NEW r \in Requests, r # k PROVE RequestControl(r)'
    OBVIOUS
  <2> QED
    BY DEF TypeInv, RequestControl, OthersKept, RequestsKept, HoldsKept
<1>2. \A p \in Probes : ProbeControl(p)'
  <2> SUFFICES ASSUME NEW p \in Probes, p # k PROVE ProbeControl(p)'
    OBVIOUS
  <2> QED
    BY DEF TypeInv, ProbeControl, OthersKept, ProbesKept, HoldsKept
<1>3. Exclusive'
  BY DEF TypeInv, Exclusive, OthersKept, HoldsKept
<1>4. QueueOK'
  <2> SUFFICES ASSUME NEW i \in 1..Len(queue), NEW j \in 1..Len(queue)
               PROVE  Waiting(queue[i])' /\ (queue[i] = queue[j] => i = j)
    BY DEF QueueOK
  <2>0. queue \in Seq(Callers)
    BY DEF TypeInv, TypeOK, PoolTypeOK
  <2>1. PICK j0 \in Callers : j0 = queue[i]
    BY <2>0
  <2>2. Waiting(j0) /\ (queue[i] = queue[j] => i = j)
    BY <2>1 DEF TypeInv, QueueOK
  <2>3. j0 # k
    BY <2>2
  <2>4. Waiting(j0)'
    BY <2>2, <2>3, OthersWaitOn
  <2> QED
    BY <2>1, <2>2, <2>4 DEF Waiting
<1> QED
  BY <1>1, <1>2, <1>3, <1>4 DEF TypeInv

\* A caller asks for a connection.
LEMMA AskStep ==
    ASSUME TypeInv, TypeOK', NEW k \in Callers, OthersKept(k),
           ~Waiting(k), Waiting(k)', queue' = Append(queue, k), holds' = holds,
           k \in Requests => RequestControl(k)',
           k \in Probes => ProbeControl(k)'
    PROVE  TypeInv'
<1> USE CallersAssumption
<1>1. \A r \in Requests : RequestControl(r)'
  BY DEF TypeInv, RequestControl, OthersKept, RequestsKept, HoldsKept
<1>2. \A p \in Probes : ProbeControl(p)'
  BY DEF TypeInv, ProbeControl, OthersKept, ProbesKept, HoldsKept
<1>3. Exclusive'
  BY DEF TypeInv, Exclusive
<1>4. QueueOK'
  <2> SUFFICES ASSUME NEW i \in 1..Len(queue'), NEW j \in 1..Len(queue')
               PROVE  Waiting(queue[i])' /\ (queue'[i] = queue'[j] => i = j)
    BY DEF QueueOK
  <2>0. queue \in Seq(Callers)
    BY DEF TypeInv, TypeOK, PoolTypeOK
  <2>9. Len(queue') = Len(queue) + 1
    BY <2>0
  <2>1. ASSUME NEW n \in 1..Len(queue)
        PROVE  queue'[n] = queue[n] /\ queue[n] \in Callers /\ Waiting(queue[n]) /\ queue[n] # k
    <3>1. queue'[n] = queue[n] /\ queue[n] \in Callers /\ Waiting(queue[n])
      BY <2>0 DEF TypeInv, QueueOK
    <3> QED
      BY <3>1
  <2>2. queue'[Len(queue) + 1] = k
    BY <2>0
  <2>3. Waiting(queue[i])'
    <3>1. CASE i = Len(queue) + 1
      BY <2>2, <3>1 DEF Waiting
    <3>2. CASE i \in 1..Len(queue)
      <4>1. PICK j0 \in Callers : j0 = queue[i] /\ j0 = queue'[i] /\ j0 # k /\ Waiting(j0)
        BY <2>1, <3>2
      <4>2. Waiting(j0)'
        BY <4>1, OthersWaitOn
      <4> QED
        BY <4>1, <4>2 DEF Waiting
    <3> QED
      BY <2>9, <3>1, <3>2, <2>0
  <2>4. queue'[i] = queue'[j] => i = j
    BY <2>0, <2>1, <2>2, <2>9 DEF TypeInv, QueueOK
  <2> QED
    BY <2>3, <2>4
<1> QED
  BY <1>1, <1>2, <1>3, <1>4 DEF TypeInv

-----------------------------------------------------------------------------
(* What the operations of the pool and an answer do *)

LEMMA ReleaseEffect ==
    ASSUME PoolTypeOK, NEW k \in Callers, holds[k] # NoClient, NEW session \in Client,
           Release(k, session)
    PROVE  /\ PoolTypeOK' /\ HoldsKept(k) /\ holds'[k] = NoClient
           /\ queue' = queue /\ pool' = pool
           /\ \A c \in Clients \ {holds[k]} : client'[c] = client[c]
           /\ client'[holds[k]] = IF session.state = "dead" THEN Fresh ELSE session
BY PoolAssumption, TenancyAssumption DEF Release, PoolTypeOK, HoldsKept, Fresh, Client

LEMMA InSessionEffect ==
    ASSUME PoolTypeOK, NEW k \in Callers, holds[k] # NoClient, NEW session \in Client,
           InSession(k, session)
    PROVE  /\ PoolTypeOK' /\ holds' = holds
           /\ queue' = queue /\ pool' = pool
           /\ \A c \in Clients \ {holds[k]} : client'[c] = client[c]
           /\ client'[holds[k]] = session
BY PoolAssumption DEF InSession, PoolTypeOK

LEMMA ConnectEffect ==
    ASSUME PoolTypeOK, NEW k \in Callers, Connect(k)
    PROVE  PoolTypeOK' /\ queue' = Append(queue, k) /\ UNCHANGED <<client, holds, pool>>
BY DEF PoolTypeOK, Connect

LEMMA ReplyEffect ==
    ASSUME RequestTypeOK, NEW r \in Requests, NEW status \in Answers, Reply(r, status)
    PROVE  /\ RequestTypeOK' /\ RequestsKept(r)
           /\ pc'[r] = "answered" /\ saw'[r] = {} /\ answer'[r] = status
BY TenancyAssumption DEF Reply, RequestTypeOK, RequestsKept, NoCall, Steps

LEMMA GotoEffect ==
    ASSUME RequestTypeOK, NEW r \in Requests, NEW there \in Steps, Goto(r, there)
    PROVE  /\ pc' \in [Requests -> Steps] /\ pc'[r] = there
           /\ \A q \in Requests \ {r} : pc'[q] = pc[q]
           /\ answer' = answer
BY DEF Goto, RequestTypeOK

LEMMA SessionIsClient ==
    ASSUME PoolTypeOK, NEW k \in Callers, holds[k] # NoClient
    PROVE  Session(k) \in Client /\ holds[k] \in Clients
BY DEF Session, PoolTypeOK

\* Of the steps of the guards and handlers only the call, tenant and counter matter here.
LEMMA AnsweredHolds ==
    ASSUME NEW r \in Requests, pc'[r] = "answered", holds'[r] = NoClient
    PROVE  RequestControl(r)'
BY DEF RequestControl, Called, Inside, WithClient

-----------------------------------------------------------------------------
(* The steps of the callers *)

LEMMA TypeArrive ==
    ASSUME TypeInv, NEW r \in Requests, Arrive(r)
    PROVE  TypeInv'
<1> USE CallersAssumption DEF TypeInv, TypeOK
<1>0. ProbeTypeOK' /\ ProcessTypeOK'
  BY DEF Arrive, ProbeTypeOK, probeVars, processVars, ProcessTypeOK
<1>1. PoolTypeOK' /\ HoldsKept(r) /\ ProbesKept(r) /\ holds' = holds /\ queue' = queue
  BY DEF Arrive, PoolTypeOK, HoldsKept, ProbesKept, poolVars, probeVars
<1>4. pc' \in [Requests -> Steps] /\ pc'[r] = "authenticate" /\ answer' = answer
      /\ \A q \in Requests \ {r} : pc'[q] = pc[q]
  BY GotoEffect DEF Arrive, Steps
<1>5. PICK asked \in [token : Tokens, route : Routes] : call' = [call EXCEPT ![r] = asked]
  BY CallsAssumption DEF Arrive
<1>2. RequestTypeOK' /\ RequestsKept(r) /\ ~Waiting(r)
  BY <1>4, <1>5 DEF Arrive, RequestTypeOK, RequestsKept, Waiting
<1>3. RequestControl(r)'
  <2>1. call'[r] \in [token : Tokens, route : Routes]
    BY <1>5 DEF RequestTypeOK
  <2>2. holds[r] = NoClient
    BY DEF Arrive, RequestControl, WithClient, PoolTypeOK
  <2> QED
    BY <1>1, <1>4, <2>1, <2>2 DEF RequestControl, Inside, WithClient
<1> QED
  BY <1>0, <1>1, <1>2, <1>3, OwnStep DEF OthersKept

LEMMA TypeBegin ==
    ASSUME TypeInv, NEW r \in Requests, Begin(r)
    PROVE  TypeInv'
<1> USE CallersAssumption DEF TypeInv, TypeOK
<1>0. ProbeTypeOK' /\ ProcessTypeOK'
  BY DEF Begin, ProbeTypeOK, probeVars, processVars, ProcessTypeOK
<1>9. holds[r] # NoClient /\ Session(r) \in Client
  BY SessionIsClient DEF Begin, RequestControl, WithClient, Fail
<1>1. /\ PoolTypeOK' /\ HoldsKept(r) /\ ProbesKept(r)
      /\ queue' = queue /\ holds' = holds
  <2>1. Begun(Session(r)) \in Client
    BY <1>9, TenancyAssumption DEF Begun, RequestTypeOK, Client
  <2>2. InSession(r, Begun(Session(r)))
    BY DEF Begin
  <2>3. ProbesKept(r)
    BY DEF Begin, ProbesKept, probeVars
  <2> QED
    BY <1>9, <2>1, <2>2, <2>3, InSessionEffect DEF HoldsKept
<1>2. RequestTypeOK' /\ RequestsKept(r) /\ ~Waiting(r)
  BY DEF Begin, RequestTypeOK, RequestsKept, Goto, Waiting, Steps
<1>3. RequestControl(r)'
  BY <1>1, <1>2 DEF Begin, Goto, RequestControl, Called, Inside, RequestTypeOK, Steps, WithClient
<1> QED
  BY <1>0, <1>1, <1>2, <1>3, OwnStep DEF OthersKept

LEMMA TypeSetTenantContext ==
    ASSUME TypeInv, NEW r \in Requests, SetTenantContext(r)
    PROVE  TypeInv'
<1> USE CallersAssumption DEF TypeInv, TypeOK
<1>0. ProbeTypeOK' /\ ProcessTypeOK'
  BY DEF SetTenantContext, ProbeTypeOK, probeVars, processVars, ProcessTypeOK
<1>9. holds[r] # NoClient /\ Session(r) \in Client
  BY SessionIsClient DEF SetTenantContext, RequestControl, WithClient, Fail
<1>1. /\ PoolTypeOK' /\ HoldsKept(r) /\ ProbesKept(r)
      /\ queue' = queue /\ holds' = holds
  <2>1. WithTenant(Session(r), tenant[r]) \in Client
    BY <1>9, TenancyAssumption DEF WithTenant, RequestTypeOK, Client
  <2>2. InSession(r, WithTenant(Session(r), tenant[r]))
    BY DEF SetTenantContext
  <2>3. ProbesKept(r)
    BY DEF SetTenantContext, ProbesKept, probeVars
  <2> QED
    BY <1>9, <2>1, <2>2, <2>3, InSessionEffect DEF HoldsKept
<1>2. RequestTypeOK' /\ RequestsKept(r) /\ ~Waiting(r)
  BY DEF SetTenantContext, RequestTypeOK, RequestsKept, Goto, Waiting, Steps
<1>3. RequestControl(r)'
  BY <1>1, <1>2 DEF SetTenantContext, Goto, RequestControl, Called, Inside, RequestTypeOK, Steps, WithClient
<1> QED
  BY <1>0, <1>1, <1>2, <1>3, OwnStep DEF OthersKept

LEMMA TypeStatement ==
    ASSUME TypeInv, NEW r \in Requests, Statement(r)
    PROVE  TypeInv'
<1> USE CallersAssumption DEF TypeInv, TypeOK
<1>0. ProbeTypeOK' /\ ProcessTypeOK'
  BY DEF Statement, ProbeTypeOK, probeVars, processVars, ProcessTypeOK
<1>1. PoolTypeOK' /\ HoldsKept(r) /\ ProbesKept(r) /\ holds' = holds /\ queue' = queue
  BY DEF Statement, PoolTypeOK, HoldsKept, ProbesKept, poolVars, probeVars
<1>4. pc' \in [Requests -> Steps] /\ pc'[r] = "commit" /\ answer' = answer
      /\ \A q \in Requests \ {r} : pc'[q] = pc[q]
  BY GotoEffect DEF Statement, Steps
<1>5. Visible(Session(r)) \in SUBSET Tenants
  BY DEF Visible
<1>2. RequestTypeOK' /\ RequestsKept(r) /\ ~Waiting(r)
  BY <1>4, <1>5 DEF Statement, RequestTypeOK, RequestsKept, Waiting
<1>3. RequestControl(r)'
  BY <1>1, <1>2 DEF Statement, Goto, RequestControl, Called, Inside, RequestTypeOK, Steps, WithClient
<1> QED
  BY <1>0, <1>1, <1>2, <1>3, OwnStep DEF OthersKept

LEMMA TypeCommit ==
    ASSUME TypeInv, NEW r \in Requests, Commit(r)
    PROVE  TypeInv'
<1> USE CallersAssumption DEF TypeInv, TypeOK
<1>0. ProbeTypeOK' /\ ProcessTypeOK'
  BY DEF Commit, ProbeTypeOK, probeVars, processVars, ProcessTypeOK
<1>9. holds[r] # NoClient /\ Session(r) \in Client
  BY SessionIsClient DEF Commit, RequestControl, WithClient, Fail
<1>1. /\ PoolTypeOK' /\ HoldsKept(r) /\ ProbesKept(r)
      /\ queue' = queue /\ holds'[r] = NoClient
  <2>1. Over(Session(r)) \in Client
    BY <1>9, TenancyAssumption DEF Over, Fresh, Broken, Client
  <2>2. Release(r, Over(Session(r)))
    BY DEF Commit
  <2>3. ProbesKept(r)
    BY DEF Commit, ProbesKept, probeVars
  <2> QED
    BY <1>9, <2>1, <2>2, <2>3, ReleaseEffect
<1>8. left[r] > 0
  BY DEF Commit, RequestControl, Inside, Steps
<1>4. PICK there \in {"reply", "open"} :
         /\ pc' \in [Requests -> Steps] /\ pc'[r] = there /\ answer' = answer
         /\ \A q \in Requests \ {r} : pc'[q] = pc[q]
         /\ there = "open" => left[r] # 1
  <2>1. PICK there \in {"reply", "open"} : Goto(r, there) /\ (there = "open" => left[r] # 1)
    BY DEF Commit, LastOne
  <2>2. there \in Steps
    BY DEF Steps
  <2> QED
    BY <2>1, <2>2, GotoEffect
<1>5. left' = [left EXCEPT ![r] = left[r] - 1]
  BY DEF Commit
<1>6. /\ left' \in [Requests -> Nat] /\ left'[r] = left[r] - 1
      /\ \A q \in Requests \ {r} : left'[q] = left[q]
      /\ left'[r] > 0 \/ left[r] = 1
  BY <1>5, <1>8 DEF RequestTypeOK
<1>7. pc[r] = "commit" /\ UNCHANGED <<call, tenant, saw>>
  BY DEF Commit
<1>2. RequestTypeOK' /\ RequestsKept(r) /\ ~Waiting(r)
  BY <1>4, <1>6, <1>7 DEF RequestTypeOK, RequestsKept, Waiting
<1>3. RequestControl(r)'
  <2>1. call'[r] \in [token : Tokens, route : Routes]
    BY <1>7 DEF RequestControl, Called, Steps
  <2> QED
    BY <1>1, <1>4, <1>6, <2>1 DEF RequestControl, Inside, WithClient
<1> QED
  BY <1>0, <1>1, <1>2, <1>3, OwnStep DEF OthersKept

LEMMA TypeThrow ==
    ASSUME TypeInv, NEW r \in Requests, Throw(r)
    PROVE  TypeInv'
<1> USE CallersAssumption DEF TypeInv, TypeOK
<1>0. ProbeTypeOK' /\ ProcessTypeOK'
  BY DEF Throw, ProbeTypeOK, probeVars, processVars, ProcessTypeOK
<1>9. holds[r] # NoClient /\ Session(r) \in Client
  BY SessionIsClient DEF Throw, RequestControl, WithClient, Fail
<1>1. /\ PoolTypeOK' /\ HoldsKept(r) /\ ProbesKept(r)
      /\ queue' = queue /\ holds'[r] = NoClient
  <2>1. Over(Session(r)) \in Client
    BY <1>9, TenancyAssumption DEF Over, Fresh, Broken, Client
  <2>2. Release(r, Over(Session(r)))
    BY DEF Throw
  <2>3. ProbesKept(r)
    BY DEF Throw, ProbesKept, probeVars
  <2> QED
    BY <1>9, <2>1, <2>2, <2>3, ReleaseEffect
<1>2. RequestTypeOK' /\ RequestsKept(r) /\ ~Waiting(r) /\ pc'[r] = "answered"
  <2>1. Reply(r, 409) /\ 409 \in Answers
    BY DEF Throw, Answers
  <2>2. ~Waiting(r)
    BY DEF Throw, Waiting, WithClient
  <2> QED
    BY <2>1, <2>2, ReplyEffect
<1>3. RequestControl(r)'
  BY <1>1, <1>2, AnsweredHolds
<1> QED
  BY <1>0, <1>1, <1>2, <1>3, OwnStep DEF OthersKept

LEMMA TypeFail ==
    ASSUME TypeInv, NEW r \in Requests, Fail(r)
    PROVE  TypeInv'
<1> USE CallersAssumption DEF TypeInv, TypeOK
<1>0. ProbeTypeOK' /\ ProcessTypeOK'
  BY DEF Fail, ProbeTypeOK, probeVars, processVars, ProcessTypeOK
<1>9. holds[r] # NoClient /\ Session(r) \in Client
  BY SessionIsClient DEF Fail, RequestControl, WithClient, Fail
<1>1. /\ PoolTypeOK' /\ HoldsKept(r) /\ ProbesKept(r)
      /\ queue' = queue /\ holds'[r] = NoClient
  <2>1. Broken \in Client
    BY <1>9, TenancyAssumption DEF Over, Fresh, Broken, Client
  <2>2. Release(r, Broken)
    BY DEF Fail
  <2>3. ProbesKept(r)
    BY DEF Fail, ProbesKept, probeVars
  <2> QED
    BY <1>9, <2>1, <2>2, <2>3, ReleaseEffect
<1>2. RequestTypeOK' /\ RequestsKept(r) /\ ~Waiting(r) /\ pc'[r] = "answered"
  <2>1. Reply(r, 500) /\ 500 \in Answers
    BY DEF Fail, Answers
  <2>2. ~Waiting(r)
    BY DEF Fail, Waiting, WithClient
  <2> QED
    BY <2>1, <2>2, ReplyEffect
<1>3. RequestControl(r)'
  BY <1>1, <1>2, AnsweredHolds
<1> QED
  BY <1>0, <1>1, <1>2, <1>3, OwnStep DEF OthersKept

LEMMA TypeSucceed ==
    ASSUME TypeInv, NEW r \in Requests, Succeed(r)
    PROVE  TypeInv'
<1> USE CallersAssumption DEF TypeInv, TypeOK
<1>0. ProbeTypeOK' /\ ProcessTypeOK'
  BY DEF Succeed, ProbeTypeOK, probeVars, processVars, ProcessTypeOK
<1>1. PoolTypeOK' /\ HoldsKept(r) /\ ProbesKept(r) /\ holds' = holds /\ queue' = queue
  BY DEF Succeed, PoolTypeOK, HoldsKept, ProbesKept, poolVars, probeVars
<1>9. holds[r] = NoClient
  BY DEF Succeed, RequestControl, PoolTypeOK, WithClient
<1>2. RequestTypeOK' /\ RequestsKept(r) /\ ~Waiting(r) /\ pc'[r] = "answered"
  <2>1. Reply(r, 200) /\ 200 \in Answers
    BY DEF Succeed, Answers
  <2>2. ~Waiting(r)
    BY DEF Succeed, Waiting, WithClient
  <2> QED
    BY <2>1, <2>2, ReplyEffect
<1>3. RequestControl(r)'
  BY <1>1, <1>2, <1>9, AnsweredHolds
<1> QED
  BY <1>0, <1>1, <1>2, <1>3, OwnStep DEF OthersKept

LEMMA TypeEnqueueCompletion ==
    ASSUME TypeInv, NEW r \in Requests, EnqueueCompletion(r)
    PROVE  TypeInv'
<1> USE CallersAssumption DEF TypeInv, TypeOK
<1>0. ProbeTypeOK' /\ ProcessTypeOK'
  BY DEF EnqueueCompletion, ProbeTypeOK, probeVars, processVars, ProcessTypeOK
<1>1. PoolTypeOK' /\ HoldsKept(r) /\ ProbesKept(r) /\ holds' = holds /\ queue' = queue
  BY DEF EnqueueCompletion, PoolTypeOK, HoldsKept, ProbesKept, poolVars, probeVars
<1>9. holds[r] = NoClient
  BY DEF EnqueueCompletion, RequestControl, PoolTypeOK, WithClient
<1>2. RequestTypeOK' /\ RequestsKept(r) /\ ~Waiting(r) /\ pc'[r] = "answered"
  <2>1. PICK status \in {200, 500} : Reply(r, status) /\ status \in Answers
    BY DEF EnqueueCompletion, Answers
  <2>2. ~Waiting(r)
    BY DEF EnqueueCompletion, Waiting, WithClient
  <2> QED
    BY <2>1, <2>2, ReplyEffect
<1>3. RequestControl(r)'
  BY <1>1, <1>2, <1>9, AnsweredHolds
<1> QED
  BY <1>0, <1>1, <1>2, <1>3, OwnStep DEF OthersKept

LEMMA TypeLookup ==
    ASSUME TypeInv, NEW r \in Requests, Lookup(r)
    PROVE  TypeInv'
<1> USE CallersAssumption DEF TypeInv, TypeOK
<1>0. ProbeTypeOK' /\ ProcessTypeOK'
  BY DEF Lookup, ProbeTypeOK, probeVars, processVars, ProcessTypeOK
<1>9. holds[r] # NoClient /\ Session(r) \in Client
  BY SessionIsClient DEF Lookup, RequestControl, WithClient, Fail
<1>1. /\ PoolTypeOK' /\ HoldsKept(r) /\ ProbesKept(r)
      /\ queue' = queue /\ holds'[r] = NoClient
  <2>1. Session(r) \in Client
    BY <1>9, TenancyAssumption DEF Over, Fresh, Broken, Client
  <2>2. Release(r, Session(r))
    BY DEF Lookup
  <2>3. ProbesKept(r)
    BY DEF Lookup, ProbesKept, probeVars
  <2> QED
    BY <1>9, <2>1, <2>2, <2>3, ReleaseEffect
<1>4. CASE Reply(r, 403)
  <2>0. ~Waiting(r) /\ 403 \in Answers
    BY DEF Lookup, Waiting, Answers
  <2>1. RequestTypeOK' /\ RequestsKept(r) /\ ~Waiting(r) /\ pc'[r] = "answered"
    BY <1>4, <2>0, ReplyEffect
  <2>2. RequestControl(r)'
    BY <1>1, <2>1, AnsweredHolds
  <2> QED
    BY <1>0, <1>1, <2>1, <2>2, OwnStep DEF OthersKept
<1>5. CASE ~Reply(r, 403)
  <2>1. PICK t \in Tenants : tenant' = [tenant EXCEPT ![r] = t]
    BY <1>5, TenancyAssumption DEF Lookup, Resolved
  <2>2. TransactionsOf[call[r].route] \in Nat \ {0}
    BY RoutesAssumption DEF Lookup, RequestControl, Called, Steps
  <2>3. pc' \in [Requests -> Steps] /\ pc'[r] = "open" /\ answer' = answer
        /\ \A q \in Requests \ {r} : pc'[q] = pc[q]
    BY <1>5, GotoEffect DEF Lookup, Steps
  <2>4. left' = [left EXCEPT ![r] = TransactionsOf[call[r].route]] /\ UNCHANGED <<call, saw>>
    BY <1>5 DEF Lookup
  <2>5. RequestTypeOK' /\ RequestsKept(r) /\ ~Waiting(r)
    BY <2>1, <2>2, <2>3, <2>4 DEF Lookup, RequestTypeOK, RequestsKept, Waiting
  <2>6. RequestControl(r)'
    <3>1. call'[r] \in [token : Tokens, route : Routes]
      BY <2>4 DEF Lookup, RequestControl, Called, Steps
    <3>2. left'[r] > 0
      BY <2>2, <2>4 DEF RequestTypeOK
    <3> QED
      BY <1>1, <2>3, <3>1, <3>2 DEF RequestControl, Inside, WithClient
  <2> QED
    BY <1>0, <1>1, <2>5, <2>6, OwnStep DEF OthersKept
<1> QED
  BY <1>4, <1>5

\* Ask sends the request to wait for a connection, or fails it.
LEMMA TypeAsk ==
    ASSUME TypeInv, NEW r \in Requests, NEW there \in {"await lookup", "await client"},
           Ask(r, there), pc[r] \in {"authenticate", "open"},
           there = "await client" => pc[r] = "open",
           UNCHANGED <<probeVars, processVars>>
    PROVE  TypeInv'
<1> USE CallersAssumption DEF TypeInv, TypeOK
<1>0. ProbeTypeOK' /\ ProcessTypeOK'
  BY DEF ProbeTypeOK, probeVars, processVars, ProcessTypeOK
<1>1. ProbesKept(r) /\ ~Waiting(r) /\ holds[r] = NoClient
  BY DEF ProbesKept, probeVars, Waiting, RequestControl, WithClient, PoolTypeOK
<1>2. CASE Reply(r, 500) /\ UNCHANGED poolVars
  <2>0. 500 \in Answers
    BY DEF Answers
  <2>1. RequestTypeOK' /\ RequestsKept(r) /\ pc'[r] = "answered"
    BY <1>2, <2>0, ReplyEffect
  <2>2. PoolTypeOK' /\ HoldsKept(r) /\ queue' = queue /\ holds' = holds
    BY <1>2 DEF PoolTypeOK, poolVars, HoldsKept
  <2>3. RequestControl(r)'
    BY <1>1, <2>1, <2>2, AnsweredHolds
  <2> QED
    BY <1>0, <1>1, <2>1, <2>2, <2>3, OwnStep DEF OthersKept
<1>3. CASE Connect(r) /\ Goto(r, there) /\ UNCHANGED <<call, tenant, left, saw>>
  <2>1. PoolTypeOK' /\ queue' = Append(queue, r) /\ holds' = holds
    BY <1>3, ConnectEffect
  <2>2. pc' \in [Requests -> Steps] /\ pc'[r] = there /\ answer' = answer
        /\ \A q \in Requests \ {r} : pc'[q] = pc[q]
    BY <1>3, GotoEffect DEF Steps
  <2>3. RequestTypeOK' /\ OthersKept(r) /\ Waiting(r)'
    BY <1>1, <1>3, <2>1, <2>2
       DEF RequestTypeOK, OthersKept, RequestsKept, HoldsKept, Waiting
  <2>4. RequestControl(r)'
    <3>1. call'[r] \in [token : Tokens, route : Routes]
      BY <1>3 DEF RequestControl, Called, Steps
    <3>2. there = "await client" => left'[r] > 0
      BY <1>3 DEF RequestControl, Inside
    <3> QED
      BY <1>1, <2>1, <2>2, <3>1, <3>2 DEF RequestControl, Inside, WithClient
  <2> QED
    BY <1>0, <1>1, <2>1, <2>3, <2>4, AskStep
<1> QED
  BY <1>2, <1>3 DEF Ask

LEMMA TypeOpen ==
    ASSUME TypeInv, NEW r \in Requests, Open(r)
    PROVE  TypeInv'
BY TypeAsk DEF Open

LEMMA TypeAuthenticate ==
    ASSUME TypeInv, NEW r \in Requests, Authenticate(r)
    PROVE  TypeInv'
<1> USE CallersAssumption DEF TypeInv, TypeOK
<1>1. CASE Ask(r, "await lookup")
  BY <1>1, TypeAsk DEF Authenticate
<1>2. CASE ~Ask(r, "await lookup")
  <2>0. ProbeTypeOK' /\ ProbesKept(r)
        /\ ProcessTypeOK'
    BY DEF Authenticate, ProbeTypeOK, ProbesKept, probeVars, processVars, ProcessTypeOK
  <2>1. PICK status \in Answers : Reply(r, status) /\ UNCHANGED poolVars
    BY <1>2 DEF Authenticate, Answers
  <2>2. RequestTypeOK' /\ RequestsKept(r) /\ pc'[r] = "answered"
    BY <2>1, ReplyEffect
  <2>3. PoolTypeOK' /\ HoldsKept(r) /\ queue' = queue /\ holds' = holds
    BY <2>1 DEF PoolTypeOK, poolVars, HoldsKept
  <2>4. ~Waiting(r) /\ holds[r] = NoClient
    BY DEF Authenticate, Waiting, RequestControl, WithClient, PoolTypeOK
  <2>5. RequestControl(r)'
    BY <2>2, <2>3, <2>4, AnsweredHolds
  <2> QED
    BY <2>0, <2>2, <2>3, <2>4, <2>5, OwnStep DEF OthersKept
<1> QED
  BY <1>1, <1>2

LEMMA TypeProbe ==
    ASSUME TypeInv, NEW p \in Probes, Probe(p)
    PROVE  TypeInv'
<1> USE CallersAssumption DEF TypeInv, TypeOK
<1>0. RequestTypeOK' /\ RequestsKept(p)
      /\ ProcessTypeOK'
  BY DEF Probe, RequestTypeOK, RequestsKept, requestVars, processVars, ProcessTypeOK
<1>1. PoolTypeOK' /\ queue' = Append(queue, p) /\ holds' = holds
  BY ConnectEffect DEF Probe
<1>2. ProbeTypeOK' /\ ProbesKept(p)
  BY DEF Probe, ProbeTypeOK, ProbesKept
<1>3. job'[p] = "await client" /\ job[p] = "none"
  BY DEF Probe, ProbeTypeOK, ProbeControl
<1>4. ~Waiting(p) /\ Waiting(p)'
  BY <1>3 DEF Waiting
<1>5. ProbeControl(p)'
  BY <1>1, <1>3 DEF Probe, ProbeControl, ProbeTypeOK, WithClient, PoolTypeOK
<1> QED
  BY <1>0, <1>1, <1>2, <1>4, <1>5, AskStep DEF OthersKept, HoldsKept

LEMMA TypeSelectOne ==
    ASSUME TypeInv, NEW p \in Probes, SelectOne(p)
    PROVE  TypeInv'
<1> USE CallersAssumption DEF TypeInv, TypeOK
<1>0. RequestTypeOK' /\ RequestsKept(p)
      /\ ProcessTypeOK'
  BY DEF SelectOne, RequestTypeOK, RequestsKept, requestVars, processVars, ProcessTypeOK
<1>1. holds[p] # NoClient /\ Session(p) \in Client
  BY SessionIsClient DEF SelectOne, ProbeControl
<1>2. PoolTypeOK' /\ HoldsKept(p) /\ queue' = queue /\ holds'[p] = NoClient
  BY <1>1, ReleaseEffect DEF SelectOne
<1>3. ProbeTypeOK' /\ ProbesKept(p) /\ ~Waiting(p)
  BY DEF SelectOne, Settle, ProbeTypeOK, ProbesKept, Waiting
<1>4. ProbeControl(p)'
  BY <1>2 DEF SelectOne, ProbeControl, ProbeTypeOK
<1> QED
  BY <1>0, <1>2, <1>3, <1>4, OwnStep DEF OthersKept

\* A step of a probe that does not touch its SELECT 1, which may wait meanwhile.
LEMMA JobKept ==
    ASSUME TypeInv, TypeOK', NEW p \in Probes, OthersKept(p), probe'[p] # "unborn",
           UNCHANGED <<job, queue, holds>>
    PROVE  TypeInv'
<1> USE CallersAssumption
<1>1. \A r \in Requests : RequestControl(r)' /\ (Waiting(r) => Waiting(r)')
  BY DEF TypeInv, RequestControl, OthersKept, RequestsKept, Waiting
<1>2. \A q \in Probes : ProbeControl(q)' /\ (Waiting(q) => Waiting(q)')
  BY DEF TypeInv, ProbeControl, OthersKept, ProbesKept, Waiting
<1>3. Exclusive'
  BY DEF TypeInv, Exclusive
<1>4. QueueOK'
  <2> SUFFICES ASSUME NEW i \in 1..Len(queue), NEW j \in 1..Len(queue)
               PROVE  Waiting(queue[i])' /\ (queue[i] = queue[j] => i = j)
    BY DEF QueueOK
  <2>0. queue \in Seq(Callers)
    BY DEF TypeInv, TypeOK, PoolTypeOK
  <2>1. PICK j0 \in Callers : j0 = queue[i]
    BY <2>0
  <2>2. Waiting(j0) /\ (queue[i] = queue[j] => i = j)
    BY <2>1 DEF TypeInv, QueueOK
  <2>3. Waiting(j0)'
    BY <1>1, <1>2, <2>2
  <2> QED
    BY <2>1, <2>2, <2>3 DEF Waiting
<1> QED
  BY <1>1, <1>2, <1>3, <1>4 DEF TypeInv

LEMMA TypeDbTimesOut ==
    ASSUME TypeInv, NEW p \in Probes, DbTimesOut(p)
    PROVE  TypeInv'
<1> USE CallersAssumption DEF TypeInv, TypeOK
<1>0. RequestTypeOK' /\ RequestsKept(p)
      /\ ProcessTypeOK'
  BY DEF DbTimesOut, RequestTypeOK, RequestsKept, requestVars, processVars, ProcessTypeOK
<1>1. PoolTypeOK' /\ job' = job /\ queue' = queue /\ holds' = holds
  BY DEF DbTimesOut, PoolTypeOK, poolVars
<1>2. ProbeTypeOK' /\ ProbesKept(p) /\ probe'[p] # "unborn"
  BY DEF DbTimesOut, Settle, ProbeTypeOK, ProbesKept
<1> QED
  BY <1>0, <1>1, <1>2, JobKept DEF OthersKept, HoldsKept

LEMMA TypeReplyReadiness ==
    ASSUME TypeInv, NEW p \in Probes, ReplyReadiness(p)
    PROVE  TypeInv'
<1> USE CallersAssumption DEF TypeInv, TypeOK
<1>0. RequestTypeOK' /\ RequestsKept(p)
      /\ ProcessTypeOK'
  BY DEF ReplyReadiness, RequestTypeOK, RequestsKept, requestVars, processVars, ProcessTypeOK
<1>1. PoolTypeOK' /\ job' = job /\ queue' = queue /\ holds' = holds
  BY DEF ReplyReadiness, PoolTypeOK, poolVars
<1>2. ProbeTypeOK' /\ ProbesKept(p) /\ probe'[p] # "unborn"
  BY DEF ReplyReadiness, Settle, ProbeTypeOK, ProbesKept
<1> QED
  BY <1>0, <1>1, <1>2, JobKept DEF OthersKept, HoldsKept

LEMMA TypeServe ==
    ASSUME TypeInv, NEW k \in Callers, Serve(k)
    PROVE  TypeInv'
<1> USE CallersAssumption DEF TypeInv, TypeOK
<1>0. PICK c \in Clients :
         /\ CheckedIn(c) /\ queue # <<>> /\ k = Head(queue) /\ queue' = Tail(queue)
         /\ holds' = [holds EXCEPT ![k] = c] /\ UNCHANGED <<client, pool>>
  BY DEF Serve, Grant
<1>1. queue \in Seq(Callers) /\ Len(queue) > 0
  BY <1>0 DEF PoolTypeOK
<1>2. /\ queue' \in Seq(Callers) /\ Len(queue') = Len(queue) - 1 /\ k = queue[1]
      /\ \A i \in 1..Len(queue') : queue'[i] = queue[i + 1]
  BY <1>0, <1>1
<1>3. Waiting(k)
  BY <1>1, <1>2 DEF QueueOK
<1>4. PoolTypeOK' /\ HoldsKept(k) /\ holds'[k] = c /\ c # NoClient
  BY <1>0, <1>2, PoolAssumption DEF PoolTypeOK, HoldsKept
<1>5. UNCHANGED <<call, tenant, left, saw, answer, probe, checkDb, processVars>>
  BY DEF Serve
<1>6. /\ RequestTypeOK' /\ ProbeTypeOK' /\ RequestsKept(k) /\ ProbesKept(k)
      /\ k \in Requests => RequestControl(k)'
      /\ k \in Probes => ProbeControl(k)'
  <2>1. CASE k \in Requests
    <3>0. job' = job /\ k \notin Probes
      BY <2>1 DEF Serve
    <3>1. PICK there \in {"lookup", "begin"} :
             /\ pc' = [pc EXCEPT ![k] = there]
             /\ there = "begin" <=> pc[k] # "await lookup"
      BY <2>1 DEF Serve
    <3>2. pc' \in [Requests -> Steps] /\ pc'[k] = there
          /\ \A q \in Requests \ {k} : pc'[q] = pc[q]
      BY <2>1, <3>1 DEF RequestTypeOK, Steps
    <3>3. RequestTypeOK' /\ ProbeTypeOK' /\ RequestsKept(k) /\ ProbesKept(k)
      BY <1>5, <3>0, <3>2 DEF RequestTypeOK, ProbeTypeOK, RequestsKept, ProbesKept
    <3>4. pc[k] \in {"await lookup", "await client"} /\ RequestControl(k)
      BY <1>3, <2>1 DEF Waiting
    <3>5. call'[k] \in [token : Tokens, route : Routes]
      BY <1>5, <3>4 DEF RequestControl, Called, Steps
    <3>6. there = "begin" => left'[k] > 0
      BY <1>5, <3>1, <3>4 DEF RequestControl, Inside
    <3>7. RequestControl(k)'
      BY <1>4, <3>2, <3>5, <3>6 DEF RequestControl, Inside, WithClient
    <3> QED
      BY <3>0, <3>3, <3>7
  <2>2. CASE k \in Probes
    <3>0. pc' = pc /\ k \notin Requests /\ job' = [job EXCEPT ![k] = "select"]
      BY <2>2 DEF Serve
    <3>1. RequestTypeOK' /\ ProbeTypeOK' /\ RequestsKept(k) /\ ProbesKept(k)
      BY <1>5, <2>2, <3>0 DEF RequestTypeOK, ProbeTypeOK, RequestsKept, ProbesKept
    <3>2. ProbeControl(k)'
      BY <1>3, <1>4, <1>5, <2>2, <3>0 DEF ProbeControl, ProbeTypeOK, Waiting
    <3> QED
      BY <3>0, <3>1, <3>2
  <2> QED
    BY <2>1, <2>2
<1>7. \A r \in Requests : RequestControl(r)'
  BY <1>4, <1>6 DEF RequestControl, RequestsKept, HoldsKept
<1>8. \A p \in Probes : ProbeControl(p)'
  BY <1>4, <1>6 DEF ProbeControl, ProbesKept, HoldsKept
<1>9. Exclusive'
  BY <1>0, <1>4 DEF Exclusive, CheckedIn, HoldsKept
<1>10. QueueOK'
  <2> SUFFICES ASSUME NEW i \in 1..Len(queue'), NEW j \in 1..Len(queue')
               PROVE  Waiting(queue[i])' /\ (queue'[i] = queue'[j] => i = j)
    BY DEF QueueOK
  <2>1. i + 1 \in 1..Len(queue) /\ j + 1 \in 1..Len(queue) /\ 1 \in 1..Len(queue)
    BY <1>1, <1>2
  <2>2. PICK j0 \in Callers : j0 = queue[i + 1] /\ j0 = queue'[i]
    BY <1>1, <1>2, <2>1
  <2>3. Waiting(j0) /\ (queue[i + 1] = queue[j + 1] => i = j) /\ j0 # k
    BY <1>2, <2>1, <2>2 DEF QueueOK
  <2>4. Waiting(j0)'
    BY <1>4, <1>6, <2>3, OthersWaitOn DEF OthersKept
  <2> QED
    BY <1>2, <2>1, <2>2, <2>3, <2>4 DEF Waiting
<1>11. ProcessTypeOK'
  BY <1>5 DEF ProcessTypeOK, processVars
<1> QED
  BY <1>4, <1>6, <1>7, <1>8, <1>9, <1>10, <1>11

\* A step that touches neither a request, nor a probe, nor who holds what.
LEMMA QuietStep ==
    ASSUME TypeInv, UNCHANGED <<requestVars, probeVars, holds, queue>>, PoolTypeOK', ProcessTypeOK'
    PROVE  TypeInv'
<1> USE DEF requestVars, probeVars
<1>1. RequestTypeOK' /\ ProbeTypeOK'
  BY DEF TypeInv, TypeOK, RequestTypeOK, ProbeTypeOK
<1>2. \A r \in Requests : RequestControl(r)'
  BY DEF TypeInv, RequestControl
<1>3. \A p \in Probes : ProbeControl(p)'
  BY DEF TypeInv, ProbeControl
<1>4. Exclusive' /\ QueueOK'
  BY DEF TypeInv, Exclusive, QueueOK, Waiting
<1> QED
  BY <1>1, <1>2, <1>3, <1>4 DEF TypeInv, TypeOK

LEMMA TypeLoseBackend ==
    ASSUME TypeInv, NEW c \in Clients, LoseBackend(c)
    PROVE  TypeInv'
<1> USE DEF LoseBackend, BackendDies, TypeInv, TypeOK
<1>1. PoolTypeOK'
  BY TenancyAssumption DEF PoolTypeOK, Client, Fresh, Broken
<1>2. Cardinality(gone) \in Nat
  <2>1. gone \subseteq Impatient
    BY DEF ProcessTypeOK
  <2> QED
    BY <2>1, ImpatientAssumption, FS_Subset, FS_CardinalityType
<1>3. /\ faults \in Nat /\ MaxFaults \in Nat
      /\ faults + Cardinality(gone) < MaxFaults /\ faults' = faults + 1
  BY FaultsAssumption DEF ProcessTypeOK, Troubles
<1>4. faults' \in 0..MaxFaults
  BY <1>2, <1>3
<1>5. ProcessTypeOK'
  BY <1>4 DEF ProcessTypeOK
<1> QED
  BY <1>1, <1>5, QuietStep

LEMMA TypeProcess ==
    ASSUME TypeInv,
           \/ \E q \in Requests : HangUp(q)
           \/ Signal \/ Drained \/ DrainTimesOut \/ DestroyPool \/ CloseRedis \/ Exit
           \/ UNCHANGED vars
    PROVE  TypeInv'
<1> USE DEF TypeInv, TypeOK, ProcessTypeOK, PoolTypeOK, requestVars, probeVars, processVars,
            poolVars, Phases
<1>1. CASE \E r \in Requests : HangUp(r)
  BY <1>1, QuietStep DEF HangUp
<1>2. CASE Signal
  BY <1>2, QuietStep DEF Signal
<1>3. CASE Drained \/ DrainTimesOut
  BY <1>3, QuietStep DEF Drained, DrainTimesOut, Close
<1>4. CASE DestroyPool
  BY <1>4, QuietStep DEF DestroyPool, EndPool
<1>5. CASE CloseRedis
  BY <1>5, QuietStep DEF CloseRedis
<1>6. CASE Exit
  BY <1>6, QuietStep DEF Exit
<1>7. CASE UNCHANGED vars
  BY <1>7, QuietStep DEF vars
<1> QED
  BY <1>1, <1>2, <1>3, <1>4, <1>5, <1>6, <1>7

LEMMA TypeInvNext == TypeInv /\ [Next]_vars => TypeInv'
<1> SUFFICES ASSUME TypeInv, [Next]_vars PROVE TypeInv'
  OBVIOUS
<1>1. ASSUME NEW r \in Requests,
             Arrive(r) \/ Handle(r) \/ RunStatement(r) \/ EnqueueCompletion(r)
      PROVE  TypeInv'
  BY <1>1, TypeArrive, TypeAuthenticate, TypeOpen, TypeFail, TypeSucceed, TypeEnqueueCompletion,
     TypeLookup, TypeBegin, TypeSetTenantContext, TypeStatement, TypeCommit, TypeThrow
     DEF Handle, RunStatement
<1>2. ASSUME NEW p \in Probes, Probe(p) \/ SelectOne(p) \/ HandleProbe(p) PROVE TypeInv'
  BY <1>2, TypeProbe, TypeSelectOne, TypeDbTimesOut, TypeReplyReadiness DEF HandleProbe
<1>3. ASSUME NEW k \in Callers, Serve(k) PROVE TypeInv'
  BY <1>3, TypeServe
<1>4. ASSUME NEW c \in Clients, LoseBackend(c) PROVE TypeInv'
  BY <1>4, TypeLoseBackend
<1> QED
  BY <1>1, <1>2, <1>3, <1>4, TypeProcess DEF Next

LEMMA TypeInvAlways == Spec => []TypeInv
BY TypeInvInit, TypeInvNext, PTL DEF Spec

\* The variables of the API process keep their types, and a request never runs a transaction
\* more than its route has.
THEOREM ApiTypeOK == Spec => []TypeOK
<1>1. TypeInv => TypeOK
  BY DEF TypeInv
<1> QED
  BY <1>1, TypeInvAlways, PTL

\* No pool size can deadlock the API: whoever waits for a connection holds none.
THEOREM ApiNoHoldAndWait == Spec => []NoHoldAndWait
<1>1. TypeInv => NoHoldAndWait
  <2> SUFFICES ASSUME TypeInv, NEW i \in 1..Len(queue) PROVE holds[queue[i]] = NoClient
    BY DEF NoHoldAndWait
  <2>1. queue \in Seq(Callers)
    BY DEF TypeInv, TypeOK, PoolTypeOK
  <2>2. PICK j \in Callers : j = queue[i]
    BY <2>1
  <2>3. Waiting(j)
    BY <2>2 DEF TypeInv, QueueOK
  <2>4. CASE j \in Requests
    BY <2>2, <2>3, <2>4, CallersAssumption
       DEF TypeInv, TypeOK, PoolTypeOK, Waiting, RequestControl, WithClient
  <2>5. CASE j \in Probes
    BY <2>2, <2>3, <2>5, CallersAssumption
       DEF TypeInv, TypeOK, PoolTypeOK, Waiting, ProbeControl
  <2> QED
    BY <2>4, <2>5, CallersAssumption
<1> QED
  BY <1>1, TypeInvAlways, PTL

-----------------------------------------------------------------------------
(* How far a request is *)

\* The steps that are left of a request: six for each transaction, and those of the guards.
RequestLeft(r) ==
    IF pc[r] = "authenticate" THEN 6 * TransactionsOf[call[r].route] + 4
    ELSE IF pc[r] = "await lookup" THEN 6 * TransactionsOf[call[r].route] + 3
    ELSE IF pc[r] = "lookup" THEN 6 * TransactionsOf[call[r].route] + 2
    ELSE IF pc[r] = "open" THEN 6 * left[r] + 1
    ELSE IF pc[r] = "await client" THEN 6 * left[r]
    ELSE IF pc[r] = "begin" THEN 6 * left[r] - 1
    ELSE IF pc[r] = "context" THEN 6 * left[r] - 2
    ELSE IF pc[r] = "statement" THEN 6 * left[r] - 3
    ELSE IF pc[r] = "commit" THEN 6 * left[r] - 4
    ELSE IF pc[r] = "reply" THEN 1
    ELSE 0

Calm(r) == UNCHANGED <<pc[r], call[r], left[r]>>

RequestsLeftAreNatural == \A r \in Requests : RequestLeft(r) \in Nat
RequestsRunDown ==
    \A r \in Requests : pc[r] # "unborn" => RequestLeft(r)' < RequestLeft(r) \/ Calm(r)

\* What the control of a request says of its measure.
Numbers(r) ==
    /\ left[r] \in Nat
    /\ pc[r] \in {"authenticate", "await lookup", "lookup"} =>
          /\ call[r].route \in Routes
          /\ TransactionsOf[call[r].route] \in Nat
    /\ pc[r] \in {"open", "await client", "begin", "context", "statement", "commit"}
          => left[r] > 0

LEMMA RequestNumbers ==
    ASSUME TypeInv, NEW r \in Requests
    PROVE  Numbers(r)
<1>1. RequestControl(r) /\ left[r] \in Nat
  BY DEF TypeInv, TypeOK, RequestTypeOK
<1>2. pc[r] \in {"authenticate", "await lookup", "lookup"} => call[r].route \in Routes
  BY <1>1 DEF RequestControl, Called, Steps
<1>3. \A route \in Routes : TransactionsOf[route] \in Nat
  BY RoutesAssumption
<1>4. pc[r] \in {"open", "await client", "begin", "context", "statement", "commit"} => left[r] > 0
  BY <1>1 DEF RequestControl, Inside
<1> QED
  BY <1>1, <1>2, <1>3, <1>4 DEF Numbers

\* While a request has not its answer, it has a step to make.
LEMMA RequestLeftPositive ==
    ASSUME TypeInv, NEW r \in Requests, pc[r] \in Called
    PROVE  RequestLeft(r) \in Nat \ {0}
<1>1. Numbers(r) /\ pc[r] \in Steps \ {"unborn", "answered"}
  BY RequestNumbers DEF TypeInv, TypeOK, RequestTypeOK, Called
<1>2. CASE pc[r] = "authenticate"
  <2>1. TransactionsOf[call[r].route] \in Nat
    BY <1>1, <1>2 DEF Numbers
  <2> QED
    BY <1>2, <2>1 DEF RequestLeft
<1>3. CASE pc[r] = "await lookup"
  <2>1. TransactionsOf[call[r].route] \in Nat
    BY <1>1, <1>3 DEF Numbers
  <2>2. RequestLeft(r) = 6 * TransactionsOf[call[r].route] + 3
    BY <1>3 DEF RequestLeft
  <2> QED
    BY <2>1, <2>2
<1>4. CASE pc[r] = "lookup"
  <2>1. TransactionsOf[call[r].route] \in Nat
    BY <1>1, <1>4 DEF Numbers
  <2> QED
    BY <1>4, <2>1 DEF RequestLeft
<1>5. CASE pc[r] = "open"
  <2>1. left[r] \in Nat \ {0}
    BY <1>1, <1>5 DEF Numbers
  <2> QED
    BY <1>5, <2>1 DEF RequestLeft
<1>6. CASE pc[r] = "await client"
  <2>1. left[r] \in Nat \ {0}
    <3>1. left[r] \in Nat /\ left[r] > 0
      BY <1>1, <1>6 DEF Numbers
    <3> QED
      BY <3>1
  <2>2. RequestLeft(r) = 6 * left[r]
    BY <1>6 DEF RequestLeft
  <2> QED
    BY <2>1, <2>2
<1>7. CASE pc[r] = "begin"
  <2>1. left[r] \in Nat \ {0}
    BY <1>1, <1>7 DEF Numbers
  <2> QED
    BY <1>7, <2>1 DEF RequestLeft
<1>8. CASE pc[r] = "context"
  <2>1. left[r] \in Nat \ {0}
    BY <1>1, <1>8 DEF Numbers
  <2> QED
    BY <1>8, <2>1 DEF RequestLeft
<1>9. CASE pc[r] = "statement"
  <2>1. left[r] \in Nat \ {0}
    BY <1>1, <1>9 DEF Numbers
  <2> QED
    BY <1>9, <2>1 DEF RequestLeft
<1>10. CASE pc[r] = "commit"
  <2>1. left[r] \in Nat \ {0}
    BY <1>1, <1>10 DEF Numbers
  <2> QED
    BY <1>10, <2>1 DEF RequestLeft
<1>11. CASE pc[r] = "reply"
  BY <1>11 DEF RequestLeft
<1> QED
  BY <1>1, <1>2, <1>3, <1>4, <1>5, <1>6, <1>7, <1>8, <1>9, <1>10, <1>11 DEF Steps

LEMMA RequestLeftType == TypeInv => RequestsLeftAreNatural
<1> SUFFICES ASSUME TypeInv, NEW r \in Requests PROVE RequestLeft(r) \in Nat
  BY DEF RequestsLeftAreNatural
<1>1. pc[r] \in Called \/ pc[r] \in {"unborn", "answered"}
  BY DEF TypeInv, TypeOK, RequestTypeOK, Called
<1>2. pc[r] \in {"unborn", "answered"} => RequestLeft(r) = 0
  BY DEF RequestLeft
<1> QED
  BY <1>1, <1>2, RequestLeftPositive

LEMMA ReplyRunsDown ==
    ASSUME TypeInv, NEW r \in Requests, NEW status, Reply(r, status), pc[r] \in Called
    PROVE  RequestLeft(r)' < RequestLeft(r)
<1>1. pc'[r] = "answered"
  BY DEF Reply, TypeInv, TypeOK, RequestTypeOK
<1>2. RequestLeft(r)' = 0
  BY <1>1 DEF RequestLeft
<1> QED
  BY <1>2, RequestLeftPositive

LEMMA AskEffect ==
    ASSUME NEW r, NEW there, Ask(r, there)
    PROVE  Reply(r, 500) \/ (pc' = [pc EXCEPT ![r] = there] /\ call' = call /\ left' = left)
BY DEF Ask, Goto

LEMMA RequestStepRunsDown ==
    ASSUME TypeInv, NEW r \in Requests,
           Handle(r) \/ RunStatement(r) \/ EnqueueCompletion(r)
    PROVE  RequestLeft(r)' < RequestLeft(r)
<1>n. Numbers(r) /\ pc \in [Requests -> Steps] /\ left \in [Requests -> Nat]
  BY RequestNumbers DEF TypeInv, TypeOK, RequestTypeOK
<1>0. ASSUME NEW status, Reply(r, status), pc[r] \in Called
      PROVE  RequestLeft(r)' < RequestLeft(r)
  BY <1>0, ReplyRunsDown
<1>1. CASE Authenticate(r)
  <2>1. pc[r] = "authenticate"
    BY <1>1 DEF Authenticate
  <2>2. \/ \E status \in {401, 403, 500} : Reply(r, status)
        \/ Goto(r, "await lookup") /\ UNCHANGED call
    BY <1>1 DEF Authenticate, Ask
  <2>3. CASE Goto(r, "await lookup") /\ UNCHANGED call
    <3> DEFINE T == TransactionsOf[call[r].route]
    <3>1. T' = T /\ T \in Nat
      BY <1>n, <2>1, <2>3 DEF Numbers
    <3>2. pc'[r] = "await lookup"
      BY <1>n, <2>3 DEF Goto
    <3>3. RequestLeft(r) = 6 * T + 4 /\ RequestLeft(r)' = 6 * T' + 3
      BY <2>1, <3>2 DEF RequestLeft
    <3> QED
      BY <3>1, <3>3
  <2> QED
    BY <1>0, <2>1, <2>2, <2>3 DEF Called, Steps
<1>2. CASE Open(r)
  <2>1. pc[r] = "open"
    BY <1>2 DEF Open
  <2>2. Reply(r, 500) \/ (pc' = [pc EXCEPT ![r] = "await client"] /\ call' = call /\ left' = left)
    BY <1>2, AskEffect DEF Open
  <2>3. CASE pc' = [pc EXCEPT ![r] = "await client"] /\ call' = call /\ left' = left
    <3>1. left'[r] = left[r] /\ left[r] \in Nat
      BY <1>n, <2>3
    <3>2. pc'[r] = "await client"
      BY <1>n, <2>3
    <3>3. RequestLeft(r) = 6 * left[r] + 1 /\ RequestLeft(r)' = 6 * left'[r]
      BY <2>1, <3>2 DEF RequestLeft
    <3> QED
      BY <3>1, <3>3
  <2> QED
    BY <1>0, <2>1, <2>2, <2>3 DEF Called, Steps
<1>3. CASE Fail(r) \/ Succeed(r) \/ EnqueueCompletion(r) \/ Throw(r)
  BY <1>0, <1>3 DEF Fail, Succeed, EnqueueCompletion, Throw, Called, Steps, WithClient
<1>4. CASE Lookup(r)
  <2>1. pc[r] = "lookup"
    BY <1>4 DEF Lookup
  <2>2. \/ Reply(r, 403)
        \/ /\ Goto(r, "open")
           /\ left' = [left EXCEPT ![r] = TransactionsOf[call[r].route]]
    BY <1>4 DEF Lookup
  <2>3. CASE Goto(r, "open") /\ left' = [left EXCEPT ![r] = TransactionsOf[call[r].route]]
    BY <1>n, <2>1, <2>3 DEF Goto, RequestLeft, Numbers
  <2> QED
    BY <1>0, <2>1, <2>2, <2>3 DEF Called, Steps
<1>5. CASE Begin(r)
  BY <1>n, <1>5 DEF Begin, Goto, RequestLeft, Numbers
<1>6. CASE SetTenantContext(r)
  BY <1>n, <1>6 DEF SetTenantContext, Goto, RequestLeft, Numbers
<1>7. CASE Statement(r)
  BY <1>n, <1>7 DEF Statement, Goto, RequestLeft, Numbers
<1>8. CASE Commit(r)
  BY <1>n, <1>8 DEF Commit, LastOne, Goto, RequestLeft, Numbers
<1> QED
  BY <1>1, <1>2, <1>3, <1>4, <1>5, <1>6, <1>7, <1>8 DEF Handle, RunStatement

LEMMA OtherRequestsAreCalm ==
    ASSUME TypeInv, NEW r \in Requests,
           Arrive(r) \/ Handle(r) \/ RunStatement(r) \/ EnqueueCompletion(r)
    PROVE  \A q \in Requests \ {r} : Calm(q)
<1> USE DEF TypeInv, TypeOK, RequestTypeOK, Calm
<1>1. CASE Arrive(r)
  BY <1>1 DEF Arrive, Goto
<1>2. ASSUME NEW status, Reply(r, status) PROVE \A q \in Requests \ {r} : Calm(q)
  BY <1>2 DEF Reply
<1>3. CASE Handle(r) \/ EnqueueCompletion(r)
  BY <1>2, <1>3 DEF Handle, Authenticate, Open, Ask, Fail, Succeed, EnqueueCompletion, Goto
<1>4. CASE RunStatement(r)
  BY <1>2, <1>4 DEF RunStatement, Lookup, Begin, SetTenantContext, Statement, Commit, Throw, Goto
<1> QED
  BY <1>1, <1>3, <1>4

LEMMA ServedRunsDown ==
    ASSUME TypeInv, NEW k \in Callers, Serve(k), NEW r \in Requests
    PROVE  RequestLeft(r)' < RequestLeft(r) \/ Calm(r)
<1> USE CallersAssumption
<1>1. UNCHANGED <<call, left>>
  BY DEF Serve
<1>2. CASE k = r
  <2>1. k = queue[1] /\ 1 \in 1..Len(queue)
    <3>1. queue \in Seq(Callers) /\ queue # <<>> /\ k = Head(queue)
      BY DEF Serve, Grant, TypeInv, TypeOK, PoolTypeOK
    <3> QED
      BY <3>1
  <2>2. pc[r] \in {"await lookup", "await client"}
    BY <1>2, <2>1 DEF TypeInv, QueueOK, Waiting
  <2>3. pc'[r] = IF pc[r] = "await lookup" THEN "lookup" ELSE "begin"
    BY <1>2 DEF Serve, TypeInv, TypeOK, RequestTypeOK
  <2>4. CASE pc[r] = "await lookup"
    <3> DEFINE T == TransactionsOf[call[r].route]
    <3>1. pc'[r] = "lookup" /\ T' = T /\ T \in Nat
      BY <1>1, <2>3, <2>4, RequestNumbers DEF Numbers
    <3>2. RequestLeft(r) = 6 * T + 3 /\ RequestLeft(r)' = 6 * T' + 2
      BY <2>4, <3>1 DEF RequestLeft
    <3> QED
      BY <3>1, <3>2
  <2>5. CASE pc[r] = "await client"
    <3>1. pc'[r] = "begin" /\ left'[r] = left[r] /\ left[r] \in Nat
      BY <1>1, <2>3, <2>5, RequestNumbers DEF Numbers
    <3>2. RequestLeft(r) = 6 * left[r] /\ RequestLeft(r)' = 6 * left'[r] - 1
      BY <2>5, <3>1 DEF RequestLeft
    <3> QED
      BY <3>1, <3>2
  <2> QED
    BY <2>2, <2>4, <2>5
<1>3. CASE k # r
  BY <1>1, <1>3 DEF Serve, Calm, TypeInv, TypeOK, RequestTypeOK
<1> QED
  BY <1>2, <1>3

LEMMA NextRequestsRunDown == TypeInv /\ [Next]_vars => RequestsRunDown
<1> SUFFICES ASSUME TypeInv, [Next]_vars, NEW r \in Requests, pc[r] # "unborn"
             PROVE  RequestLeft(r)' < RequestLeft(r) \/ Calm(r)
  BY DEF RequestsRunDown
<1>1. CASE UNCHANGED requestVars
  BY <1>1 DEF requestVars, Calm
<1>2. ASSUME NEW q \in Requests, Arrive(q) \/ Handle(q) \/ RunStatement(q) \/ EnqueueCompletion(q)
      PROVE  RequestLeft(r)' < RequestLeft(r) \/ Calm(r)
  <2>1. Arrive(q) => q # r
    BY DEF Arrive
  <2> QED
    BY <1>2, <2>1, OtherRequestsAreCalm, RequestStepRunsDown
<1>3. ASSUME NEW p \in Probes, Probe(p) \/ SelectOne(p) \/ HandleProbe(p)
      PROVE  UNCHANGED requestVars
  BY <1>3 DEF Probe, SelectOne, HandleProbe, DbTimesOut, ReplyReadiness
<1>4. CASE \/ \E c \in Clients : LoseBackend(c)
           \/ \E q \in Requests : HangUp(q)
           \/ Signal \/ Drained \/ DrainTimesOut \/ DestroyPool \/ CloseRedis \/ Exit
  BY <1>1, <1>4
     DEF LoseBackend, HangUp, Signal, Drained, DrainTimesOut, Close, DestroyPool, CloseRedis, Exit
<1>5. CASE UNCHANGED vars
  BY <1>1, <1>5 DEF vars, requestVars
<1> QED
  BY <1>1, <1>2, <1>3, <1>4, <1>5, ServedRunsDown DEF Next

\* A request ends after six steps for each transaction of its route and five more, whatever
\* dies meanwhile: no step of its own or of the pool is ever taken back or taken twice.
THEOREM ApiRequestsRunDown == Spec => []RequestsLeftAreNatural /\ [][RequestsRunDown]_vars
BY RequestLeftType, NextRequestsRunDown, TypeInvAlways, PTL DEF Spec

-----------------------------------------------------------------------------
(* Nobody who waits is forgotten *)

InQueue(k) == \E i \in 1..Len(queue) : queue[i] = k

\* Who waits stands in the queue; QueueOK has that who stands there waits, and stands once.
Queued == \A k \in Callers : Waiting(k) => InQueue(k)

\* No step makes a caller wait but the one that puts it into the queue.
NoNewWaiter(k) == Waiting(k)' => Waiting(k)

LEMMA AppendKeepsQueued ==
    ASSUME TypeInv, Queued, NEW k \in Callers, queue' = Append(queue, k),
           \A j \in Callers \ {k} : NoNewWaiter(j)
    PROVE  Queued'
<1> SUFFICES ASSUME NEW j \in Callers, Waiting(j)' PROVE InQueue(j)'
  BY DEF Queued
<1>1. queue \in Seq(Callers)
  BY DEF TypeInv, TypeOK, PoolTypeOK
<1>2. Len(queue') = Len(queue) + 1 /\ queue'[Len(queue) + 1] = k /\ Len(queue) + 1 \in 1..Len(queue')
  BY <1>1
<1>3. \A i \in 1..Len(queue) : i \in 1..Len(queue') /\ queue'[i] = queue[i]
  BY <1>1
<1>4. j # k => InQueue(j)
  BY DEF Queued, NoNewWaiter
<1> QED
  BY <1>2, <1>3, <1>4 DEF InQueue

LEMMA TailKeepsQueued ==
    ASSUME TypeInv, Queued, NEW k \in Callers, queue # <<>>, k = Head(queue), queue' = Tail(queue),
           ~Waiting(k)', \A j \in Callers \ {k} : NoNewWaiter(j)
    PROVE  Queued'
<1> SUFFICES ASSUME NEW j \in Callers, Waiting(j)' PROVE InQueue(j)'
  BY DEF Queued
<1>1. queue \in Seq(Callers)
  BY DEF TypeInv, TypeOK, PoolTypeOK
<1>2. PICK i \in 1..Len(queue) : queue[i] = j
  BY DEF Queued, NoNewWaiter, InQueue
<1>3. i # 1
  BY <1>1, <1>2
<1>4. i - 1 \in 1..Len(queue') /\ queue'[i - 1] = j
  BY <1>1, <1>2, <1>3
<1> QED
  BY <1>4 DEF InQueue

LEMMA SameQueueKeepsQueued ==
    ASSUME Queued, queue' = queue, \A j \in Callers : NoNewWaiter(j)
    PROVE  Queued'
BY DEF Queued, NoNewWaiter, InQueue

\* The steps of a request that do not ask for a connection.
LEMMA RequestOwnQueued ==
    ASSUME TypeInv, Queued, NEW r \in Requests, queue' = queue, UNCHANGED job,
           \A q \in Requests \ {r} : pc'[q] = pc[q],
           ~(pc'[r] \in {"await lookup", "await client"})
    PROVE  Queued'
<1>1. ASSUME NEW k \in Callers PROVE NoNewWaiter(k)
  BY Zenon DEF NoNewWaiter, Waiting
<1> QED
  BY <1>1, SameQueueKeepsQueued

LEMMA RequestAsksQueued ==
    ASSUME TypeInv, Queued, NEW r \in Requests, queue' = Append(queue, r), UNCHANGED job,
           \A q \in Requests \ {r} : pc'[q] = pc[q]
    PROVE  Queued'
<1>1. ASSUME NEW k \in Callers \ {r} PROVE NoNewWaiter(k)
  BY Zenon DEF NoNewWaiter, Waiting
<1> QED
  BY <1>1, AppendKeepsQueued, CallersAssumption

LEMMA NextQueued == TypeInv /\ Queued /\ [Next]_vars => Queued'
<1> SUFFICES ASSUME TypeInv, Queued, [Next]_vars PROVE Queued'
  OBVIOUS
<1>1. CASE UNCHANGED <<pc, job, queue>>
  <2>1. \A k \in Callers : NoNewWaiter(k)
    BY <1>1 DEF NoNewWaiter, Waiting
  <2> QED
    BY <1>1, <2>1, SameQueueKeepsQueued
<1>2. ASSUME NEW r \in Requests,
             Arrive(r) \/ Handle(r) \/ RunStatement(r) \/ EnqueueCompletion(r)
      PROVE  Queued'
  <2>1. UNCHANGED job /\ \A q \in Requests \ {r} : pc'[q] = pc[q]
    <3>1. UNCHANGED job
      BY <1>2 DEF Arrive, Handle, Authenticate, Open, Fail, Succeed, EnqueueCompletion,
             RunStatement, Lookup, Begin, SetTenantContext, Statement, Commit, Throw, probeVars
    <3> QED
      BY <1>2, <3>1, OtherRequestsAreCalm DEF Calm
  <2>2. CASE queue' = queue /\ ~(pc'[r] \in {"await lookup", "await client"})
    BY <2>1, <2>2, RequestOwnQueued
  <2>3. CASE queue' = Append(queue, r)
    BY <2>1, <2>3, RequestAsksQueued
  <2>4. ASSUME NEW status, Reply(r, status), UNCHANGED queue PROVE Queued'
    <3>1. pc'[r] = "answered"
      BY <2>4 DEF Reply, TypeInv, TypeOK, RequestTypeOK
    <3> QED
      BY <2>2, <2>4, <3>1
  <2>5. ASSUME NEW there, Goto(r, there), UNCHANGED queue,
               there \in {"authenticate", "open", "context", "statement", "commit", "reply"}
        PROVE  Queued'
    <3>1. pc'[r] = there
      BY <2>5 DEF Goto, TypeInv, TypeOK, RequestTypeOK
    <3> QED
      BY <2>2, <2>5, <3>1
  <2>6. ASSUME NEW there, Ask(r, there) PROVE Queued'
    <3>1. (Reply(r, 500) /\ UNCHANGED queue) \/ queue' = Append(queue, r)
      BY <2>6 DEF Ask, Connect, poolVars
    <3> QED
      BY <2>3, <2>4, <3>1
  <2>7. CASE Arrive(r)
    BY <2>5, <2>7 DEF Arrive, poolVars
  <2>8. CASE Authenticate(r)
    BY <2>4, <2>6, <2>8 DEF Authenticate, poolVars
  <2>9. CASE Open(r)
    BY <2>6, <2>9 DEF Open
  <2>10. CASE Fail(r) \/ Succeed(r) \/ EnqueueCompletion(r) \/ Throw(r)
    BY <2>4, <2>10 DEF Fail, Succeed, EnqueueCompletion, Throw, Release, poolVars
  <2>11. CASE Lookup(r)
    BY <2>4, <2>5, <2>11 DEF Lookup, Release
  <2>12. CASE Begin(r)
    BY <2>5, <2>12 DEF Begin, InSession
  <2>13. CASE SetTenantContext(r)
    BY <2>5, <2>13 DEF SetTenantContext, InSession
  <2>14. CASE Statement(r)
    BY <2>5, <2>14 DEF Statement, poolVars
  <2>15. CASE Commit(r)
    BY <2>5, <2>15 DEF Commit, Release
  <2> QED
    BY <1>2, <2>7, <2>8, <2>9, <2>10, <2>11, <2>12, <2>13, <2>14, <2>15 DEF Handle, RunStatement
<1>3. ASSUME NEW p \in Probes, Probe(p) PROVE Queued'
  <2>1. /\ UNCHANGED pc /\ queue' = Append(queue, p)
        /\ \A q \in Probes \ {p} : job'[q] = job[q]
    BY <1>3 DEF Probe, Connect, requestVars, TypeInv, TypeOK, ProbeTypeOK
  <2>2. ASSUME NEW k \in Callers \ {p} PROVE NoNewWaiter(k)
    BY <2>1, Zenon DEF NoNewWaiter, Waiting
  <2> QED
    BY <2>1, <2>2, AppendKeepsQueued, CallersAssumption
<1>4. ASSUME NEW p \in Probes, SelectOne(p) PROVE Queued'
  <2>1. /\ UNCHANGED pc /\ queue' = queue /\ job'[p] = "done"
        /\ \A q \in Probes \ {p} : job'[q] = job[q]
    BY <1>4 DEF SelectOne, Release, requestVars, TypeInv, TypeOK, ProbeTypeOK
  <2>2. job'[p] # "await client"
    BY <2>1
  <2>3. ASSUME NEW k \in Callers PROVE NoNewWaiter(k)
    BY <2>1, <2>2, Zenon DEF NoNewWaiter, Waiting
  <2> QED
    BY <2>1, <2>3, SameQueueKeepsQueued
<1>5. ASSUME NEW p \in Probes, HandleProbe(p) PROVE Queued'
  BY <1>1, <1>5 DEF HandleProbe, DbTimesOut, ReplyReadiness, requestVars, poolVars
<1>6. ASSUME NEW k \in Callers, Serve(k) PROVE Queued'
  <2>1. queue # <<>> /\ k = Head(queue) /\ queue' = Tail(queue)
    BY <1>6 DEF Serve, Grant
  <2>2. CASE k \in Requests
    <3>1. /\ pc'[k] \in {"lookup", "begin"} /\ UNCHANGED job
          /\ \A q \in Requests \ {k} : pc'[q] = pc[q]
      BY <1>6, <2>2, CallersAssumption DEF Serve, TypeInv, TypeOK, RequestTypeOK
    <3>2. ~(pc'[k] \in {"await lookup", "await client"}) /\ k \notin Probes
      BY <2>2, <3>1, CallersAssumption
    <3>3. ~Waiting(k)'
      BY <3>2, Zenon DEF Waiting
    <3>4. ASSUME NEW j \in Callers \ {k} PROVE NoNewWaiter(j)
      BY <3>1, Zenon DEF NoNewWaiter, Waiting
    <3> QED
      BY <2>1, <3>3, <3>4, TailKeepsQueued
  <2>3. CASE k \in Probes
    <3>1. /\ job'[k] = "select" /\ UNCHANGED pc
          /\ \A q \in Probes \ {k} : job'[q] = job[q]
      BY <1>6, <2>3, CallersAssumption DEF Serve, TypeInv, TypeOK, ProbeTypeOK
    <3>2. job'[k] # "await client" /\ k \notin Requests
      BY <2>3, <3>1, CallersAssumption
    <3>3. ~Waiting(k)'
      BY <3>2, Zenon DEF Waiting
    <3>4. ASSUME NEW j \in Callers \ {k} PROVE NoNewWaiter(j)
      BY <3>1, Zenon DEF NoNewWaiter, Waiting
    <3> QED
      BY <2>1, <3>3, <3>4, TailKeepsQueued
  <2> QED
    BY <2>2, <2>3, CallersAssumption
<1>7. CASE \/ \E c \in Clients : LoseBackend(c)
           \/ \E q \in Requests : HangUp(q)
           \/ Signal \/ Drained \/ DrainTimesOut \/ DestroyPool \/ CloseRedis \/ Exit
  BY <1>1, <1>7 
     DEF LoseBackend, BackendDies, HangUp, Signal, Drained, DrainTimesOut, Close, DestroyPool,
         EndPool, CloseRedis, Exit, requestVars, probeVars, poolVars
<1>8. CASE UNCHANGED vars
  BY <1>1, <1>8 DEF vars
<1> QED
  BY <1>2, <1>3, <1>4, <1>5, <1>6, <1>7, <1>8 DEF Next

\* At a statement of its own, with a connection, and waiting for nobody in this process.
HasItsTurn(k) ==
    /\ holds[k] # NoClient /\ ~InQueue(k)
    /\ k \in Requests => pc[k] \in WithClient
    /\ k \in Probes => job[k] = "select"

QueueMoves ==
    /\ \A k \in Callers : Waiting(k) <=> InQueue(k)
    /\ \A i, j \in 1..Len(queue) : queue[i] = queue[j] => i = j
    /\ queue # <<>> => (\E c \in Clients : CheckedIn(c)) \/ (\E k \in Callers : HasItsTurn(k))

LEMMA QueueMovesHolds ==
    ASSUME Clients # {}, TypeInv, Queued
    PROVE  QueueMoves
<1> USE CallersAssumption
<1>0. queue \in Seq(Callers) /\ QueueOK
  BY DEF TypeInv, TypeOK, PoolTypeOK
<1>1. ASSUME NEW k \in Callers PROVE Waiting(k) <=> InQueue(k)
  BY <1>0 DEF Queued, QueueOK, InQueue
<1>2. \A i, j \in 1..Len(queue) : queue[i] = queue[j] => i = j
  BY <1>0 DEF QueueOK
<1>3. ASSUME \A c \in Clients : ~CheckedIn(c) PROVE \E k \in Callers : HasItsTurn(k)
  <2>1. PICK c \in Clients : TRUE
    OBVIOUS
  <2>2. PICK k \in Callers : holds[k] = c
    BY <1>3, <2>1 DEF CheckedIn
  <2>3. holds[k] # NoClient
    BY <2>2, PoolAssumption
  <2>4. k \in Requests => pc[k] \in WithClient
    BY <2>3 DEF TypeInv, RequestControl
  <2>5. k \in Probes => job[k] = "select"
    BY <2>3 DEF TypeInv, ProbeControl
  <2>6. k \in Probes => job[k] # "await client"
    BY <2>5
  <2>7. k \in Requests => ~(pc[k] \in {"await lookup", "await client"})
    BY <2>4 DEF WithClient
  <2>8. ~Waiting(k)
    BY <2>6, <2>7, Zenon DEF Waiting
  <2> QED
    BY <1>1, <2>3, <2>4, <2>5, <2>8 DEF HasItsTurn
<1> QED
  BY <1>1, <1>2, <1>3 DEF QueueMoves

\* Nobody is forgotten and nobody blocks the pool, however small it is: who waits for a
\* connection stands in the queue once, and while somebody waits there is a connection to
\* hand out, or somebody who holds one and is at a statement of its own.
THEOREM ApiQueueMoves ==
    ASSUME Clients # {}
    PROVE  Spec => []QueueMoves
<1>1. Init => Queued
  <2> SUFFICES ASSUME Init, NEW k \in Callers PROVE ~Waiting(k)
    BY DEF Queued
  <2>1. (k \in Requests => pc[k] = "unborn") /\ (k \in Probes => job[k] = "none")
    BY DEF Init
  <2> QED
    BY <2>1 DEF Waiting
<1>2. TypeInv /\ Queued => QueueMoves
  BY QueueMovesHolds
<1> QED
  BY <1>1, <1>2, NextQueued, TypeInvAlways, PTL DEF Spec
=============================================================================
