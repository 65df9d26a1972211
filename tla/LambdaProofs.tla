----------------------------- MODULE LambdaProofs -----------------------------
(***************************************************************************)
(* Proofs about LambdaEnvironment, for every time to live, load time,       *)
(* secret, request and fee schedule: its type invariant, that it creates    *)
(* one pool and never keeps a failed attempt, and that a changed secret     *)
(* takes effect.                                                            *)
(***************************************************************************)
EXTENDS LambdaEnvironment, FiniteSetTheorems, TLAPS

USE DEF Tasks, Checks, Loaders, NoTask, Rejected, Steps

(* What a decided request is answered is one of the codes of TypeOK.        *)
LEMMA VerdictCodes ==
  ASSUME NEW v PROVE Verdict(v) \subseteq {0, 200, 400, 403, 500}
<1>1. ASSUME NEW keys PROVE ValidateClient(keys, clock) \subseteq {0, 200, 400, 403, 500}
  BY DEF ValidateClient
<1>2. ASSUME NEW fee, NEW paid
      PROVE FeeForRequest(fee, paid, clock) \in {0, 200, 400, 403, 500}
  BY DEF FeeForRequest
<1> QED BY <1>1, <1>2 DEF Verdict

LEMMA KnexSteps ==
  ASSUME NEW next \in Steps, NEW failure \in Steps
  PROVE KnexStep(next, failure) \in Steps
BY DEF KnexStep

(* A decision touches only these variables, and keeps their types.          *)
LEMMA DecideTypes ==
  ASSUME TypeOK, NEW v, Decide(v)
  PROVE /\ pc' \in [Tasks -> Steps]
        /\ initPromise' \in Tasks \cup {NoTask, Rejected}
        /\ answer' \in {0, 200, 400, 403, 409, 410, 500, 503, NoPool}
        /\ used' \in [lag : 0..clock, current : BOOLEAN]
<1>1. clock - since \in 0..clock BY WindowAssumption DEF TypeOK
<1>2. used' \in [lag : 0..clock, current : BOOLEAN] BY <1>1 DEF Decide
<1>3. PICK code \in Verdict(v) :
        IF code = 0
        THEN /\ pc' = [pc EXCEPT !["request"] = KnexStep("query", "idle")]
             /\ initPromise' = KnexPromise("request")
             /\ answer' = IF KnexStep("query", "idle") = "idle" THEN NoPool ELSE 0
        ELSE Answered(code) /\ UNCHANGED initPromise
  BY DEF Decide
<1>4. code \in {0, 200, 400, 403, 500} BY VerdictCodes
<1>5. CASE code = 0
  <2>1. KnexStep("query", "idle") \in Steps BY KnexSteps
  <2>2. KnexPromise("request") \in Tasks \cup {NoTask, Rejected}
    BY DEF KnexPromise, TypeOK
  <2> QED BY <1>2, <1>3, <1>5, <2>1, <2>2 DEF TypeOK
<1>6. CASE code # 0
  BY <1>2, <1>3, <1>4, <1>6 DEF Answered, TypeOK
<1> QED BY <1>5, <1>6

(***************************************************************************)
(* Types.                                                                   *)
(***************************************************************************)
LEMMA TypeInit == Init => TypeOK
<1> SUFFICES ASSUME Init PROVE TypeOK OBVIOUS
<1>1. pc \in [Tasks -> Steps] BY DEF Init, Loaded
<1>2. request \in Requests BY InputAssumption DEF Init
<1>3. cache \in [held : BOOLEAN, value : Versions \cup {NoVersion}, readAt : 0..clock,
                 expiresAt : Nat]
  BY DEF Init, NoCache
<1>4. fetched \in [Loaders -> [value : Versions \cup {NoVersion}, at : 0..clock]]
  BY DEF Init, NoFetch
<1>5. initPromise \in Tasks \cup {NoTask, Rejected} BY DEF Init
<1>6. used \in [lag : 0..clock, current : BOOLEAN] BY DEF Init
<1>7. answer \in {0, 200, 400, 403, 409, 410, 500, 503, NoPool} BY DEF Init
<1>8. clock \in 0..Horizon /\ since \in 0..clock /\ pools \in Nat
  <2>1. clock = 0 /\ since = 0 /\ pools = 0 BY DEF Init
  <2> QED BY <2>1, WindowAssumption
<1>9. /\ secret \in Versions /\ config \in Configs
      /\ knexInstance \in BOOLEAN /\ agent \in BOOLEAN
  BY DEF Init
<1> QED BY <1>1, <1>2, <1>3, <1>4, <1>5, <1>6, <1>7, <1>8, <1>9 DEF TypeOK

LEMMA TypeNext == TypeOK /\ [Next]_vars => TypeOK'
<1> SUFFICES ASSUME TypeOK, [Next]_vars PROVE TypeOK' OBVIOUS
<1> USE WindowAssumption DEF TypeOK
<1>1. ASSUME NEW req \in Requests, Arrive(req) PROVE TypeOK'
  BY <1>1 DEF Arrive, world, caches
<1>2. CASE Refused
  BY <1>2 DEF Refused, Answered, world, caches
<1>3. CASE CacheHit
  BY <1>3, DecideTypes DEF CacheHit, world
<1>4. CASE CacheMiss
  BY <1>4 DEF CacheMiss, world, caches, client
<1>5. CASE Serve
  BY <1>5 DEF Serve, Answered, world, caches
<1>6. ASSUME NEW t \in Loaders, ReadSecret(t) PROVE TypeOK'
  <2>1. fetched' \in [Loaders -> [value : Versions \cup {NoVersion}, at : 0..clock]]
    BY <1>6 DEF ReadSecret
  <2> QED BY <1>6, <2>1 DEF ReadSecret, world, caches, client
<1>7. ASSUME NEW t \in Loaders, LoadReturns(t) PROVE TypeOK'
  <2>1. fetched[t] \in [value : Versions \cup {NoVersion}, at : 0..clock] OBVIOUS
  <2>2. cache' \in [held : BOOLEAN, value : Versions \cup {NoVersion}, readAt : 0..clock,
                    expiresAt : Nat]
    BY <1>7, <2>1 DEF LoadReturns, Remember
  <2>3. fetched' \in [Loaders -> [value : Versions \cup {NoVersion}, at : 0..clock]]
    BY <1>7 DEF LoadReturns, NoFetch
  <2>4. CASE t = "request"
    BY <1>7, <2>2, <2>3, <2>4, DecideTypes DEF LoadReturns, world
  <2>5. CASE t # "request"
    BY <1>7, <2>2, <2>3, <2>5 DEF LoadReturns, world
  <2> QED BY <2>4, <2>5
<1>8. ASSUME NEW t \in Loaders, LoadFails(t) PROVE TypeOK'
  <2>1. fetched' \in [Loaders -> [value : Versions \cup {NoVersion}, at : 0..clock]]
    BY <1>8 DEF LoadFails, NoFetch
  <2> QED BY <1>8, <2>1 DEF LoadFails, Answered, world, caches
<1>9. ASSUME NEW t \in Tasks, Connected(t) PROVE TypeOK'
  <2>1. pc' \in [Tasks -> Steps] BY <1>9 DEF Connected, AfterConnect
  <2> QED BY <1>9, <2>1 DEF Connected, world, client
<1>10. ASSUME NEW t \in Tasks, ConnectFails(t) PROVE TypeOK'
  <2>1. pc' \in [Tasks -> Steps] BY <1>10 DEF ConnectFails, AfterFailure
  <2> QED BY <1>10, <2>1 DEF ConnectFails, world
<1>11. CASE HealthCheck
  <2>1. KnexStep("query", "failed") \in Steps BY KnexSteps
  <2>2. pc' \in [Tasks -> Steps] BY <1>11, <2>1 DEF HealthCheck
  <2> QED BY <1>11, <2>2 DEF HealthCheck, KnexPromise, world
<1>12. CASE Report
  BY <1>12 DEF Report, world, caches
<1>13. ASSUME NEW t \in Checks, AgentBuilt(t) PROVE TypeOK'
  BY <1>13 DEF AgentBuilt, world, client
<1>14. ASSUME NEW t \in Checks, CheckEnds(t) PROVE TypeOK'
  BY <1>14 DEF CheckEnds, world, caches, client
<1>15. ASSUME NEW v \in Versions, Publish(v) PROVE TypeOK'
  BY <1>15 DEF Publish, caches, client
<1>16. CASE Tick
  <2>1. clock' \in 0..Horizon /\ 0..clock \subseteq 0..clock' BY <1>16 DEF Tick
  <2>2. cache' \in [held : BOOLEAN, value : Versions \cup {NoVersion}, readAt : 0..clock',
                    expiresAt : Nat]
    BY <1>16, <2>1 DEF Tick, caches
  <2>3. fetched' \in [Loaders -> [value : Versions \cup {NoVersion}, at : 0..clock']]
    BY <1>16, <2>1 DEF Tick
  <2>4. used' \in [lag : 0..clock', current : BOOLEAN] BY <1>16, <2>1 DEF Tick, client
  <2> QED BY <1>16, <2>1, <2>2, <2>3, <2>4 DEF Tick, caches, client
<1>17. CASE UNCHANGED vars
  BY <1>17 DEF vars, world, caches, client
<1> QED
  BY <1>1, <1>2, <1>3, <1>4, <1>5, <1>6, <1>7, <1>8, <1>9, <1>10, <1>11, <1>12, <1>13,
     <1>14, <1>15, <1>16, <1>17 DEF Next

(* Every variable keeps its type (clients/permissionsClient.ts, db/knex.ts, *)
(* handlers/lambdaHandler.ts): in particular no cached entry and no fetch   *)
(* is dated later than the present.                                         *)
THEOREM EnvironmentTypes == Spec => []TypeOK
BY TypeInit, TypeNext, PTL DEF Spec

(***************************************************************************)
(* One pool.  Whoever connects is the one the promise names, and there is   *)
(* no pool yet; so nobody else connects, and what is joined is in progress. *)
(***************************************************************************)
PoolInv ==
  /\ pools = IF knexInstance THEN 1 ELSE 0
  /\ \A t \in Tasks : pc[t] = "connect" => initPromise = t /\ ~knexInstance
  /\ PromiseIsLive
  /\ initPromise # Rejected

(* A task that only moves between steps other than "connect" leaves it be.  *)
LEMMA PoolUntouched ==
  ASSUME PoolInv, UNCHANGED <<knexInstance, initPromise, pools>>,
         \A t \in Tasks : pc[t] = "connect" <=> pc'[t] = "connect"
  PROVE  PoolInv'
BY DEF PoolInv, PromiseIsLive

(* Asking for the pool makes the caller the one that connects, if nobody is.*)
LEMMA PoolAsked ==
  ASSUME PoolInv, TypeOK, NEW t \in Tasks, NEW next \in Steps \ {"connect"},
         NEW failure \in Steps \ {"connect"},
         UNCHANGED <<knexInstance, pools>>, pc[t] # "connect",
         pc'[t] = KnexStep(next, failure), initPromise' = KnexPromise(t),
         \A u \in Tasks \ {t} : pc[u] = "connect" <=> pc'[u] = "connect"
  PROVE  PoolInv'
<1>1. KnexStep(next, failure) = "connect" <=> ~knexInstance /\ initPromise = NoTask
  BY DEF KnexStep, PoolInv
<1>2. KnexStep("query", "failed") = "connect" <=> ~knexInstance /\ initPromise = NoTask
  BY DEF KnexStep, PoolInv
<1>3. initPromise' = IF ~knexInstance /\ initPromise = NoTask THEN t ELSE initPromise
  BY <1>2 DEF KnexPromise
<1> QED BY <1>1, <1>3 DEF PoolInv, PromiseIsLive

LEMMA PoolInit == Init => PoolInv
BY DEF Init, Loaded, PoolInv, PromiseIsLive

LEMMA PoolNext == TypeOK /\ PoolInv /\ [Next]_vars => PoolInv'
<1> SUFFICES ASSUME TypeOK, PoolInv, [Next]_vars PROVE PoolInv' OBVIOUS
<1>0. pc \in [Tasks -> Steps] BY DEF TypeOK
<1>d. ASSUME NEW v, Decide(v), UNCHANGED <<knexInstance, pools>>,
             pc["request"] # "connect"
      PROVE PoolInv'
  <2>1. PICK code \in Verdict(v) :
          IF code = 0
          THEN /\ pc' = [pc EXCEPT !["request"] = KnexStep("query", "idle")]
               /\ initPromise' = KnexPromise("request")
          ELSE Answered(code) /\ UNCHANGED initPromise
    BY <1>d DEF Decide
  <2>2. CASE code = 0
    BY <1>0, <1>d, <2>1, <2>2, PoolAsked
  <2>3. CASE code # 0
    BY <1>0, <1>d, <2>1, <2>3, PoolUntouched DEF Answered
  <2> QED BY <2>2, <2>3
<1>1. ASSUME NEW req \in Requests, Arrive(req) PROVE PoolInv'
  BY <1>0, <1>1, PoolUntouched DEF Arrive, caches
<1>2. CASE Refused
  BY <1>0, <1>2, PoolUntouched DEF Refused, Answered, caches
<1>3. CASE CacheHit
  BY <1>3, <1>d DEF CacheHit
<1>4. CASE CacheMiss
  BY <1>0, <1>4, PoolUntouched DEF CacheMiss, caches
<1>5. CASE Serve
  BY <1>0, <1>5, PoolUntouched DEF Serve, Answered, caches
<1>6. ASSUME NEW t \in Loaders, ReadSecret(t) PROVE PoolInv'
  BY <1>0, <1>6, PoolUntouched DEF ReadSecret, caches
<1>7. ASSUME NEW t \in Loaders, LoadReturns(t) PROVE PoolInv'
  <2>1. CASE t = "request"
    BY <1>7, <1>d, <2>1 DEF LoadReturns
  <2>2. CASE t # "request"
    BY <1>0, <1>7, <2>2, PoolUntouched DEF LoadReturns
  <2> QED BY <2>1, <2>2
<1>8. ASSUME NEW t \in Loaders, LoadFails(t) PROVE PoolInv'
  BY <1>0, <1>8, PoolUntouched DEF LoadFails, Answered, caches
<1>9. ASSUME NEW t \in Tasks, Connected(t) PROVE PoolInv'
  <2>1. initPromise = t /\ ~knexInstance BY <1>9 DEF Connected, PoolInv
  <2>2. \A u \in Tasks : pc'[u] # "connect"
    BY <1>9, <2>1 DEF Connected, PoolInv, AfterConnect, Waiting
  <2> QED BY <1>9, <2>1, <2>2 DEF Connected, PoolInv, PromiseIsLive
<1>10. ASSUME NEW t \in Tasks, ConnectFails(t) PROVE PoolInv'
  <2>1. initPromise = t /\ ~knexInstance BY <1>10 DEF ConnectFails, PoolInv
  <2>2. \A u \in Tasks : pc'[u] # "connect"
    BY <1>10, <2>1 DEF ConnectFails, PoolInv, AfterFailure, Waiting
  <2> QED BY <1>10, <2>1, <2>2 DEF ConnectFails, PoolInv, PromiseIsLive
<1>11. CASE HealthCheck
  <2>1. pc["rds"] # "connect" /\ pc'["rds"] = KnexStep("query", "failed")
    BY <1>11 DEF HealthCheck
  <2>2. \A u \in Tasks \ {"rds"} : pc[u] = "connect" <=> pc'[u] = "connect"
    BY <1>11 DEF HealthCheck
  <2> QED BY <1>11, <2>1, <2>2, PoolAsked DEF HealthCheck
<1>12. CASE Report
  BY <1>0, <1>12, PoolUntouched DEF Report, caches
<1>13. ASSUME NEW t \in Checks, AgentBuilt(t) PROVE PoolInv'
  BY <1>0, <1>13, PoolUntouched DEF AgentBuilt
<1>14. ASSUME NEW t \in Checks, CheckEnds(t) PROVE PoolInv'
  BY <1>0, <1>14, PoolUntouched DEF CheckEnds, caches
<1>15. ASSUME NEW v \in Versions, Publish(v) PROVE PoolInv'
  BY <1>15, PoolUntouched DEF Publish, caches
<1>16. CASE Tick
  BY <1>16, PoolUntouched DEF Tick, caches
<1>17. CASE UNCHANGED vars
  BY <1>17, PoolUntouched DEF vars, caches
<1> QED
  BY <1>1, <1>2, <1>3, <1>4, <1>5, <1>6, <1>7, <1>8, <1>9, <1>10, <1>11, <1>12, <1>13,
     <1>14, <1>15, <1>16, <1>17 DEF Next

(* An environment never creates a second database pool, whatever the order  *)
(* in which prewarm, requests and health checks ask for it (db/knex.ts).    *)
THEOREM OnePoolEver == Spec => []OnePool
<1>1. PoolInv => OnePool BY DEF PoolInv, OnePool
<1> QED BY <1>1, PoolInit, PoolNext, TypeInit, TypeNext, PTL DEF Spec

(* What a caller joins is an attempt somebody is still working on: a failed *)
(* one is never kept (db/knex.ts).                                          *)
THEOREM PromiseStaysLive == Spec => []PromiseIsLive
<1>1. PoolInv => PromiseIsLive BY DEF PoolInv
<1> QED BY <1>1, PoolInit, PoolNext, TypeInit, TypeNext, PTL DEF Spec

(***************************************************************************)
(* Health.  A check that passed found what requests will need, and neither  *)
(* the pool nor the agent is ever given up.                                 *)
(***************************************************************************)
Equipped == agent \/ config.app \in {"dev", "local"}
HealthInv ==
  /\ ~config.api => pc["request"] = "idle"
  /\ pc["rds"] \in {"idle", "connect", "join", "query", "ok", "failed"}
  /\ pc["rds"] \in {"query", "ok"} => knexInstance
  /\ pc["secrets"] \in {"idle", "agent", "ok", "failed"}
  /\ pc["secrets"] = "ok" => Equipped
  /\ HealthyCanPay

(* Who serves requests leaves the checks alone.                             *)
LEMMA ChecksUntouched ==
  ASSUME HealthInv, knexInstance => knexInstance', UNCHANGED <<config, agent>>,
         UNCHANGED <<pc["rds"], pc["secrets"]>>, ~config.api => UNCHANGED <<answer, pc["request"]>>
  PROVE  HealthInv'
BY DEF HealthInv, Equipped, HealthyCanPay

LEMMA HealthInit == Init => HealthInv
BY DEF Init, Loaded, HealthInv, HealthyCanPay, Checks, Tasks

LEMMA HealthNext == TypeOK /\ HealthInv /\ [Next]_vars => HealthInv'
<1> SUFFICES ASSUME TypeOK, HealthInv, [Next]_vars PROVE HealthInv' OBVIOUS
<1>0. pc \in [Tasks -> Steps] BY DEF TypeOK
<1>d. ASSUME NEW v, Decide(v), UNCHANGED <<config, agent, knexInstance>>, config.api
      PROVE HealthInv'
  BY <1>0, <1>d, ChecksUntouched DEF Decide, Answered, Tasks, Checks
<1>1. ASSUME NEW req \in Requests, Arrive(req) PROVE HealthInv'
  BY <1>0, <1>1, ChecksUntouched DEF Arrive, world, caches, Tasks, Checks
<1>2. CASE Refused \/ CacheMiss \/ Serve
  BY <1>0, <1>2, ChecksUntouched
     DEF HealthInv, Refused, CacheMiss, Serve, Answered, world, caches, Tasks, Checks
<1>3. CASE CacheHit
  BY <1>3, <1>d DEF HealthInv, CacheHit, world
<1>4. ASSUME NEW t \in Loaders, ReadSecret(t) \/ LoadFails(t) PROVE HealthInv'
  BY <1>0, <1>4, ChecksUntouched
     DEF HealthInv, ReadSecret, LoadFails, Answered, world, caches, client, Loaders, Tasks, Checks
<1>5. ASSUME NEW t \in Loaders, LoadReturns(t) PROVE HealthInv'
  <2>1. CASE t = "request"
    BY <1>5, <1>d, <2>1 DEF HealthInv, LoadReturns, world
  <2>2. CASE t # "request"
    BY <1>0, <1>5, <2>2, ChecksUntouched DEF LoadReturns, world, Loaders, Tasks, Checks
  <2> QED BY <2>1, <2>2
<1>6. ASSUME NEW t \in Tasks, Connected(t) PROVE HealthInv'
  BY <1>0, <1>6 DEF HealthInv, HealthyCanPay, Equipped, Connected, Waiting, AfterConnect,
                    world, client, Tasks, Checks
<1>7. ASSUME NEW t \in Tasks, ConnectFails(t) PROVE HealthInv'
  BY <1>0, <1>7 DEF HealthInv, HealthyCanPay, Equipped, ConnectFails, Waiting, AfterFailure,
                    NoPool, world, Tasks, Checks
<1>8. CASE HealthCheck
  BY <1>0, <1>8 DEF HealthInv, HealthyCanPay, Equipped, HealthCheck, KnexStep, MtlsOptional,
                    world, Tasks, Checks
<1>9. CASE Report
  BY <1>0, <1>9 DEF HealthInv, HealthyCanPay, Equipped, Report, world, caches, Tasks, Checks
<1>10. ASSUME NEW t \in Checks, AgentBuilt(t) PROVE HealthInv'
  BY <1>0, <1>10 DEF HealthInv, HealthyCanPay, Equipped, AgentBuilt, world, client, Tasks, Checks
<1>11. ASSUME NEW t \in Checks, CheckEnds(t) PROVE HealthInv'
  BY <1>0, <1>11 DEF HealthInv, HealthyCanPay, Equipped, CheckEnds, world, caches, client,
                     Tasks, Checks
<1>12. ASSUME NEW v \in Versions, Publish(v) PROVE HealthInv'
  BY <1>12, ChecksUntouched DEF Publish, caches, client
<1>13. CASE Tick
  BY <1>13, ChecksUntouched DEF Tick, caches, client
<1>14. CASE UNCHANGED vars
  BY <1>14, ChecksUntouched DEF vars, world, caches, client
<1> QED
  BY <1>1, <1>2, <1>3, <1>4, <1>5, <1>6, <1>7, <1>8, <1>9, <1>10, <1>11, <1>12, <1>13,
     <1>14 DEF Next

(* A deploy reported healthy can pay, whichever of the four checks ended    *)
(* first and whichever of two built the agent (runDeployHealthCheck.ts).    *)
THEOREM HealthyReportsHold == Spec => []HealthyCanPay
<1>1. HealthInv => HealthyCanPay BY DEF HealthInv
<1> QED BY <1>1, HealthInit, HealthNext, TypeInit, TypeNext, PTL DEF Spec

(***************************************************************************)
(* Freshness.  Whatever was read after the last change of the secret is the *)
(* secret; an entry expires by what it was read at, not by who wrote last.  *)
(***************************************************************************)
Read(t) == pc[t] = "read" =>
             /\ fetched[t].at > since => fetched[t].value = secret
             /\ clock - fetched[t].at <= MaxLoad
FreshInv ==
  /\ \A t \in Loaders : Read(t)
  /\ cache.held => /\ cache.readAt > since => cache.value = secret
                   /\ cache.expiresAt <= cache.readAt + MaxLoad + CacheTtl
  /\ RevocationTakesEffect

LEMMA FreshUntouched ==
  ASSUME TypeOK, FreshInv, UNCHANGED <<world, cache, used>>,
         \A t \in Loaders : pc'[t] = "read" => pc[t] = "read" /\ fetched'[t] = fetched[t]
  PROVE  FreshInv'
BY DEF FreshInv, Read, RevocationTakesEffect, world

(* (KnexStep never leads to "read", so a decision starts no load.)          *)
LEMMA FreshDecision ==
  ASSUME TypeOK, FreshInv, NEW v, Decide(v), UNCHANGED world,
         clock - since > CacheTtl + MaxLoad => v = secret,
         cache'.held => /\ cache'.readAt > since => cache'.value = secret
                        /\ cache'.expiresAt <= cache'.readAt + MaxLoad + CacheTtl,
         \A t \in Loaders \ {"request"} : fetched'[t] = fetched[t]
  PROVE  FreshInv'
<1>1. pc'["request"] # "read" /\ \A t \in Loaders \ {"request"} : pc'[t] = pc[t]
  <2>1. KnexStep("query", "idle") # "read" BY DEF KnexStep
  <2> QED BY <2>1 DEF Decide, Answered, TypeOK
<1>2. used' = [lag |-> clock - since, current |-> v = secret] BY DEF Decide
<1>3. RevocationTakesEffect' BY <1>2 DEF RevocationTakesEffect
<1> QED BY <1>1, <1>3 DEF FreshInv, Read, world

LEMMA FreshInit == Init => FreshInv
BY WindowAssumption DEF Init, Loaded, NoCache, FreshInv, Read, RevocationTakesEffect

LEMMA FreshNext == TypeOK /\ FreshInv /\ [Next]_vars => FreshInv'
<1> SUFFICES ASSUME TypeOK, FreshInv, [Next]_vars PROVE FreshInv' OBVIOUS
<1> USE WindowAssumption
<1>0. /\ pc \in [Tasks -> Steps] /\ clock \in Nat /\ since \in Nat
      /\ fetched \in [Loaders -> [value : Versions \cup {NoVersion}, at : 0..clock]]
      /\ cache.readAt \in Nat /\ cache.expiresAt \in Nat
  BY DEF TypeOK
<1>1. ASSUME NEW req \in Requests, Arrive(req) PROVE FreshInv'
  BY <1>0, <1>1 DEF Arrive, world, caches, FreshInv, Read, RevocationTakesEffect
<1>2. CASE Refused
  BY <1>0, <1>2, FreshUntouched DEF Refused, Answered, caches
<1>3. CASE CacheHit
  <2>1. clock - since > CacheTtl + MaxLoad => cache.value = secret
    BY <1>0, <1>3 DEF CacheHit, Fresh, FreshInv
  <2> QED BY <1>3, <2>1, FreshDecision DEF CacheHit, FreshInv, world
<1>4. CASE CacheMiss
  BY <1>0, <1>4, FreshUntouched DEF CacheMiss, caches, client
<1>5. CASE Serve
  BY <1>0, <1>5, FreshUntouched DEF Serve, Answered, caches
<1>6. ASSUME NEW t \in Loaders, ReadSecret(t) PROVE FreshInv'
  BY <1>0, <1>6 DEF ReadSecret, world, caches, client, FreshInv, Read,
     RevocationTakesEffect
<1>7. ASSUME NEW t \in Loaders, LoadReturns(t) PROVE FreshInv'
  <2>1. /\ fetched[t].at \in Nat
        /\ fetched[t].at > since => fetched[t].value = secret
        /\ clock - fetched[t].at <= MaxLoad
    BY <1>0, <1>7 DEF LoadReturns, FreshInv, Read
  <2>2. /\ cache'.readAt = fetched[t].at /\ cache'.value = fetched[t].value
        /\ cache'.expiresAt = clock + CacheTtl
    BY <1>7 DEF LoadReturns, Remember
  <2>3. /\ cache'.readAt > since => cache'.value = secret
        /\ cache'.expiresAt <= cache'.readAt + MaxLoad + CacheTtl
    BY <1>0, <2>1, <2>2
  <2>4. \A u \in Loaders \ {t} : fetched'[u] = fetched[u] BY <1>0, <1>7 DEF LoadReturns
  <2>5. CASE t = "request"
    <3>1. clock - since > CacheTtl + MaxLoad => fetched[t].value = secret
      BY <1>0, <2>1
    <3> QED BY <1>7, <2>3, <2>4, <2>5, <3>1, FreshDecision DEF LoadReturns, world
  <2>6. CASE t # "request"
    BY <1>0, <1>7, <2>3, <2>4, <2>6
    DEF LoadReturns, FreshInv, Read, RevocationTakesEffect, world
  <2> QED BY <2>5, <2>6
<1>8. ASSUME NEW t \in Loaders, LoadFails(t) PROVE FreshInv'
  BY <1>0, <1>8, FreshUntouched DEF LoadFails, Answered, caches
<1>9. ASSUME NEW t \in Tasks, Connected(t) PROVE FreshInv'
  BY <1>0, <1>9, FreshUntouched DEF Connected, AfterConnect, client
<1>10. ASSUME NEW t \in Tasks, ConnectFails(t) PROVE FreshInv'
  BY <1>0, <1>10, FreshUntouched DEF ConnectFails, AfterFailure
<1>11. CASE HealthCheck
  BY <1>0, <1>11, FreshUntouched DEF HealthCheck
<1>12. CASE Report
  BY <1>0, <1>12, FreshUntouched DEF Report, caches
<1>13. ASSUME NEW t \in Checks, AgentBuilt(t) PROVE FreshInv'
  BY <1>0, <1>13, FreshUntouched DEF AgentBuilt, client
<1>14. ASSUME NEW t \in Checks, CheckEnds(t) PROVE FreshInv'
  BY <1>0, <1>14, FreshUntouched DEF CheckEnds, caches, client
<1>15. ASSUME NEW v \in Versions, Publish(v) PROVE FreshInv'
  <2>1. \A t \in Loaders : fetched[t].at <= clock BY <1>0
  <2>2. cache.readAt <= clock BY DEF TypeOK
  <2> QED BY <1>0, <1>15, <2>1, <2>2
      DEF Publish, caches, client, FreshInv, Read, RevocationTakesEffect
<1>16. CASE Tick
  BY <1>0, <1>16 DEF Tick, Lag, caches, client, FreshInv, Read, RevocationTakesEffect
<1>17. CASE UNCHANGED vars
  BY <1>17, FreshUntouched DEF vars, caches, client
<1> QED
  BY <1>1, <1>2, <1>3, <1>4, <1>5, <1>6, <1>7, <1>8, <1>9, <1>10, <1>11, <1>12, <1>13,
     <1>14, <1>15, <1>16, <1>17 DEF Next

(* Whatever loads overlap and whichever ends last, permissions changed or   *)
(* revoked longer ago than the time to live and one load decide no request  *)
(* (clients/permissionsClient.ts).                                          *)
THEOREM ChangesTakeEffect == Spec => []RevocationTakesEffect
<1>1. FreshInv => RevocationTakesEffect BY DEF FreshInv
<1> QED BY <1>1, FreshInit, FreshNext, TypeInit, TypeNext, PTL DEF Spec

(***************************************************************************)
(* Fees.  Time adds versions that have started and takes none away.         *)
(***************************************************************************)
(* A set of natural numbers with a member has a smallest one: the intervals *)
(* 0..n of its members are finite sets, and one of them contains no other.  *)
LEMMA LeastNat ==
  ASSUME NEW T, T \subseteq Nat, T # {}
  PROVE  \E x \in T : \A y \in T : x <= y
<1> DEFINE R == StrictSubsetOrdering(Nat)
           intervals == {0 .. x : x \in T}
<1>1. \A x \in T : IsFiniteSet(0 .. x) /\ 0 .. x \in SUBSET Nat
  BY FS_Interval
<1>2. intervals \subseteq FiniteSubsetsOf(Nat) /\ intervals # {}
  BY <1>1 DEF FiniteSubsetsOf
<1>3. IsWellFoundedOn(R, FiniteSubsetsOf(Nat))
  BY FS_StrictSubsetOrderingWellFounded
<1> HIDE DEF R, intervals
<1>4. \E I \in intervals : \A J \in intervals : ~(<<J, I>> \in R)
  BY <1>2, <1>3, WFMin
<1> USE DEF intervals
<1>5. PICK x \in T : \A y \in T : ~(<<0 .. y, 0 .. x>> \in R)
  BY <1>4
<1>6. ASSUME NEW y \in T, ~(x <= y) PROVE FALSE
  <2>1. x \in Nat /\ y \in Nat /\ y < x
    BY <1>6
  <2>2. 0 .. y \subseteq 0 .. x
    BY <2>1
  <2>3. x \in 0 .. x /\ x \notin 0 .. y
    BY <2>1
  <2>4. <<0 .. y, 0 .. x>> \in R
    BY <1>1, <2>2, <2>3 DEF R, StrictSubsetOrdering
  <2> QED BY <1>5, <2>4
<1> QED BY <1>6

LEMMA VersionStarts ==
  ASSUME NEW versions \in Seq(FeeVersions), NEW i \in DOMAIN versions
  PROVE  versions[i].from \in Int
<1>1. i \in 1 .. Len(versions) BY DEF FeeVersions
<1>2. versions[i] \in FeeVersions BY <1>1
<1> QED BY <1>2 DEF FeeVersions

LEMMA InForceIsVersion ==
  ASSUME NEW versions \in Seq(FeeVersions), NEW date \in Int, Started(versions, date) # {}
  PROVE  InForce(versions, date) \in FeeVersions
<1> DEFINE S == Started(versions, date)
           waited(i) == date - versions[i].from
           ages == {waited(i) : i \in S}
<1>1. \A i \in S : i \in Nat /\ i \in DOMAIN versions /\ versions[i].from \in Int /\ waited(i) \in Nat
  <2>1. \A i \in S : i \in 1 .. Len(versions) /\ versions[i].from <= date
    BY DEF Started
  <2>2. \A i \in S : versions[i].from \in Int
    BY <2>1, VersionStarts
  <2> QED BY <2>1, <2>2
<1>2. PICK least \in ages : \A age \in ages : least <= age
  BY <1>1, LeastNat
<1> DEFINE latest == {i \in S : waited(i) = least}
<1>3. latest # {} /\ latest \subseteq Nat
  BY <1>1, <1>2
<1>4. PICK first \in latest : \A i \in latest : first <= i
  BY <1>3, LeastNat
<1>5. ASSUME NEW j \in S
      PROVE  \/ versions[j].from < versions[first].from
             \/ versions[j].from = versions[first].from /\ first <= j
  <2>1. waited(first) = least /\ least <= waited(j)
    BY <1>2, <1>4
  <2>2. CASE waited(j) = least
    BY <1>1, <1>4, <2>1, <2>2
  <2>3. CASE waited(j) # least
    BY <1>1, <1>4, <2>1, <2>3
  <2> QED BY <2>2, <2>3
<1>6. \E i \in S : \A j \in S : \/ versions[j].from < versions[i].from
                                \/ versions[j].from = versions[i].from /\ i <= j
  BY <1>4, <1>5
<1> DEFINE chosen == CHOOSE i \in S : \A j \in S :
                       \/ versions[j].from < versions[i].from
                       \/ versions[j].from = versions[i].from /\ i <= j
<1>7. InForce(versions, date) = versions[chosen]
  BY DEF InForce
<1>8. chosen \in S
  BY <1>6
<1> HIDE DEF chosen
<1>9. chosen \in 1 .. Len(versions)
  BY <1>8 DEF Started
<1> QED BY <1>7, <1>9

(* A fee that is known stays known.                                         *)
LEMMA KnownForGood ==
  ASSUME NEW fee, NEW date \in Int, NEW later \in Int, date <= later,
         ActiveFee(fee, date) # NotFound
  PROVE  ActiveFee(fee, later) # NotFound
<1> DEFINE versions == StaticFees[fee].versions
           malformed == ~StaticFees[fee].tcsAppId \/ \E i \in DOMAIN versions : versions[i].from = Unset
<1>1. Misconfigured # NotFound
  BY DEF Misconfigured, NotFound
<1>2. fee \in DOMAIN StaticFees
  BY DEF ActiveFee
<1>3. versions \in Seq(FeeVersions)
  BY <1>2, ScheduleAssumption
<1> HIDE DEF versions
<1>4. CASE malformed
  BY <1>1, <1>2, <1>4 DEF ActiveFee, versions
<1>5. CASE ~malformed
  <2>1. Started(versions, date) # {}
    BY <1>2, <1>5 DEF ActiveFee, versions
  <2>2. Started(versions, later) # {}
    <3>1. PICK i \in DOMAIN versions : versions[i].from <= date
      BY <2>1 DEF Started
    <3>2. versions[i].from \in Int
      BY <1>3, <3>1, VersionStarts
    <3> QED BY <3>1, <3>2 DEF Started
  <2>3. InForce(versions, later) # NotFound
    BY <1>3, <2>2, InForceIsVersion DEF FeeVersions, NotFound
  <2> QED BY <1>1, <1>2, <1>5, <2>2, <2>3 DEF ActiveFee, versions
<1> QED BY <1>4, <1>5

LEMMA VouchedAreKnown ==
  ASSUME NEW keys, NEW date, 200 \in ValidateClient(keys, date)
  PROVE  \A fee \in keys : ActiveFee(fee, date) # NotFound
<1>1. \A fee \in keys : Resolves(ActiveFee(fee, date))
  BY DEF ValidateClient
<1>2. ~Resolves(NotFound)
  BY DEF Resolves, NotFound
<1> QED BY <1>1, <1>2

LEMMA KnownUntouched ==
  ASSUME ValidatedStaysKnown, UNCHANGED <<clock, validated>> PROVE ValidatedStaysKnown'
BY DEF ValidatedStaysKnown

LEMMA KnownDecision ==
  ASSUME ValidatedStaysKnown, NEW v, Decide(v), UNCHANGED <<clock, request>>
  PROVE  ValidatedStaysKnown'
<1>1. PICK code \in Verdict(v) :
        validated' = IF request.endpoint = "validate" /\ code = 200
                     THEN validated \cup KeysFor(v, request.role) ELSE validated
  BY DEF Decide
<1>2. CASE request.endpoint = "validate" /\ code = 200
  <2>1. 200 \in ValidateClient(KeysFor(v, request.role), clock)
    BY <1>1, <1>2 DEF Verdict
  <2> QED BY <1>1, <1>2, <2>1, VouchedAreKnown DEF ValidatedStaysKnown
<1>3. CASE ~(request.endpoint = "validate" /\ code = 200)
  BY <1>1, <1>3 DEF ValidatedStaysKnown
<1> QED BY <1>2, <1>3

LEMMA KnownNext == TypeOK /\ ValidatedStaysKnown /\ [Next]_vars => ValidatedStaysKnown'
<1> SUFFICES ASSUME TypeOK, ValidatedStaysKnown, [Next]_vars PROVE ValidatedStaysKnown' OBVIOUS
<1>1. ASSUME NEW req \in Requests, Arrive(req) PROVE ValidatedStaysKnown'
  BY <1>1, KnownUntouched DEF Arrive, world
<1>2. CASE Refused \/ CacheMiss \/ Serve \/ HealthCheck \/ Report
  BY <1>2, KnownUntouched DEF Refused, CacheMiss, Serve, HealthCheck, Report, world, client
<1>3. CASE CacheHit
  BY <1>3, KnownDecision DEF CacheHit, world
<1>4. ASSUME NEW t \in Loaders, ReadSecret(t) \/ LoadFails(t) PROVE ValidatedStaysKnown'
  BY <1>4, KnownUntouched DEF ReadSecret, LoadFails, world, client
<1>5. ASSUME NEW t \in Loaders, LoadReturns(t) PROVE ValidatedStaysKnown'
  BY <1>5, KnownUntouched, KnownDecision DEF LoadReturns, world
<1>6. ASSUME NEW t \in Tasks, Connected(t) \/ ConnectFails(t) PROVE ValidatedStaysKnown'
  BY <1>6, KnownUntouched DEF Connected, ConnectFails, world, client
<1>7. ASSUME NEW t \in Checks, AgentBuilt(t) \/ CheckEnds(t) PROVE ValidatedStaysKnown'
  BY <1>7, KnownUntouched DEF AgentBuilt, CheckEnds, world, client
<1>8. ASSUME NEW v \in Versions, Publish(v) PROVE ValidatedStaysKnown'
  BY <1>8, KnownUntouched DEF Publish, client
<1>9. CASE Tick
  <2>1. clock \in Int /\ clock' = clock + 1 /\ validated' = validated
    BY <1>9 DEF TypeOK, Tick, client
  <2> QED BY <2>1, KnownForGood DEF ValidatedStaysKnown
<1>10. CASE UNCHANGED vars
  BY <1>10, KnownUntouched DEF vars, world, client
<1> QED
  BY <1>1, <1>2, <1>3, <1>4, <1>5, <1>6, <1>7, <1>8, <1>9, <1>10 DEF Next

(* What GET /validate-client has vouched for is never refused as an unknown *)
(* fee afterwards (config/fees.ts: getActiveFee, validateClient.ts).        *)
THEOREM VouchedFeesStay == Spec => []ValidatedStaysKnown
<1>1. Init => ValidatedStaysKnown BY DEF Init, ValidatedStaysKnown
<1> QED BY <1>1, KnownNext, TypeInit, TypeNext, PTL DEF Spec
===============================================================================
