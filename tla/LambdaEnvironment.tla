-------------------------- MODULE LambdaEnvironment --------------------------
(***************************************************************************)
(* One Lambda execution environment: what it keeps between requests (the    *)
(* client permissions, the database pool, the mTLS agent), how the prewarm  *)
(* of the module load, the requests, and the parallel checks of the deploy  *)
(* health check fill those caches, and what requests are answered from.     *)
(* An environment serves one request at a time.                             *)
(***************************************************************************)
EXTENDS FeeSchedule, FiniteSets

CONSTANTS
  CacheTtl,      \* CLIENT_PERMISSIONS_CACHE_TTL_MS, in ticks; 0 when deployed so
  MaxLoad,       \* the longest a fetched secret is on its way
  Horizon,       \* bound on the clock
  Content,       \* Content[v]: what version v of the client-permissions secret holds
  Requests,      \* the requests that may arrive
  Configs        \* the functions: [api, app, mtls, token]

ASSUME WindowAssumption == /\ CacheTtl \in Nat
                           /\ MaxLoad \in Nat
                           /\ Horizon \in Nat

ASSUME InputAssumption == Requests # {}

VARIABLES
  clock,
  secret,        \* the client-permissions secret, at Secrets Manager
  since,         \* the instant it was last changed
  config,        \* of the function, fixed
  cache,         \* [held, value, expiresAt], and when it was read (a history)
  knexInstance,  \* the pool is there
  initPromise,   \* the task that creates it, NoTask, or Rejected
  pools,         \* pools created so far (a history)
  agent,         \* httpsAgentCache is there
  pc,            \* where each task stands
  fetched,       \* what each task's fetch read, and when
  request,       \* the request being served
  answer,        \* its status code, 0 while it is served
  used,          \* the permissions last decided from: their lag, were they current
  validated      \* fee keys GET /validate-client has vouched for (a history)

caches == <<cache, knexInstance, initPromise, pools, agent>>
world  == <<clock, secret, since, config>>
client == <<request, answer, used, validated>>
vars   == <<world, caches, pc, fetched, client>>

Checks == {"secrets", "ssm", "rds", "payGov"}
Tasks  == Checks \cup {"prewarmKnex", "prewarmPermissions", "request"}
Loaders == {"prewarmPermissions", "request"}
NoTask == "none"
Rejected == "rejected"

Steps == {"idle", "arrived", "ask", "read", "connect", "join", "agent", "query",
          "probe", "parameter", "ok", "failed"}

Versions == DOMAIN Content
NoVersion == "nothing"
NoCache == [held |-> FALSE, value |-> NoVersion, readAt |-> 0, expiresAt |-> 0]
NoFetch == [value |-> NoVersion, at |-> 0]

(* Everything thrown becomes a status code; NoPool is a 500 for want of the *)
(* database.                                                                *)
NoPool == -500

(* A version is [json, entries]; an entry names a client's role and its fee *)
(* keys, under allowedFeeKeys or under the older allowedFeeIds.             *)
Missing == {"missing"}
FeeKeysOf(entry) == IF entry.keys = Missing THEN entry.ids ELSE entry.keys
WellFormed(v) ==
  /\ Content[v].json
  /\ \A i \in DOMAIN Content[v].entries :
       LET entry == Content[v].entries[i] IN entry.named /\ FeeKeysOf(entry) # Missing

Registered(v, role) == {i \in DOMAIN Content[v].entries : Content[v].entries[i].role = role}
KeysFor(v, role) ==
  FeeKeysOf(Content[v].entries[CHOOSE i \in Registered(v, role) :
                                 \A j \in Registered(v, role) : i <= j])

Lag(at) == clock - at
Fresh == cache.held /\ clock < cache.expiresAt

(* The environment starts: the module load fires both prewarms.  The health *)
(* check's environment has none: its module does not load lambdaHandler.    *)
Loaded == [t \in Tasks |-> CASE config.api /\ t = "prewarmKnex" -> "connect"
                             [] config.api /\ t = "prewarmPermissions" -> "ask"
                             [] OTHER -> "idle"]

Init == /\ clock = 0 /\ since = 0
        /\ secret \in Versions /\ config \in Configs
        /\ cache = NoCache /\ agent = FALSE
        /\ knexInstance = FALSE /\ pools = 0
        /\ pc = Loaded
        /\ initPromise = IF config.api THEN "prewarmKnex" ELSE NoTask
        /\ fetched = [t \in Loaders |-> NoFetch]
        /\ request = (CHOOSE req \in Requests : TRUE) /\ answer = 0
        /\ used = [lag |-> 0, current |-> TRUE] /\ validated = {}

-----------------------------------------------------------------------------
Answered(code) == /\ pc' = [pc EXCEPT !["request"] = "idle"]
                  /\ answer' = code

(* getKnex: the pool, or the promise of whoever is creating it, or create   *)
(* it.  KnexStep is where the caller then stands.                           *)
(* (slip: concurrent callers do not share the attempt)                      *)
KnexStepAlone(next, failure) == IF knexInstance THEN next ELSE "connect"

KnexStep(next, failure) == CASE knexInstance -> next
                             [] ~knexInstance /\ initPromise = NoTask -> "connect"
                             [] ~knexInstance /\ initPromise = Rejected -> failure
                             [] OTHER -> "join"
KnexPromise(t) == IF KnexStep("query", "failed") = "connect" THEN t ELSE initPromise

(* getClientByRoleArn and the callback, on the permissions "value".  Where  *)
(* POST /init goes on to the database, PaymentPortal takes over.            *)
Verdict(value) ==
  IF Registered(value, request.role) = {} THEN {403}
  ELSE LET keys == KeysFor(value, request.role) IN
    IF request.endpoint = "validate" THEN ValidateClient(keys, clock)
    ELSE IF ~MayCharge(keys, request.fee) THEN {403}
    ELSE {FeeForRequest(request.fee, request.hasAmount, clock)}

Decide(value) ==
  /\ used' = [lag |-> clock - since, current |-> value = secret]
  /\ \E code \in Verdict(value) :
       /\ IF code = 0
          THEN /\ pc' = [pc EXCEPT !["request"] = KnexStep("query", "idle")]
               /\ initPromise' = KnexPromise("request")
               /\ answer' = IF KnexStep("query", "idle") = "idle" THEN NoPool ELSE 0
          ELSE Answered(code) /\ UNCHANGED initPromise
       /\ validated' = IF request.endpoint = "validate" /\ code = 200
                       THEN validated \cup KeysFor(value, request.role)
                       ELSE validated

-----------------------------------------------------------------------------
(* A request arrives while the environment is idle.                         *)
Arrive(req) ==
  /\ config.api /\ pc["request"] = "idle"
  /\ pc' = [pc EXCEPT !["request"] = "arrived"]
  /\ request' = req /\ answer' = 0
  /\ used' = [lag |-> 0, current |-> TRUE]
  /\ UNCHANGED <<world, caches, fetched, validated>>

(* lambdaHandler, up to the permissions: the body, then the signing role.   *)
Refused ==
  /\ pc["request"] = "arrived"
  /\ \/ ~request.valid /\ Answered(400)
     \/ request.valid /\ request.role = "none" /\ Answered(403)
  /\ UNCHANGED <<world, caches, fetched, request, used, validated>>

CacheHit ==
  /\ pc["request"] = "arrived" /\ request.valid /\ request.role # "none"
  /\ Fresh
  /\ Decide(cache.value)
  /\ UNCHANGED <<world, cache, knexInstance, pools, agent, fetched, request>>

CacheMiss ==
  /\ pc["request"] = "arrived" /\ request.valid /\ request.role # "none"
  /\ ~Fresh
  /\ pc' = [pc EXCEPT !["request"] = "ask"]
  /\ UNCHANGED <<world, caches, fetched, client>>

(* Secrets Manager reads the secret for a waiting fetch ...                 *)
ReadSecret(t) ==
  /\ pc[t] = "ask"
  /\ pc' = [pc EXCEPT ![t] = "read"]
  /\ fetched' = [fetched EXCEPT ![t] = [value |-> secret, at |-> clock]]
  /\ UNCHANGED <<world, caches, client>>

(* ... and the answer arrives: parsed, cached from now on, and used.        *)
(* (slip: the entry is dated by its expiry)                                 *)
RememberAhead(f) == [held |-> TRUE, value |-> f.value, readAt |-> clock + CacheTtl,
                     expiresAt |-> clock + CacheTtl]

(* (slip: a load finishing second leaves the first one's, and renews it)    *)
RememberFirst(f) ==
  [held |-> TRUE, value |-> IF cache.held THEN cache.value ELSE f.value,
   readAt |-> f.at, expiresAt |-> clock + CacheTtl]

Remember(f) == [held |-> TRUE, value |-> f.value, readAt |-> f.at,
                expiresAt |-> clock + CacheTtl]

LoadReturns(t) ==
  /\ pc[t] = "read" /\ WellFormed(fetched[t].value)
  /\ cache' = Remember(fetched[t])
  /\ IF t = "request"
     THEN Decide(fetched[t].value)
     ELSE /\ pc' = [pc EXCEPT ![t] = "idle"]
          /\ UNCHANGED <<initPromise, answer, used, validated>>
  /\ fetched' = [fetched EXCEPT ![t] = NoFetch]
  /\ UNCHANGED <<world, knexInstance, pools, agent, request>>

(* The fetch fails, or the secret is not what it should be: the request is  *)
(* refused, a prewarm only logs it, and the cache stays as it was.          *)
LoadFails(t) ==
  /\ pc[t] \in {"ask", "read"}
  /\ pc[t] = "read" => ~WellFormed(fetched[t].value)
  /\ IF t = "request" THEN Answered(500)
     ELSE pc' = [pc EXCEPT ![t] = "idle"] /\ UNCHANGED answer
  /\ fetched' = [fetched EXCEPT ![t] = NoFetch]
  /\ UNCHANGED <<world, caches, request, used, validated>>

-----------------------------------------------------------------------------
(* The attempt to connect settles: whoever waits for it goes on.            *)
Waiting(t) == {u \in Tasks : u = t \/ pc[u] = "join"}
AfterConnect(t) == CASE t = "request" -> "query" [] t = "rds" -> "query"
                     [] OTHER -> "idle"
AfterFailure(t) == IF t = "rds" THEN "failed" ELSE "idle"

Connected(t) ==
  /\ pc[t] = "connect"
  /\ knexInstance' = TRUE /\ pools' = pools + 1
  /\ pc' = [u \in Tasks |-> IF u \in Waiting(t) THEN AfterConnect(u) ELSE pc[u]]
  /\ UNCHANGED <<world, cache, initPromise, agent, fetched, client>>

(* (slip: the rejected promise is kept for the next caller)                 *)
ConnectFailsForGood(t) ==
  /\ pc[t] = "connect"
  /\ initPromise' = Rejected
  /\ pc' = [u \in Tasks |-> IF u \in Waiting(t) THEN AfterFailure(u) ELSE pc[u]]
  /\ answer' = IF "request" \in Waiting(t) THEN NoPool ELSE answer
  /\ UNCHANGED <<world, cache, knexInstance, pools, agent, fetched, request, used,
                 validated>>

ConnectFails(t) ==
  /\ pc[t] = "connect"
  /\ initPromise' = NoTask
  /\ pc' = [u \in Tasks |-> IF u \in Waiting(t) THEN AfterFailure(u) ELSE pc[u]]
  /\ answer' = IF "request" \in Waiting(t) THEN NoPool ELSE answer
  /\ UNCHANGED <<world, cache, knexInstance, pools, agent, fetched, request, used,
                 validated>>

(* The payment use cases proper are PaymentPortal's: here they just answer. *)
Serve ==
  /\ pc["request"] = "query"
  /\ \E code \in {200, 400, 409, 410, 500} : Answered(code)
  /\ UNCHANGED <<world, caches, fetched, request, used, validated>>

-----------------------------------------------------------------------------
(* GET /health: four checks at once.  Neither of the two that want the mTLS *)
(* agent waits for the other to build it.                                   *)
(* (slip: a function without the certificates passes everywhere)            *)
MtlsOptionalAlways == config.token

MtlsOptional == config.app = "local" \/ (config.app = "dev" /\ config.token)

HealthCheck ==
  /\ ~config.api /\ \A t \in Checks : pc[t] = "idle"
  /\ pc' = [t \in Tasks |->
       CASE t = "secrets" -> IF config.mtls THEN IF agent THEN "ok" ELSE "agent"
                             ELSE IF MtlsOptional THEN "ok" ELSE "failed"
         [] t = "ssm" -> "parameter"
         [] t = "rds" -> KnexStep("query", "failed")
         [] t = "payGov" -> IF agent \/ ~config.mtls THEN "probe" ELSE "agent"
         [] OTHER -> pc[t]]
  /\ initPromise' = KnexPromise("rds")
  /\ answer' = 0
  /\ UNCHANGED <<world, cache, knexInstance, pools, agent, fetched, request, used,
                 validated>>

AgentBuilt(t) ==
  /\ pc[t] = "agent"
  /\ agent' = TRUE
  /\ pc' = [pc EXCEPT ![t] = IF t = "payGov" THEN "probe" ELSE "ok"]
  /\ UNCHANGED <<world, cache, knexInstance, initPromise, pools, fetched, client>>

(* A certificate, the parameter, the query or Pay.gov: found or not.        *)
CheckEnds(t) ==
  /\ \/ pc[t] = "agent" /\ pc' = [pc EXCEPT ![t] = "failed"]
     \/ /\ pc[t] \in {"parameter", "query", "probe"}
        /\ \E outcome \in {"ok", "failed"} : pc' = [pc EXCEPT ![t] = outcome]
  /\ UNCHANGED <<world, caches, fetched, client>>

Report ==
  /\ \A t \in Checks : pc[t] \in {"ok", "failed"}
  /\ answer' = IF \A t \in Checks : pc[t] = "ok" THEN 200 ELSE 503
  /\ pc' = [t \in Tasks |-> IF t \in Checks THEN "idle" ELSE pc[t]]
  /\ UNCHANGED <<world, caches, fetched, request, used, validated>>

-----------------------------------------------------------------------------
(* Someone edits the secret, time passes, the environment is recycled.      *)
Publish(v) ==
  /\ v # secret
  /\ secret' = v /\ since' = clock
  /\ UNCHANGED <<clock, config, caches, pc, fetched, client>>

Tick ==
  /\ clock < Horizon
  /\ \A t \in Loaders : pc[t] = "read" => Lag(fetched[t].at) < MaxLoad
  /\ clock' = clock + 1
  /\ UNCHANGED <<secret, since, config, caches, pc, fetched, client>>

Next == \/ \E req \in Requests : Arrive(req)
        \/ Refused \/ CacheHit \/ CacheMiss \/ Serve
        \/ \E t \in Loaders : ReadSecret(t) \/ LoadReturns(t) \/ LoadFails(t)
        \/ \E t \in Tasks : Connected(t) \/ ConnectFails(t)
        \/ HealthCheck \/ Report
        \/ \E t \in Checks : AgentBuilt(t) \/ CheckEnds(t)
        \/ \E v \in Versions : Publish(v)
        \/ Tick

Spec == Init /\ [][Next]_vars

-----------------------------------------------------------------------------
TypeOK ==
  /\ clock \in 0..Horizon /\ since \in 0..clock
  /\ secret \in Versions /\ config \in Configs
  /\ cache \in [held : BOOLEAN, value : Versions \cup {NoVersion}, readAt : 0..clock,
                expiresAt : Nat]
  /\ knexInstance \in BOOLEAN /\ agent \in BOOLEAN /\ pools \in Nat
  /\ initPromise \in Tasks \cup {NoTask, Rejected}
  /\ pc \in [Tasks -> Steps]
  /\ fetched \in [Loaders -> [value : Versions \cup {NoVersion}, at : 0..clock]]
  /\ request \in Requests /\ answer \in {0, 200, 400, 403, 409, 410, 500, 503, NoPool}
  /\ used \in [lag : 0..clock, current : BOOLEAN]

(* However the prewarm, a request or a health check race for it, an         *)
(* environment creates one database pool: a second would hold a connection  *)
(* of the proxy that nothing ever releases (db/knex.ts).                    *)
OnePool == pools <= 1

(* A revoked or changed registration takes effect: once the secret has been *)
(* what it is for the time to live and the longest load, no request is      *)
(* decided from an older one, whichever load finished last                  *)
(* (clients/permissionsClient.ts).                                          *)
RevocationTakesEffect == used.lag > CacheTtl + MaxLoad => used.current

(* What GET /validate-client vouched for stays payable: no later POST /init *)
(* of those fees is refused as an unknown fee (useCases/validateClient.ts). *)
ValidatedStaysKnown == \A fee \in validated : ActiveFee(fee, clock) # NotFound

(* A deploy reported healthy can pay: this environment has its pool and,    *)
(* unless it talks to the mock of a development environment, its mTLS agent *)
(* (useCases/runDeployHealthCheck.ts).                                      *)
HealthyCanPay ==
  (~config.api /\ answer = 200) =>
     knexInstance /\ (agent \/ config.app \in {"dev", "local"})

(* A failed connection is never what later callers wait for: as long as     *)
(* there is no pool, the promise they would join is one that some task is   *)
(* still working on (db/knex.ts).                                           *)
PromiseIsLive ==
  (~knexInstance /\ initPromise # NoTask) => \E t \in Tasks : pc[t] = "connect"
=============================================================================
