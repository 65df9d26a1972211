---------------------------- MODULE PaymentPortal ----------------------------
(***************************************************************************)
(* POST /init, POST /process, GET /details and the cancel-expired sweep,   *)
(* running concurrently in Lambda environments over one Postgres table of  *)
(* payment attempts and the external Pay.gov service.  One action is one   *)
(* database statement, one Pay.gov call or one step of the outside world;  *)
(* between two of them any other request may run, the Lambda may die and   *)
(* time may pass.  Time is kept as ages (of a row since created_at and     *)
(* since last_updated_at, of a request since it began), saturated where    *)
(* the code no longer tells them apart.  A request the code refuses without*)
(* a write (4xx) is not an action: it changes nothing.                     *)
(***************************************************************************)
EXTENDS Integers, FiniteSets

CONSTANTS Clients, Refs, Fees,
          Allowed,          \* Allowed[c]: the fee keys of client c
          MaxAttempts,      \* bound on the rows ever inserted
          InitEnvs, ProcessEnvs, DetailsEnvs,  \* concurrent Lambda environments
          TokenTTL,         \* MAX_TOKEN_AGE_MS, scaled
          ProcessingStale,  \* PROCESSING_STALE_MS, scaled
          LambdaTimeout,    \* longest life of an invocation, scaled
          SweepBatch,       \* CANCEL_SWEEP_BATCH_SIZE, scaled
          Faults            \* the failures the world starts out with

Obligations == Clients \X Refs
Attempts    == 1 .. MaxAttempts
Envs        == InitEnvs \cup ProcessEnvs \cup DetailsEnvs
NoRow       == 0

(* "crash": a Lambda dies between two steps; "lost": a write fails;         *)
(* "unacked": a write commits but its caller sees an error; "paygov": a     *)
(* Pay.gov call times out, its effect done or not; "invalid": an answer     *)
(* fails its schema; "fee": a row's fee is missing from the configuration.  *)
FaultKinds == {"crash", "lost", "unacked", "paygov", "invalid", "fee"}

ASSUME TimeAssumption ==
  /\ TokenTTL \in Nat /\ ProcessingStale \in Nat /\ LambdaTimeout \in Nat
  /\ LambdaTimeout < ProcessingStale
ASSUME SizeAssumption ==
  /\ MaxAttempts \in Nat /\ SweepBatch \in Nat \ {0}
  /\ Clients # {} /\ Refs # {} /\ Fees # {}
  /\ Allowed \in [Clients -> SUBSET Fees]
ASSUME EnvAssumption ==
  /\ InitEnvs \cap ProcessEnvs = {}
  /\ InitEnvs \cap DetailsEnvs = {}
  /\ ProcessEnvs \cap DetailsEnvs = {}
ASSUME FaultAssumption == Faults \subseteq FaultKinds

VARIABLES
  owner, fee, status, payment,   \* the row: obligation, fee, the two statuses
  token, tracked,                \* paygovToken and paygovTrackingId are set
  created, updated,              \* ages since created_at and last_updated_at
  session,                       \* Pay.gov's own record of the attempt
  handed,                        \* attempts whose token a client has received
  pc, row, ask, answer, life,    \* per Lambda environment: where its request
                                 \* is, its row, what it asked for, Pay.gov's
                                 \* parsed answer, and its age
  faults                         \* the failures the world still exhibits

keys  == <<owner, fee>>
table == <<owner, fee, status, payment, token, tracked, created, updated>>
world == <<session, handed, faults>>
envs  == <<pc, row, ask, answer, life>>
vars  == <<table, world, envs>>

-----------------------------------------------------------------------------
(* Statuses and their conversions.                                          *)

(* The rows of the table, seen as the abstract ledger of attempts.          *)
Ledger == INSTANCE AttemptLedger
            WITH Obligations <- Obligations, Attempts <- Attempts,
                 owner <- owner, status <- status
Active == Ledger!Active
TerminalStatuses == {"processed", "failed", "cancelled"}

SessionStates == {"none", "open", "submitted", "pending", "settled", "failed"}
Collected == {"pending", "settled"}

(* The transaction_status strings Pay.gov may report for a session.         *)
Reports(s) == CASE s = "pending" -> {"Pending", "Received", "Waiting", "Submitted"}
                [] s = "settled" -> {"Settled", "Success"}
                [] s = "failed"  -> {"Cancelled", "Failed", "Retired"}
                [] OTHER -> {}

(* Slip: "Waiting" has no case of its own.                                  *)
ParseWithoutWaiting(raw) ==
  CASE raw \in {"Pending", "Received", "Submitted"} -> "pending"
    [] raw \in {"Settled", "Success"} -> "processed"
    [] raw \in {"Cancelled", "Failed", "Retired"} -> "failed"
    [] OTHER -> "unparsed"

(* Slip: a payment Pay.gov has merely received counts as made.              *)
ParseReceivedAsPaid(raw) ==
  CASE raw \in {"Pending", "Waiting", "Submitted"} -> "pending"
    [] raw \in {"Settled", "Success", "Received"} -> "processed"
    [] raw \in {"Cancelled", "Failed", "Retired"} -> "failed"

(* parseTransactionStatus.                                                  *)
ParseTransactionStatus(raw) ==
  CASE raw \in {"Pending", "Received", "Waiting", "Submitted"} -> "pending"
    [] raw \in {"Settled", "Success"} -> "processed"
    [] raw \in {"Cancelled", "Failed", "Retired"} -> "failed"

DeriveSingle(s) == CASE s = "processed" -> "success"
                     [] s \in {"failed", "cancelled"} -> "failed"
                     [] OTHER -> "pending"

DerivePaymentStatus(rows) ==
  IF \E a \in rows : status[a] = "processed" THEN "success"
  ELSE IF rows # {} /\ \A a \in rows : status[a] \in {"failed", "cancelled"}
       THEN "failed" ELSE "pending"

-----------------------------------------------------------------------------
(* The table: its unique partial index, its row locks and its predicates.   *)

Rows(ob) == {a \in Attempts : status[a] # "none" /\ owner[a] = ob}

(* Slip: the index as it was before migration 20260805000000.               *)
IndexWithoutProcessed(a, ob, s) ==
  s \in Active \ {"processed"} =>
    \A b \in Rows(ob) : status[b] \in Active \ {"processed"} => b = a

(* idx_transactions_unique_active lets row a of obligation ob take status s. *)
IndexAllows(a, ob, s) ==
  s \in Active => \A b \in Rows(ob) : status[b] \in Active => b = a

LockHeld(a) == \E r \in ProcessEnvs : pc[r] = "locked" /\ row[r] = a

IsStaleProcessing(a)  == status[a] = "processing" /\ updated[a] >= ProcessingStale
IsExpiredInitiated(a) == status[a] = "initiated" /\ created[a] > TokenTTL

(* The last_updated_at trigger: every update stamps the row, except the     *)
(* transition into "cancelled".                                             *)
Stamp(A, s) ==
  updated' = [a \in Attempts |->
    IF a \in A /\ ~(s = "cancelled" /\ status[a] # "cancelled") THEN 0 ELSE updated[a]]

(* A write of row a that leaves it in status s with paymentStatus p; SetRow *)
(* is one that writes no other column.                                      *)
Patch(a, s, p) ==
  /\ status' = [status EXCEPT ![a] = s]
  /\ payment' = [payment EXCEPT ![a] = p]
  /\ Stamp({a}, s)
  /\ UNCHANGED created

SetRow(a, s, p) == Patch(a, s, p) /\ UNCHANGED <<keys, token, tracked>>

(* How a write ends: acknowledged, failed without effect, or committed      *)
(* although its caller sees an error.                                       *)
Write(Effect, Ok, Err) == \/ Effect /\ Ok
                          \/ "lost" \in faults /\ UNCHANGED table /\ Err
                          \/ "unacked" \in faults /\ Effect /\ Err

-----------------------------------------------------------------------------
(* Request control.                                                         *)

NoAsk == CHOOSE x \in Obligations \X Fees : TRUE

Begin(r, where, a, q) ==
  /\ pc[r] = "idle"
  /\ pc' = [pc EXCEPT ![r] = where]
  /\ row' = [row EXCEPT ![r] = a]
  /\ ask' = [ask EXCEPT ![r] = q]
  /\ UNCHANGED <<answer, life>>

Goto(r, where) == /\ pc' = [pc EXCEPT ![r] = where]
                  /\ UNCHANGED <<row, ask, answer, life>>

GotoWith(r, where, a, s) == /\ pc' = [pc EXCEPT ![r] = where]
                            /\ row' = [row EXCEPT ![r] = a]
                            /\ answer' = [answer EXCEPT ![r] = s]
                            /\ UNCHANGED <<ask, life>>

Finish(r) == /\ pc' = [pc EXCEPT ![r] = "idle"]
             /\ row' = [row EXCEPT ![r] = NoRow]
             /\ ask' = [ask EXCEPT ![r] = NoAsk]
             /\ answer' = [answer EXCEPT ![r] = "none"]
             /\ life' = [life EXCEPT ![r] = 0]

-----------------------------------------------------------------------------
(* POST /init *)

InFlight(ob) ==
  {a \in Rows(ob) : status[a] \in {"initiated", "processing", "pending", "processed"}}

Found(ob, a) == a \in InFlight(ob) /\ \A b \in InFlight(ob) : a <= b

(* resolveInFlightTransaction: a processing row that is not stale is        *)
(* refused; a token younger than the TTL is handed out again; any other     *)
(* unpaid row is retired first.                                             *)
NeverBusy(a) == FALSE   \* slip: a live claim is retired like a stale one
Busy(a)     == status[a] = "processing" /\ ~IsStaleProcessing(a)
Reusable(a) == /\ status[a] = "initiated" /\ token[a]
               /\ created[a] < TokenTTL
RetirableInitiated(a) ==   \* slip: a stale claim is never retired
  status[a] = "initiated" /\ ~Reusable(a)
Retirable(a) == /\ status[a] \in {"initiated", "processing"}
                /\ ~Busy(a) /\ ~Reusable(a)

InitFindsNone(r, ob, f) ==
  /\ f \in Allowed[ob[1]]
  /\ InFlight(ob) = {}
  /\ Begin(r, "insert", NoRow, <<ob, f>>)
  /\ UNCHANGED <<table, world>>

InitReuses(r, ob, f) ==
  /\ pc[r] = "idle" /\ f \in Allowed[ob[1]]
  /\ \E a \in Attempts : /\ Found(ob, a) /\ Reusable(a)
                         /\ handed' = handed \cup {a}
  /\ UNCHANGED <<table, session, faults, envs>>

InitRetires(r, ob, f) ==
  /\ f \in Allowed[ob[1]]
  /\ \E a \in Attempts :
       /\ Found(ob, a) /\ Retirable(a)
       /\ Begin(r, IF IsExpiredInitiated(a) THEN "cancel" ELSE "expire", a, <<ob, f>>)
  /\ UNCHANGED <<table, world>>

(* updateToCancelled, which only touches a row that is still initiated.     *)
CancelFound(r) ==
  /\ pc[r] = "cancel" /\ ~LockHeld(row[r])
  /\ Write(IF status[row[r]] = "initiated"
           THEN SetRow(row[r], "cancelled", "failed") ELSE UNCHANGED table,
           GotoWith(r, "insert", NoRow, "none"), Finish(r))
  /\ UNCHANGED world

(* updateToFailed(5009), which touches the row whatever it is by now.       *)
ExpireFound(r) ==
  /\ pc[r] = "expire" /\ ~LockHeld(row[r])
  /\ Write(SetRow(row[r], "failed", "failed"),
           GotoWith(r, "insert", NoRow, "none"), Finish(r))
  /\ UNCHANGED world

(* Row names are given out in the order of created_at.                      *)
NextFree(a) == status[a] = "none" /\ \A b \in Attempts : b < a => status[b] # "none"

InsertRow(a, ob, f) ==
  /\ owner' = [owner EXCEPT ![a] = ob]
  /\ fee' = [fee EXCEPT ![a] = f]
  /\ Patch(a, "received", "pending")
  /\ UNCHANGED <<token, tracked>>

(* A unique violation ends in 409; so does, here, the bound MaxAttempts.    *)
InsertReceived(r) ==
  /\ pc[r] = "insert"
  /\ \/ \E a \in Attempts :
          /\ NextFree(a) /\ IndexAllows(a, ask[r][1], "received")
          /\ Write(InsertRow(a, ask[r][1], ask[r][2]),
                   GotoWith(r, "start", a, "none"), Finish(r))
     \/ /\ \A a \in Attempts : NextFree(a) => ~IndexAllows(a, ask[r][1], "received")
        /\ UNCHANGED table /\ Finish(r)
  /\ UNCHANGED world

(* Slip: a failed call leaves the row as it is.                             *)
StartSessionUnrecorded(r) ==
  /\ pc[r] = "start"
  /\ \/ session' = [session EXCEPT ![row[r]] = "open"] /\ Goto(r, "record")
     \/ /\ faults \cap {"paygov", "invalid"} # {}
        /\ UNCHANGED session /\ Finish(r)
  /\ UNCHANGED <<table, handed, faults>>

(* startOnlineCollection.  A call that fails, retries included, may still   *)
(* have opened a session nobody holds the token of.                         *)
StartSession(r) ==
  /\ pc[r] = "start"
  /\ \/ session' = [session EXCEPT ![row[r]] = "open"] /\ Goto(r, "record")
     \/ /\ faults \cap {"paygov", "invalid"} # {}
        /\ session' \in {session, [session EXCEPT ![row[r]] = "open"]}
        /\ Goto(r, "fail")
  /\ UNCHANGED <<table, handed, faults>>

(* updateToInitiated: transactionStatus and paygovToken, unconditionally.   *)
RecordToken(r) ==
  /\ pc[r] = "record" /\ ~LockHeld(row[r])
  /\ Write(/\ Patch(row[r], "initiated", payment[row[r]])
           /\ token' = [token EXCEPT ![row[r]] = TRUE]
           /\ UNCHANGED <<keys, tracked>>,
           Finish(r) /\ handed' = handed \cup {row[r]},
           Goto(r, "fail") /\ UNCHANGED handed)
  /\ UNCHANGED <<session, faults>>

(* Slip: only transactionStatus is written.                                 *)
MarkFailedHalf(r) ==
  /\ pc[r] = "fail" /\ ~LockHeld(row[r])
  /\ Write(SetRow(row[r], "failed", payment[row[r]]), Finish(r), Finish(r))
  /\ UNCHANGED world

(* updateToFailed after an error; safeUpdateToFailed swallows its own.      *)
MarkFailed(r) ==
  /\ pc[r] = "fail" /\ ~LockHeld(row[r])
  /\ Write(SetRow(row[r], "failed", "failed"), Finish(r), Finish(r))
  /\ UNCHANGED world

-----------------------------------------------------------------------------
(* POST /process *)

ProcessLoad(r, a) ==
  /\ a \in handed
  /\ \/ Begin(r, "claim", a, NoAsk)
     \/ "fee" \in faults /\ Begin(r, "fail", a, NoAsk)
  /\ UNCHANGED <<table, world>>

(* claimForProcessing locks the row NOWAIT; contention is refused (409).    *)
ClaimLock(r) ==
  /\ pc[r] = "claim"
  /\ IF LockHeld(row[r]) THEN Finish(r) ELSE Goto(r, "locked")
  /\ UNCHANGED <<table, world>>

PaidSiblings(a) ==
  {b \in Rows(owner[a]) \ {a} : token[b] /\ status[b] \in {"pending", "processed"}}

(* Slips: a claim is never too fresh to take over; the status is not looked *)
(* at once no sibling is paid.                                              *)
ClaimableAnyAge(a) == /\ PaidSiblings(a) = {}
                      /\ status[a] \in {"initiated", "processing"}
                      /\ created[a] <= TokenTTL

ClaimableAnyStatus(a) == PaidSiblings(a) = {} /\ created[a] <= TokenTTL

Claimable(a) == /\ PaidSiblings(a) = {}
                /\ status[a] = "initiated" \/ IsStaleProcessing(a)
                /\ created[a] <= TokenTTL

ClaimDecide(r) ==
  /\ pc[r] = "locked"
  /\ IF Claimable(row[r])
     THEN Write(SetRow(row[r], "processing", payment[row[r]]),
                Goto(r, "complete"), Finish(r))
     ELSE UNCHANGED table /\ Finish(r)
  /\ UNCHANGED world

(* What completeOnlineCollectionWithDetails does to the session: it acts on *)
(* one the customer has submitted, and only once.                           *)
Acts(a) == IF session[a] = "submitted"
           THEN {[session EXCEPT ![a] = s] : s \in {"pending", "settled", "failed"}}
           ELSE {session}

(* One of the PAYGOV_MAX_ATTEMPTS = 2 calls.  Pay.gov answers with the      *)
(* transaction, or with a fault when it did not act (not submitted, expired,*)
(* or "acted upon already"), or the answer is lost or unreadable.           *)
Complete(r) ==
  /\ pc[r] \in {"complete", "retry"}
  /\ \/ /\ session' \in Acts(row[r])
        /\ \E raw \in Reports(session'[row[r]]) :
             GotoWith(r, "persist", row[r], ParseTransactionStatus(raw))
     \/ /\ session[row[r]] # "submitted" \/ created[row[r]] > TokenTTL
        /\ UNCHANGED session /\ Goto(r, "fail")
     \/ /\ "paygov" \in faults
        /\ session' \in Acts(row[r]) \cup {session}
        /\ Goto(r, "fail") \/ (pc[r] = "complete" /\ Goto(r, "retry"))
     \/ /\ "invalid" \in faults
        /\ session' \in Acts(row[r]) /\ Goto(r, "fail")
  /\ UNCHANGED <<table, handed, faults>>

(* updateAfterPayGovResponse with expectedTransactionStatus "processing".   *)
Persist(r) ==
  /\ pc[r] = "persist" /\ ~LockHeld(row[r])
  /\ Write(IF status[row[r]] = "processing"
           THEN /\ Patch(row[r], answer[r], DeriveSingle(answer[r]))
                /\ tracked' = [tracked EXCEPT ![row[r]] = TRUE]
                /\ UNCHANGED <<keys, token>>
           ELSE UNCHANGED table,
           Finish(r), Goto(r, "fail"))
  /\ UNCHANGED world

-----------------------------------------------------------------------------
(* GET /details/{transactionReferenceId}: reads by reference alone, whatever*)
(* the client; only an obligation still pending is refreshed, and only its  *)
(* attempts with a tracking id that are not terminal.  TrackedRows shows    *)
(* that such an attempt is the one pending row, so one row is refreshed.    *)
RefRows(ref) == {a \in Attempts : status[a] # "none" /\ owner[a][2] = ref}

DetailsRead(r, ref) ==
  /\ DerivePaymentStatus(RefRows(ref)) = "pending"
  /\ Cardinality({a \in RefRows(ref) : status[a] = "pending"}) <= 1
  /\ \E a \in RefRows(ref) :
       /\ tracked[a] /\ status[a] \notin TerminalStatuses
       /\ Begin(r, "query", a, NoAsk)
  /\ UNCHANGED <<table, world>>

DetailsQuery(r) ==
  /\ pc[r] = "query"
  /\ \/ \E raw \in Reports(session[row[r]]) :
          GotoWith(r, "refresh", row[r], ParseTransactionStatus(raw))
     \/ faults \cap {"paygov", "invalid"} # {} /\ Finish(r)
  /\ UNCHANGED <<table, world>>

(* updateAfterPayGovResponse with no expected status: patchAndFetchById.    *)
DetailsRefresh(r) ==
  /\ pc[r] = "refresh" /\ ~LockHeld(row[r])
  /\ IF IndexAllows(row[r], owner[row[r]], answer[r])
     THEN Write(/\ Patch(row[r], answer[r], DeriveSingle(answer[r]))
                /\ tracked' = [tracked EXCEPT ![row[r]] = TRUE]
                /\ UNCHANGED <<keys, token>>,
                Finish(r), Finish(r))
     ELSE UNCHANGED table /\ Finish(r)
  /\ UNCHANGED world

-----------------------------------------------------------------------------
(* The scheduled sweep: one statement, oldest rows first, locked ones       *)
(* skipped.                                                                 *)
SweepableReceived ==   \* slip: looks for attempts that never got a token
  {a \in Attempts : status[a] = "received" /\ created[a] > TokenTTL /\ ~LockHeld(a)}

SweepableProcessing ==   \* slip: sweeps abandoned claims as well
  {a \in Attempts : /\ status[a] \in {"initiated", "processing"}
                    /\ created[a] > TokenTTL /\ ~LockHeld(a)}

Sweepable == {a \in Attempts : IsExpiredInitiated(a) /\ ~LockHeld(a)}

OldestBatch(S, n) ==
  {a \in S : Cardinality({b \in S : b < a}) < n}

Sweep ==
  LET B == OldestBatch(Sweepable, SweepBatch) IN
  /\ B # {}
  /\ status' = [a \in Attempts |-> IF a \in B THEN "cancelled" ELSE status[a]]
  /\ payment' = [a \in Attempts |-> IF a \in B THEN "failed" ELSE payment[a]]
  /\ Stamp(B, "cancelled")
  /\ UNCHANGED <<keys, token, tracked, created, world, envs>>

-----------------------------------------------------------------------------
(* The outside world: the customer, Pay.gov's settlement, time, and death.  *)

CustomerSubmits(a) ==
  /\ a \in handed /\ session[a] = "open"
  /\ session' = [session EXCEPT ![a] = "submitted"]
  /\ UNCHANGED <<table, handed, faults, envs>>

PayGovSettles(a) ==
  /\ session[a] = "pending"
  /\ \E s \in {"settled", "failed"} : session' = [session EXCEPT ![a] = s]
  /\ UNCHANGED <<table, handed, faults, envs>>

Older(n, limit) == IF n < limit THEN n + 1 ELSE n

(* No request outlives the Lambda timeout: time waits until it has finished *)
(* or died.                                                                 *)
Tick ==
  /\ \A r \in Envs : pc[r] # "idle" => life[r] < LambdaTimeout
  /\ created' = [a \in Attempts |-> IF status[a] = "none" THEN 0
                                    ELSE Older(created[a], TokenTTL + 1)]
  /\ updated' = [a \in Attempts |-> IF status[a] = "none" THEN 0
                                    ELSE Older(updated[a], ProcessingStale)]
  /\ life' = [r \in Envs |-> IF pc[r] = "idle" THEN 0 ELSE life[r] + 1]
  /\ UNCHANGED <<keys, status, payment, token, tracked, world, pc, row, ask, answer>>

(* The environment dies; Postgres rolls back and frees the locks it held.   *)
Crash(r) ==
  /\ "crash" \in faults /\ pc[r] # "idle"
  /\ Finish(r)
  /\ UNCHANGED <<table, world>>

(* The failures stop for good.                                              *)
Recover == faults # {} /\ faults' = {} /\ UNCHANGED <<table, session, handed, envs>>

-----------------------------------------------------------------------------
Init ==
  /\ LET noAsk == NoAsk IN
       /\ owner = [a \in Attempts |-> noAsk[1]]
       /\ fee = [a \in Attempts |-> noAsk[2]]
       /\ ask = [r \in Envs |-> noAsk]
  /\ status = [a \in Attempts |-> "none"]
  /\ payment = [a \in Attempts |-> "pending"]
  /\ token = [a \in Attempts |-> FALSE]
  /\ tracked = [a \in Attempts |-> FALSE]
  /\ created = [a \in Attempts |-> 0]
  /\ updated = [a \in Attempts |-> 0]
  /\ session = [a \in Attempts |-> "none"]
  /\ handed = {}
  /\ faults = Faults
  /\ pc = [r \in Envs |-> "idle"]
  /\ row = [r \in Envs |-> NoRow]
  /\ answer = [r \in Envs |-> "none"]
  /\ life = [r \in Envs |-> 0]

InitArrives(r) == \E ob \in Obligations, f \in Fees :
  InitFindsNone(r, ob, f) \/ InitReuses(r, ob, f) \/ InitRetires(r, ob, f)

InitContinues(r) == \/ CancelFound(r) \/ ExpireFound(r) \/ InsertReceived(r)
                    \/ StartSession(r) \/ RecordToken(r) \/ MarkFailed(r)

ProcessContinues(r) == \/ ClaimLock(r) \/ ClaimDecide(r) \/ Complete(r)
                       \/ Persist(r) \/ MarkFailed(r)

DetailsContinues(r) == DetailsQuery(r) \/ DetailsRefresh(r)

Next ==
  \/ \E r \in InitEnvs : InitArrives(r) \/ InitContinues(r)
  \/ \E r \in ProcessEnvs : \/ \E a \in Attempts : ProcessLoad(r, a)
                            \/ ProcessContinues(r)
  \/ \E r \in DetailsEnvs : \/ \E ref \in Refs : DetailsRead(r, ref)
                            \/ DetailsContinues(r)
  \/ \E r \in Envs : Crash(r)
  \/ \E a \in Attempts : CustomerSubmits(a) \/ PayGovSettles(a)
  \/ Sweep
  \/ Tick
  \/ Recover

Spec == Init /\ [][Next]_vars

(* A started request runs on: Postgres grants a queued UPDATE the row lock  *)
(* it waits for, however often POST /process takes it, hence SF.  Time      *)
(* passes, failures stop some day, and EventBridge keeps running the sweep, *)
(* which no lock can avoid for ever (a claim holds one for the length of    *)
(* one short transaction).  Nobody is obliged to send a request, except, in *)
(* RetrySpec, a client that keeps calling POST /init for its obligations.   *)
Fairness ==
  /\ \A r \in InitEnvs : SF_vars(InitContinues(r))
  /\ \A r \in ProcessEnvs : SF_vars(ProcessContinues(r))
  /\ \A r \in DetailsEnvs : SF_vars(DetailsContinues(r))
  /\ WF_vars(Tick) /\ WF_vars(Recover) /\ SF_vars(Sweep)

FairSpec == Spec /\ Fairness

RetrySpec ==
  /\ FairSpec
  /\ \A ob \in Obligations : SF_vars(\E r \in InitEnvs, f \in Fees : InitRetires(r, ob, f))
=============================================================================
