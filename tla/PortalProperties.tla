--------------------------- MODULE PortalProperties ---------------------------
(***************************************************************************)
(* What the portal guarantees, and what it is documented to guarantee but  *)
(* does not, as formulas over PaymentPortal.                               *)
(***************************************************************************)
EXTENDS PaymentPortal

Pcs == {"idle", "insert", "cancel", "expire", "start", "record", "fail",
        "claim", "locked", "complete", "retry", "persist", "query", "refresh"}

TableOK ==
  /\ owner \in [Attempts -> Obligations]
  /\ fee \in [Attempts -> Fees]
  /\ status \in [Attempts -> Ledger!Statuses \cup {"none"}]
  /\ payment \in [Attempts -> {"pending", "success", "failed"}]
  /\ token \in [Attempts -> BOOLEAN]
  /\ tracked \in [Attempts -> BOOLEAN]
  /\ created \in [Attempts -> 0 .. TokenTTL + 1]
  /\ updated \in [Attempts -> 0 .. ProcessingStale]

WorldOK ==
  /\ session \in [Attempts -> SessionStates]
  /\ handed \subseteq Attempts
  /\ faults \subseteq FaultKinds

EnvsOK ==
  /\ pc \in [Envs -> Pcs]
  /\ row \in [Envs -> Attempts \cup {NoRow}]
  /\ ask \in [Envs -> Obligations \X Fees]
  /\ answer \in [Envs -> {"none", "pending", "processed", "failed"}]
  /\ life \in [Envs -> 0 .. LambdaTimeout]
  /\ \A r \in Envs : pc[r] \notin {"idle", "insert"} => row[r] \in Attempts
  /\ \A r \in Envs : pc[r] \in {"persist", "refresh"} => answer[r] # "none"

(* Every variable keeps to its domain, a request past its first steps has a *)
(* row, and one that is to persist an answer has an answer.                 *)
TypeOK == TableOK /\ WorldOK /\ EnvsOK

-----------------------------------------------------------------------------
(* Safety of the code as it is.                                             *)

(* At most one attempt of an obligation is active, whatever inserts,        *)
(* refreshes and retirements race (idx_transactions_unique_active).         *)
UniqueActive == Ledger!OneActive

(* The two statuses of a row never disagree, although updateToInitiated and *)
(* claimForProcessing write only one of them.                               *)
PaymentCoherent ==
  \A a \in Attempts : status[a] # "none" => payment[a] = DeriveSingle(status[a])

(* Requests that may be talking to Pay.gov's complete call, or hold its     *)
(* answer, for row a.                                                       *)
Completing(a) ==
  {r \in ProcessEnvs : pc[r] \in {"complete", "retry", "persist"} /\ row[r] = a}

(* POST /process is serialized per token: the row lock, the status flip and *)
(* the stale threshold together let one live request at a time complete a   *)
(* row, reclaims after a crash included.                                    *)
ExclusiveCompletion ==
  \A a \in Attempts : \A r, s \in Completing(a) : r = s

(* A row recorded as paid was paid: "processed" only after Pay.gov settled  *)
(* it, "pending" only after Pay.gov accepted it, whichever of POST /process *)
(* and GET /details wrote last.                                             *)
PaidMeansCollected ==
  \A a \in Attempts :
    /\ status[a] = "processed" => session[a] = "settled"
    /\ status[a] = "pending" => session[a] \in {"pending", "settled", "failed"}

(* "cancelled" never hides a payment: Pay.gov has not acted on the session, *)
(* and no live request is about to ask it to.                               *)
CancelledNeverCollected ==
  \A a \in Attempts : status[a] = "cancelled" =>
    session[a] \in {"open", "submitted"} /\ Completing(a) = {}

(* Once Pay.gov's tracking id is recorded the attempt stays out of          *)
(* "processing", so a refresh by GET /details never races the claim of the  *)
(* row it refreshes, and there is only the pending row to refresh.          *)
TrackedRows ==
  \A a \in Attempts :
    tracked[a] => status[a] \in {"pending", "processed", "failed"}

(* The inductive invariant behind the four properties above and            *)
(* ImplementsLedger, in named parts.                                        *)

InCompletion(r) == pc[r] \in {"complete", "retry", "persist"}
Inserting(r)    == pc[r] \in {"start", "record"}
OnRow(r)        == pc[r] \notin {"idle", "insert"}

(* A request works on an inserted row.  The row it is still inserting is    *)
(* "received" and nobody else's; any other request but a failing one met    *)
(* its row after the token was recorded, and so did whoever holds a token.  *)
RowsInHand ==
  /\ \A r \in Envs : OnRow(r) => status[row[r]] # "none"
  /\ \A r \in Envs : OnRow(r) /\ ~Inserting(r) /\ pc[r] # "fail" =>
                       status[row[r]] # "received"
  /\ \A r \in Envs : Inserting(r) => status[row[r]] = "received"
  /\ \A r, s \in Envs : Inserting(r) /\ OnRow(s) /\ row[r] = row[s] => r = s
  /\ \A a \in handed : status[a] \notin {"none", "received"}

(* A claimed row is as young as its claimant while still "processing", and  *)
(* is never claimable or cancelled under it.                                *)
ClaimsAreFresh ==
  \A r \in ProcessEnvs : InCompletion(r) =>
    /\ status[row[r]] \notin {"received", "initiated", "cancelled"}
    /\ status[row[r]] = "processing" => updated[row[r]] <= life[r]

LocksExclude ==
  \A r, s \in ProcessEnvs :
    pc[r] = "locked" /\ pc[s] = "locked" /\ row[r] = row[s] => r = s

RoleOf ==
  /\ \A r \in InitEnvs : pc[r] \in
       {"idle", "insert", "cancel", "expire", "start", "record", "fail"}
  /\ \A r \in ProcessEnvs : pc[r] \in
       {"idle", "claim", "locked", "complete", "retry", "persist", "fail"}
  /\ \A r \in DetailsEnvs : pc[r] \in {"idle", "query", "refresh"}

(* Pay.gov acts on a session only while a claim is open, so an attempt that *)
(* was never claimed has an open or submitted session, and an answer in     *)
(* hand never says more than Pay.gov's own record.                          *)
SessionsMatch ==
  /\ \A a \in Attempts : status[a] \in {"initiated", "cancelled"} =>
       session[a] \in {"open", "submitted"}
  /\ \A r \in Envs : pc[r] = "record" => session[row[r]] = "open"
  /\ \A a \in Attempts : status[a] \in {"none", "received"} =>
       session[a] \in {"none", "open"}
  /\ \A r \in Envs : pc[r] \in {"persist", "refresh"} =>
       /\ answer[r] = "processed" => session[row[r]] = "settled"
       /\ answer[r] = "pending" => session[row[r]] \in {"pending", "settled", "failed"}

(* GET /details works on a row Pay.gov's tracking id was recorded for.      *)
RefreshesTracked ==
  \A r \in Envs : pc[r] \in {"query", "refresh"} => tracked[row[r]]

IInv == /\ TypeOK /\ RoleOf /\ RowsInHand /\ TrackedRows /\ LocksExclude
        /\ RefreshesTracked /\ ClaimsAreFresh /\ ExclusiveCompletion /\ SessionsMatch
        /\ PaymentCoherent /\ PaidMeansCollected /\ CancelledNeverCollected
        /\ UniqueActive

(* Every step of the portal is a step of the abstract attempt ledger.       *)
ImplementsLedger == Ledger!LedgerSpec

-----------------------------------------------------------------------------
(* Liveness.                                                                *)

(* An expired initiated attempt does not hold its obligation for ever: the  *)
(* sweep cancels it unless a request gets there first.                      *)
ExpiredLeaves ==
  \A a \in Attempts : IsExpiredInitiated(a) ~> status[a] # "initiated"

(* A claim abandoned by a dead POST /process is released: with a client     *)
(* that keeps calling POST /init, no row stays "processing".                *)
ProcessingLeaves ==
  \A a \in Attempts : status[a] = "processing" ~> status[a] # "processing"

(* A received attempt reaches Pay.gov or is failed, so its obligation can   *)
(* be tried again.                                                          *)
ReceivedLeaves ==
  \A a \in Attempts : status[a] = "received" ~> status[a] # "received"

-----------------------------------------------------------------------------
(* Documented, and refuted by the code.                                     *)

(* "allowing safe retries while preventing duplicate payments": Pay.gov     *)
(* never collects twice for one obligation.                                 *)
NeverCollectedTwice ==
  \A a, b \in Attempts :
    /\ status[a] # "none" /\ status[b] # "none" /\ owner[a] = owner[b]
    /\ session[a] \in Collected /\ session[b] \in Collected
    => a = b

(* "`processed` / `failed` / `cancelled` are terminal for the attempt": no  *)
(* step takes a row out of one of them.                                     *)
TerminalStays ==
  [][\A a \in Attempts : status[a] \in TerminalStatuses => status'[a] = status[a]]_vars
===============================================================================
