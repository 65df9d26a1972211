----------------------------- MODULE PortalBooks -----------------------------
(***************************************************************************)
(* When money Pay.gov took may be missing from the books: PaymentPortal    *)
(* with a history variable, the attempts that went astray at one of three  *)
(* moments, each of them one step.                                         *)
(***************************************************************************)
EXTENDS PortalProperties

VARIABLE astray   \* the attempts one of the three moments has met

(* A POST /process is granted the claim of row a.                           *)
Claimed(a) == \E r \in ProcessEnvs :
                pc[r] = "locked" /\ row[r] = a /\ pc'[r] = "complete"

(* Pay.gov takes the money and the request does not hear of it, or it does  *)
(* not get to write down what it heard: a lost or unreadable answer, a lost *)
(* or unacknowledged write, a crash.                                        *)
Unheard(a) ==
  /\ faults # {}
  /\ \E r \in ProcessEnvs :
       /\ row[r] = a
       /\ \/ /\ pc[r] \in {"complete", "retry"} /\ pc'[r] # "persist"
             /\ session[a] \notin Collected /\ session'[a] \in Collected
          \/ /\ pc[r] = "persist" /\ session[a] \in Collected
             /\ pc'[r] = "fail" \/ (pc'[r] = "idle" /\ status'[a] = "processing")

(* The claim is granted between the SELECT of a POST /init, which found a   *)
(* token exactly TokenTTL old or an abandoned claim, and its UPDATE, which  *)
(* fails the row without a second look.                                     *)
Overtaken(a) ==
  /\ Claimed(a)
  /\ \E r \in InitEnvs : pc[r] = "expire" /\ row[r] = a
  /\ IsStaleProcessing(a) \/ (status[a] = "initiated" /\ created[a] = TokenTTL)

(* A request that does not hold the row's claim is to fail it: a POST       *)
(* /process that finds no fee for it, or the POST /init whose token write   *)
(* was not acknowledged, when another has handed the token out and the      *)
(* claim is granted.                                                        *)
Unowned(a) ==
  /\ faults # {} \/ \E r \in InitEnvs : pc[r] = "fail" /\ row[r] = a
  /\ \/ \E r \in ProcessEnvs : pc[r] = "idle" /\ pc'[r] = "fail" /\ row'[r] = a
     \/ /\ Claimed(a) /\ status[a] = "initiated"
        /\ \E r \in InitEnvs : pc[r] = "fail" /\ row[r] = a

BooksInit == Init /\ astray = {}
BooksNext ==
  /\ Next
  /\ astray' = astray \cup {a \in Attempts : Unheard(a) \/ Overtaken(a) \/ Unowned(a)}
BooksSpec == BooksInit /\ [][BooksNext]_<<vars, astray>>

-----------------------------------------------------------------------------
(* Money Pay.gov took is in the books, as pending or processed, as soon as  *)
(* no request is completing the attempt, unless the attempt went astray:    *)
(* whatever the requests, the sweep, the crashes and the failed writes and  *)
(* calls, those three moments are the only ways to lose a payment.          *)
BooksComplete ==
  \A a \in Attempts : session[a] \in Collected /\ Completing(a) = {} =>
    status[a] \in {"pending", "processed"} \/ a \in astray

(* The inductive invariant behind it, on top of the portal's own.           *)

InRow(r, where) == pc[r] = where /\ row[r] \notin astray
Unpaid(a) == session[a] \notin Collected /\ Completing(a) = {}

(* Pay.gov's "failed" is final.                                             *)
FailuresFinal == \A r \in Envs :
  pc[r] \in {"persist", "refresh"} /\ answer[r] = "failed" => session[row[r]] = "failed"

(* Until it has its answer a claimant's row is unpaid, and its own.         *)
ClaimsHold == \A r \in ProcessEnvs : InCompletion(r) /\ row[r] \notin astray =>
  /\ status[row[r]] = "processing"
  /\ pc[r] # "persist" => session[row[r]] \notin Collected

(* What POST /init is about to retire, or any request to fail, is unpaid,   *)
(* and nobody else can claim it.                                            *)
RetiresUnpaid == \A r \in Envs : InRow(r, "expire") =>
  Unpaid(row[r]) /\ (status[row[r]] = "initiated" => created[row[r]] >= TokenTTL)

FailsUnpaid ==
  /\ \A r \in Envs : InRow(r, "fail") =>
       Unpaid(row[r]) /\ (status[row[r]] = "processing" => updated[row[r]] <= life[r])
  /\ \A r \in ProcessEnvs : InRow(r, "fail") =>
       status[row[r]] \notin {"received", "initiated", "cancelled"}
  /\ \A r \in InitEnvs : InRow(r, "fail") =>
       status[row[r]] \notin {"pending", "processed"} /\ ~tracked[row[r]]

TokensRecorded == \A a \in Attempts : status[a] = "initiated" => token[a]

BooksInv == /\ FailuresFinal /\ ClaimsHold /\ RetiresUnpaid /\ FailsUnpaid
            /\ TokensRecorded /\ BooksComplete
=============================================================================
