---------------------------- MODULE AttemptLedger ----------------------------
(***************************************************************************)
(* What the transactions table promises about payment attempts, whatever   *)
(* requests, sweeps, crashes and lost answers produced the writes: one     *)
(* attempt belongs to one obligation for good, its transaction_status      *)
(* moves along a fixed graph, and at most one attempt of an obligation is  *)
(* active.  PaymentPortal is shown to implement this specification.        *)
(***************************************************************************)
EXTENDS Integers

CONSTANTS Obligations,   \* (clientName, transactionReferenceId) pairs
          Attempts       \* rows of the table, named by their agencyTrackingId

VARIABLES owner,    \* owner[a]: the obligation attempt a was created for
          status    \* status[a]: its transactionStatus, "none" before the insert

ledger == <<owner, status>>

(* transaction_status, and the subset idx_transactions_unique_active covers *)
Statuses == {"received", "initiated", "processing", "pending", "processed",
             "failed", "cancelled"}
Active   == {"received", "initiated", "processing", "pending", "processed"}

(* The moves of one attempt.  Only "initiated" and "processing" lead to     *)
(* "processing", and nothing returns to "received" or "initiated": a token  *)
(* is issued once and claimed only while unpaid.  No outcome is final: an   *)
(* unconditional updateToFailed may still replace any of them, and a late   *)
(* refresh moves an attempt Pay.gov accepted among its three outcomes.      *)
Outcomes == {"pending", "processed", "failed"}
Moves ==
  {<<"none", "received">>, <<"received", "initiated">>, <<"received", "failed">>,
   <<"initiated", "processing">>, <<"initiated", "cancelled">>,
   <<"initiated", "failed">>, <<"cancelled", "failed">>}
  \cup ({"processing"} \X Outcomes) \cup (Outcomes \X Outcomes)

OneActive == \A a, b \in Attempts :
  owner[a] = owner[b] /\ status[a] \in Active /\ status[b] \in Active => a = b

LedgerInit == /\ owner \in [Attempts -> Obligations]
              /\ status = [a \in Attempts |-> "none"]

(* One statement may move several attempts (the sweep does).                *)
LedgerStep ==
  /\ status' \in [Attempts -> Statuses \cup {"none"}]
  /\ owner' \in [Attempts -> Obligations]
  /\ \A a \in Attempts :
       /\ status'[a] # status[a] => <<status[a], status'[a]>> \in Moves
       /\ status[a] # "none" => owner'[a] = owner[a]
  /\ OneActive'

LedgerSpec == LedgerInit /\ [][LedgerStep]_ledger
=============================================================================
