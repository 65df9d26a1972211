--------------------------- MODULE SchemaMigrations ---------------------------
(***************************************************************************)
(* The migrations under db/migrations that decide which attempts may        *)
(* coexist, run forwards in batches and rolled back by the last batch while *)
(* the portal keeps writing.  The portal's own writes are the moves of      *)
(* AttemptLedger, let in by whatever unique index the schema has just then. *)
(***************************************************************************)
EXTENDS AttemptLedger

VARIABLES level,    \* how many of the Migrations are applied
          starts,   \* the levels at which the recorded batches began
          index,    \* the statuses the unique index covers
          run,      \* the runner: "idle", "down", or where migration 3 stands
          picked,   \* the rows migration 3 found superseded
          lock      \* knex's migration lock

schema == <<level, starts, index, run, picked, lock>>
vars == <<owner, status, schema>>

(* 1 20260424164039 remove_idx_transactions_client_ref                      *)
(* 2 20260629120000 add_processing_transaction_status                       *)
(* 3 20260805000000 add_processed_to_unique_active_index                    *)
(* 4 20260915000000 cancel_expired_initiated_transactions                   *)
Migrations == 1..4

(* What each leaves covered.  Before the first, a plain constraint lets one *)
(* row per obligation in, whatever its status; its down restores nothing.   *)
InFlight == {"received", "initiated", "processing"}

(* (slip: without its DROP, migration 2's CREATE ... IF NOT EXISTS is idle) *)
IndexKept(n) == IF n <= 2 THEN {"received", "initiated", "pending"} ELSE Active

IndexAfter(n) == CASE n = 1 -> {"received", "initiated", "pending"}
                   [] n = 2 -> InFlight \cup {"pending"}
                   [] OTHER -> Active
Paid == {"pending", "processed"}

Siblings(a) == {b \in Attempts \ {a} : owner[b] = owner[a]}
Unique(st, covered) == \A a \in Attempts : st[a] \in covered =>
                         \A b \in Siblings(a) : st[b] \notin covered
DoublePaid(st) == ~Unique(st, Paid)

(* Migration 3 retires what another attempt superseded (slip: it forgets    *)
(* the claimed attempts) ...                                                *)
SupersededUnclaimed(st) ==
  {a \in Attempts : /\ st[a] \in InFlight \ {"processing"}
                    /\ \E b \in Siblings(a) : st[b] \in Active}

Superseded(st) == {a \in Attempts : /\ st[a] \in InFlight
                                    /\ \E b \in Siblings(a) : st[b] \in Active}
Retire(st, rows) == [a \in Attempts |-> IF a \in rows THEN "failed" ELSE st[a]]

(* ... migration 4 cancels what is older than three hours, and its down     *)
(* takes back every cancellation whose obligation has no active attempt.    *)
Cancel(st, old) == [a \in Attempts |->
                      IF a \in old /\ st[a] = "initiated" THEN "cancelled" ELSE st[a]]
Restore(st) == [a \in Attempts |->
                  IF st[a] = "cancelled" /\ \A b \in Siblings(a) : st[b] \notin Active
                  THEN "initiated" ELSE st[a]]

Init == /\ LedgerInit
        /\ level = 0 /\ starts = {} /\ index = Statuses
        /\ run = "idle" /\ picked = {} /\ lock = FALSE
-----------------------------------------------------------------------------
(* A write of the portal.  It waits for rows migration 3 has rewritten.     *)
Write(a) ==
  /\ ~(run = "rewritten" /\ a \in picked)
  /\ \E s \in Statuses : /\ <<status[a], s>> \in Moves
                         /\ status' = [status EXCEPT ![a] = s]
  /\ Unique(status', index)
  /\ UNCHANGED <<owner, schema>>

(* Slip: migration 3 does not drop the index it is to replace.              *)
AppliedUndropped(hi, st) ==
  /\ \E old \in SUBSET Attempts : status' = IF hi = 4 THEN Cancel(st, old) ELSE st
  /\ level' = hi /\ starts' = starts \cup {level}
  /\ index' = IF hi >= 3 /\ index # {} THEN index ELSE IndexAfter(hi)
  /\ run' = "idle" /\ picked' = {} /\ lock' = FALSE
  /\ UNCHANGED owner

(* knex.migrate.latest() brings the schema to the newest migration of the   *)
(* release, all in one transaction.                                         *)
Applied(hi, st) ==
  /\ \E old \in SUBSET Attempts : status' = IF hi = 4 THEN Cancel(st, old) ELSE st
  /\ level' = hi /\ starts' = starts \cup {level} /\ index' = IndexAfter(hi)
  /\ run' = "idle" /\ picked' = {} /\ lock' = FALSE
  /\ UNCHANGED owner

(* Unless migration 3 comes first, the first statement either locks the     *)
(* table until the commit or is the only one.                               *)
Upgrade ==
  /\ run = "idle" /\ ~lock /\ level # 2
  /\ \E hi \in Migrations :
       LET st == IF level < 3 /\ hi >= 3 THEN Retire(status, Superseded(status))
                 ELSE status
       IN /\ hi > level
          /\ \A n \in {1, 2} : level < n /\ n <= hi => Unique(status, IndexAfter(n))
          /\ level < 3 /\ hi >= 3 => ~DoublePaid(status) /\ Unique(st, Active)
          /\ Applied(hi, st)

(* Migration 3 in a release of its own or as the first of one: a query, an  *)
(* UPDATE that finds its rows in one snapshot and rewrites each whatever it *)
(* has become since, and the index, built with the table locked.            *)
CheckPaid ==
  /\ run = "idle" /\ ~lock /\ level = 2
  /\ ~DoublePaid(status)
  /\ run' = "checked" /\ lock' = TRUE
  /\ UNCHANGED <<owner, status, level, starts, index, picked>>
PickSuperseded ==
  /\ run = "checked"
  /\ run' = "picked" /\ picked' = Superseded(status)
  /\ UNCHANGED <<owner, status, level, starts, index, lock>>
Rewrite ==
  /\ run = "picked"
  /\ run' = "rewritten"
  /\ UNCHANGED <<owner, status, level, starts, index, picked, lock>>
Reindex ==
  /\ run = "rewritten"
  /\ Unique(Retire(status, picked), Active)
  /\ \E hi \in {3, 4} : Applied(hi, Retire(status, picked))

(* knex.migrate.rollback(undefined, false): the migrations of the last      *)
(* batch, newest first, each in a transaction of its own.                   *)
(* (slip: also when there is nothing to revert)                             *)
StartRollbackAnyway ==
  /\ run = "idle" /\ ~lock
  /\ run' = "down" /\ lock' = TRUE
  /\ UNCHANGED <<owner, status, level, starts, index, picked>>

StartRollback ==
  /\ run = "idle" /\ ~lock /\ level > 0
  /\ run' = "down" /\ lock' = TRUE
  /\ UNCHANGED <<owner, status, level, starts, index, picked>>
Down ==
  /\ run = "down"
  /\ status' = IF level = 4 THEN Restore(status) ELSE status
  /\ Unique(status', index)
  /\ index' = IF level = 1 THEN {} ELSE IndexAfter(level - 1)
  /\ level' = level - 1 /\ starts' = starts \ {level - 1}
  /\ IF level - 1 \in starts THEN run' = "idle" /\ lock' = FALSE
                             ELSE UNCHANGED <<run, lock>>
  /\ UNCHANGED <<owner, picked>>

(* A run ends in an error, which frees the lock, or is killed, which leaves *)
(* it held until an operator who has made sure of it unlocks.               *)
Abandon == /\ run # "idle"
           /\ run' = "idle" /\ picked' = {} /\ lock' \in BOOLEAN
           /\ UNCHANGED <<owner, status, level, starts, index>>
Unlock == /\ lock /\ run = "idle"
          /\ lock' = FALSE
          /\ UNCHANGED <<owner, status, level, starts, index, run, picked>>

Next == \/ \E a \in Attempts : Write(a)
        \/ Upgrade \/ CheckPaid \/ PickSuperseded \/ Rewrite \/ Reindex
        \/ StartRollback \/ Down \/ Abandon \/ Unlock

Spec == Init /\ [][Next]_vars
-----------------------------------------------------------------------------
TypeOK ==
  /\ owner \in [Attempts -> Obligations]
  /\ status \in [Attempts -> Statuses \cup {"none"}]
  /\ level \in {0} \cup Migrations /\ starts \in SUBSET (0..3)
  /\ index \in SUBSET Statuses
  /\ run \in {"idle", "checked", "picked", "rewritten", "down"}
  /\ picked \in SUBSET Attempts /\ lock \in BOOLEAN

(* Migration 3 resolves what it finds: once no obligation has two paid      *)
(* attempts, retiring the superseded ones leaves a table the new index      *)
(* accepts.  (doublePaid, candidates, CREATE UNIQUE INDEX of 20260805.)     *)
UpgradeResolves ==
  level = 2 /\ ~DoublePaid(status) => Unique(Retire(status, Superseded(status)), Active)

(* What migration 3 would retire was superseded by a paid attempt: two      *)
(* unpaid attempts never retire each other, which would leave the client    *)
(* with neither.  (The EXISTS of 20260805 over the index of 20260629.)      *)
OnlyPaidSupersedes ==
  level = 2 => \A a \in Superseded(status) :
                 \E b \in Siblings(a) : status[b] = "processed"

(* With migration 3 applied and nothing rolled back, every step, a further  *)
(* upgrade's included, is one the attempt ledger allows: what 20260805 and  *)
(* 20260915 rewrite, the portal could have written.                         *)
LedgerKept == [][level' >= 3 /\ run # "down" => LedgerStep]_vars

(* Migration 4 can be rolled back: its down never restores a row the index  *)
(* refuses.  ("Rows whose obligation gained another active attempt are      *)
(* skipped - they would violate the unique index", 20260915.)               *)
RollbackFits == level = 4 => Unique(Restore(status), index)
=============================================================================
