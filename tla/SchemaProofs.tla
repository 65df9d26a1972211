---------------------------- MODULE SchemaProofs ----------------------------
(***************************************************************************)
(* Theorems about SchemaMigrations, for any number of attempts and          *)
(* obligations.  The invariant is what Postgres keeps (the rows fit the     *)
(* index) together with what the migrations keep: the index is the one the  *)
(* applied migrations call for, only migration 3 works in steps, its rows   *)
(* exist, and a batch on record reaches down to the empty schema.           *)
(***************************************************************************)
EXTENDS SchemaMigrations, TLAPS

IndexCurrent == level > 0 => index = IndexAfter(level)

MidMigration == run \in {"checked", "picked", "rewritten"} => level = 2
PickedExist  == \A a \in picked : status[a] # "none"
Recorded     == /\ level > 0 => 0 \in starts
                /\ run = "down" => level > 0

SchemaInv == /\ TypeOK /\ IndexCurrent /\ Unique(status, index)
             /\ MidMigration /\ PickedExist /\ Recorded

(* An index over fewer statuses, or fewer rows in them, is no harder to     *)
(* satisfy.                                                                 *)
LEMMA Narrower ==
  ASSUME NEW st, NEW st2, NEW covered, NEW covered2,
         Unique(st, covered),
         \A a \in Attempts : st2[a] \in covered2 => st[a] \in covered
  PROVE  Unique(st2, covered2)
BY DEF Unique, Siblings

(* Cancelling rows takes them out of the index.                             *)
LEMMA CancelNarrows ==
  ASSUME NEW st \in [Attempts -> Statuses \cup {"none"}], NEW old \in SUBSET Attempts,
         NEW covered \in SUBSET Statuses, "cancelled" \notin covered,
         Unique(st, covered)
  PROVE  Unique(Cancel(st, old), covered)
<1>1. \A a \in Attempts : Cancel(st, old)[a] \in covered => st[a] \in covered
  BY DEF Cancel
<1> QED BY <1>1, Narrower

LEMMA Typed ==
  ASSUME NEW st \in [Attempts -> Statuses \cup {"none"}],
         NEW old \in SUBSET Attempts, NEW rows \in SUBSET Attempts
  PROVE  /\ Cancel(st, old) \in [Attempts -> Statuses \cup {"none"}]
         /\ Retire(st, rows) \in [Attempts -> Statuses \cup {"none"}]
         /\ Restore(st) \in [Attempts -> Statuses \cup {"none"}]
BY DEF Cancel, Retire, Restore, Statuses

LEMMA Indexes ==
  /\ \A n \in Int : IndexAfter(n) \in SUBSET Statuses /\ "cancelled" \notin IndexAfter(n)
  /\ \A n \in Int : n >= 3 => IndexAfter(n) = Active
  /\ IndexAfter(1) \in SUBSET IndexAfter(2) /\ IndexAfter(2) \in SUBSET Active
BY DEF IndexAfter, Statuses, Active, InFlight

(* A committed batch leaves a table that fits the index it leaves.          *)
LEMMA AppliedFits ==
  ASSUME TypeOK, Recorded, NEW hi \in Migrations, level < hi,
         NEW st \in [Attempts -> Statuses \cup {"none"}],
         Unique(st, IndexAfter(hi)), Applied(hi, st)
  PROVE  SchemaInv'
<1>1. PICK old \in SUBSET Attempts :
        status' = IF hi = 4 THEN Cancel(st, old) ELSE st
  BY DEF Applied
<1>2. status' \in [Attempts -> Statuses \cup {"none"}]
  BY <1>1, Typed
<1>3. hi \in Int /\ index' = IndexAfter(hi) /\ owner' = owner /\ level' = hi
  BY DEF Applied, Migrations
<1>4. Unique(status', IndexAfter(hi))
  BY <1>1, <1>3, CancelNarrows, Indexes
<1>5. Unique(status, index)' <=> Unique(status', index')
  BY <1>3 DEF Unique, Siblings
<1>6. TypeOK'
  <2>1. level' \in {0} \cup Migrations /\ starts' \in SUBSET (0..3)
    BY <1>3 DEF Applied, TypeOK, Migrations
  <2>2. run' = "idle" /\ picked' = {} /\ lock' \in BOOLEAN
    BY DEF Applied
  <2>3. index' \in SUBSET Statuses /\ owner' \in [Attempts -> Obligations]
    BY <1>3, Indexes DEF TypeOK
  <2> QED BY <1>2, <2>1, <2>2, <2>3 DEF TypeOK
<1>7. MidMigration' /\ PickedExist' /\ Recorded'
  BY DEF Applied, MidMigration, PickedExist, Recorded, TypeOK, Migrations
<1> QED BY <1>3, <1>4, <1>5, <1>6, <1>7 DEF SchemaInv, IndexCurrent

LEMMA SchemaInit == Init => SchemaInv
<1> SUFFICES ASSUME Init PROVE SchemaInv
  OBVIOUS
<1>1. Unique(status, index)
  BY DEF Init, LedgerInit, Statuses, Unique
<1>2. TypeOK
  BY DEF Init, LedgerInit, TypeOK, Migrations
<1> QED
  BY <1>1, <1>2 DEF Init, SchemaInv, IndexCurrent, MidMigration, PickedExist, Recorded

(* Steps that leave rows and schema alone.                                  *)
LEMMA RowsUntouched ==
  ASSUME SchemaInv, TypeOK', UNCHANGED <<owner, status, level, starts, index>>,
         MidMigration', PickedExist', run' = "down" => level > 0
  PROVE  SchemaInv'
<1>1. Unique(status, index)'
  BY DEF SchemaInv, Unique, Siblings
<1> QED BY <1>1 DEF SchemaInv, IndexCurrent, Recorded

LEMMA SchemaStep == SchemaInv /\ [Next]_vars => SchemaInv'
<1> SUFFICES ASSUME SchemaInv, [Next]_vars PROVE SchemaInv'
  OBVIOUS
<1> USE DEF SchemaInv
<1>1. CASE UNCHANGED vars
  BY <1>1, RowsUntouched DEF vars, schema, TypeOK, MidMigration, PickedExist, Recorded
<1>2. ASSUME NEW a \in Attempts, Write(a) PROVE SchemaInv'
  <2>1. /\ status' \in [Attempts -> Statuses \cup {"none"}] /\ UNCHANGED <<owner, schema>>
        /\ \A b \in Attempts : status[b] # "none" => status'[b] # "none"
    BY <1>2 DEF Write, TypeOK, Statuses
  <2>2. Unique(status', index)
    BY <1>2 DEF Write
  <2>3. Unique(status, index)'
    BY <2>1, <2>2 DEF Unique, Siblings, schema
  <2>4. PickedExist'
    BY <2>1 DEF PickedExist, schema, TypeOK
  <2> QED BY <2>1, <2>3, <2>4 DEF TypeOK, schema, IndexCurrent, MidMigration, Recorded
<1>3. CASE Upgrade
  <2> DEFINE St(hi) == IF level < 3 /\ hi >= 3 THEN Retire(status, Superseded(status))
                       ELSE status
  <2>1. PICK hi \in Migrations :
          /\ hi > level
          /\ \A n \in {1, 2} : level < n /\ n <= hi => Unique(status, IndexAfter(n))
          /\ level < 3 /\ hi >= 3 => Unique(St(hi), Active)
          /\ Applied(hi, St(hi))
    BY <1>3 DEF Upgrade
  <2>2. level \in Int /\ hi \in Int /\ level < hi /\ (hi < 3 => hi \in {1, 2})
    BY <2>1 DEF TypeOK, Migrations
  <2>3. St(hi) \in [Attempts -> Statuses \cup {"none"}]
    BY Typed DEF TypeOK, Superseded
  <2>4. Unique(St(hi), IndexAfter(hi))
    <3>1. CASE hi < 3
      BY <2>1, <2>2, <3>1
    <3>2. CASE hi >= 3 /\ level < 3
      BY <2>1, <2>2, <3>2, Indexes
    <3>3. CASE hi >= 3 /\ level >= 3
      <4>1. index = IndexAfter(hi)
        BY <2>2, <3>3, Indexes DEF IndexCurrent
      <4> QED BY <4>1, <3>3, <2>2
    <3> QED BY <3>1, <3>2, <3>3, <2>2
  <2> HIDE DEF St
  <2> QED BY <2>1, <2>2, <2>3, <2>4, AppliedFits
<1>4. CASE CheckPaid
  BY <1>4, RowsUntouched DEF CheckPaid, TypeOK, MidMigration, PickedExist
<1>5. CASE PickSuperseded
  <2>1. \A a \in Superseded(status) : status[a] # "none"
    BY DEF Superseded, InFlight
  <2>2. TypeOK' /\ PickedExist' /\ MidMigration'
    BY <1>5, <2>1 DEF PickSuperseded, TypeOK, MidMigration, PickedExist, Superseded
  <2> QED BY <1>5, <2>2, RowsUntouched DEF PickSuperseded
<1>6. CASE Rewrite
  BY <1>6, RowsUntouched DEF Rewrite, TypeOK, MidMigration, PickedExist
<1>7. CASE Reindex
  <2>1. PICK hi \in {3, 4} : Applied(hi, Retire(status, picked))
    BY <1>7 DEF Reindex
  <2>2. Unique(Retire(status, picked), IndexAfter(hi))
    BY <1>7, <2>1, Indexes DEF Reindex
  <2>3. Retire(status, picked) \in [Attempts -> Statuses \cup {"none"}]
    BY Typed DEF TypeOK
  <2>4. hi \in Migrations /\ level < hi
    BY <1>7 DEF Migrations, Reindex, MidMigration
  <2> QED BY <2>1, <2>2, <2>3, <2>4, AppliedFits
<1>8. CASE StartRollback
  BY <1>8, RowsUntouched DEF StartRollback, TypeOK, MidMigration, PickedExist
<1>9. CASE Down
  <2>1. status' \in [Attempts -> Statuses \cup {"none"}] /\ owner' = owner
    BY <1>9, Typed DEF Down, TypeOK
  <2>2. level \in 1..4 /\ level' = level - 1
    BY <1>9 DEF Down, TypeOK, Recorded, Migrations
  <2>3. index' \in SUBSET Statuses /\ (level' > 0 => index' = IndexAfter(level'))
    BY <1>9, <2>2, Indexes DEF Down
  <2>4. index' \in SUBSET index
    <3>1. index = IndexAfter(level)
      BY <2>2 DEF IndexCurrent
    <3> QED BY <1>9, <2>2, <3>1, Indexes DEF Down
  <2>5. Unique(status', index')
    <3>1. Unique(status', index)
      BY <1>9 DEF Down
    <3> QED BY <3>1, <2>4, Narrower
  <2>6. Unique(status, index)'
    BY <2>1, <2>5 DEF Unique, Siblings
  <2>7. MidMigration' /\ Recorded'
    BY <1>9, <2>2 DEF Down, MidMigration, Recorded, TypeOK
  <2>8. PickedExist'
    BY <1>9 DEF Down, PickedExist, TypeOK, Restore
  <2>9. TypeOK'
    <3>1. level' \in {0} \cup Migrations /\ starts' \in SUBSET (0..3)
      BY <1>9, <2>2 DEF Down, TypeOK, Migrations
    <3>2. run' \in {"idle", "down"} /\ lock' \in BOOLEAN /\ picked' = picked
      BY <1>9 DEF Down, TypeOK
    <3> QED BY <2>1, <2>3, <3>1, <3>2 DEF TypeOK
  <2> QED BY <2>2, <2>3, <2>6, <2>7, <2>8, <2>9 DEF IndexCurrent
<1>10. CASE Abandon
  BY <1>10, RowsUntouched DEF Abandon, TypeOK, MidMigration, PickedExist
<1>11. CASE Unlock
  BY <1>11, RowsUntouched DEF Unlock, TypeOK, MidMigration, PickedExist
<1> QED
  BY <1>1, <1>2, <1>3, <1>4, <1>5, <1>6, <1>7, <1>8, <1>9, <1>10, <1>11 DEF Next

LEMMA SchemaAlways == Spec => []SchemaInv
BY SchemaInit, SchemaStep, PTL DEF Spec

-----------------------------------------------------------------------------
(* Every variable keeps to its domain, whatever is run, abandoned, unlocked *)
(* or rolled back (the migrations and migrationHandler.ts).                 *)
THEOREM SchemaTyped == Spec => []TypeOK
<1>1. SchemaInv => TypeOK BY DEF SchemaInv
<1> QED BY <1>1, SchemaAlways, PTL

(* Whatever the table holds, once its duplicate payments are reconciled,    *)
(* retiring the superseded attempts is enough for migration 3's index: two  *)
(* siblings left active would both be paid.                                 *)
THEOREM UpgradeAlwaysResolves == Spec => []UpgradeResolves
<1>1. UpgradeResolves
  <2> SUFFICES ASSUME ~DoublePaid(status),
                      NEW a \in Attempts, NEW b \in Siblings(a),
                      Retire(status, Superseded(status))[a] \in Active,
                      Retire(status, Superseded(status))[b] \in Active
               PROVE  FALSE
    BY DEF UpgradeResolves, Unique
  <2>1. b \in Attempts /\ a \in Siblings(b)
    BY DEF Siblings
  <2>2. /\ a \notin Superseded(status) /\ status[a] \in Active
        /\ b \notin Superseded(status) /\ status[b] \in Active
    BY <2>1 DEF Retire, Active
  <2>3. status[a] \in Paid /\ status[b] \in Paid
    BY <2>1, <2>2 DEF Superseded, InFlight, Active, Paid
  <2> QED BY <2>3 DEF DoublePaid, Unique
<1> QED BY <1>1, PTL

(* Migration 2's index keeps two unpaid attempts from retiring each other.  *)
THEOREM PaidSupersede == Spec => []OnlyPaidSupersedes
<1>1. SchemaInv => OnlyPaidSupersedes
  <2> SUFFICES ASSUME SchemaInv, level = 2, NEW a \in Superseded(status)
               PROVE  \E b \in Siblings(a) : status[b] = "processed"
    BY DEF OnlyPaidSupersedes
  <2>1. a \in Attempts /\ status[a] \in InFlight
    BY DEF Superseded
  <2>2. PICK b \in Siblings(a) : status[b] \in Active
    BY DEF Superseded
  <2>3. index = InFlight \cup {"pending"}
    BY DEF SchemaInv, IndexCurrent, IndexAfter
  <2>4. status[b] \notin index
    BY <2>1, <2>3 DEF SchemaInv, Unique
  <2> QED BY <2>2, <2>3, <2>4 DEF Active, InFlight
<1> QED BY <1>1, SchemaAlways, PTL

(* A write that follows the ledger's graph, as LedgerStep asks of it.       *)
LEMMA ToLedger ==
  ASSUME SchemaInv, SchemaInv', level' >= 3, UNCHANGED owner,
         \A a \in Attempts : status'[a] # status[a] => <<status[a], status'[a]>> \in Moves
  PROVE  LedgerStep
<1>1. index' = Active
  BY Indexes DEF SchemaInv, TypeOK, IndexCurrent, Migrations
<1>2. OneActive'
  BY <1>1 DEF SchemaInv, Unique, Siblings, OneActive
<1> QED BY <1>2 DEF LedgerStep, SchemaInv, TypeOK

LEMMA AppliedMoves ==
  ASSUME NEW hi, NEW rows \in SUBSET Attempts, TypeOK,
         \A a \in rows : status[a] # "none",
         NEW st, st = status \/ st = Retire(status, rows), Applied(hi, st)
  PROVE  \A a \in Attempts : status'[a] # status[a] => <<status[a], status'[a]>> \in Moves
<1> SUFFICES ASSUME NEW a \in Attempts, status'[a] # status[a]
             PROVE  <<status[a], status'[a]>> \in Moves
  OBVIOUS
<1>1. PICK old \in SUBSET Attempts :
        status' = IF hi = 4 THEN Cancel(st, old) ELSE st
  BY DEF Applied
<1>2. \/ status'[a] = "failed" /\ status[a] # "none"
      \/ status'[a] = "cancelled" /\ status[a] = "initiated"
  BY <1>1 DEF Cancel, Retire
<1>3. status[a] \in Statuses \cup {"none"}
  BY DEF TypeOK
<1> QED BY <1>2, <1>3 DEF Moves, Outcomes, Statuses

(* From migration 3 on the table is an AttemptLedger, upgrades included,    *)
(* until a batch is rolled back.                                            *)
THEOREM SchemaKeepsLedger == Spec => LedgerKept
<1>1. SchemaInv /\ SchemaInv' /\ [Next]_vars => [level' >= 3 /\ run # "down" => LedgerStep]_vars
  <2> SUFFICES ASSUME SchemaInv, SchemaInv', Next, level' >= 3, run # "down"
               PROVE  LedgerStep
    OBVIOUS
  <2> DEFINE AlongGraph == \A a \in Attempts :
               status'[a] # status[a] => <<status[a], status'[a]>> \in Moves
  <2>1. ASSUME NEW a \in Attempts, Write(a) PROVE AlongGraph /\ UNCHANGED owner
    BY <2>1 DEF Write, SchemaInv, TypeOK
  <2>2. ASSUME Upgrade PROVE AlongGraph /\ UNCHANGED owner
    <3>1. PICK hi \in Migrations :
            Applied(hi, IF level < 3 /\ hi >= 3 THEN Retire(status, Superseded(status))
                        ELSE status)
      BY <2>2 DEF Upgrade
    <3>2. \A a \in Superseded(status) : status[a] # "none"
      BY DEF Superseded, InFlight
    <3> QED BY <3>1, <3>2, AppliedMoves DEF Superseded, SchemaInv, Applied
  <2>3. ASSUME Reindex PROVE AlongGraph /\ UNCHANGED owner
    <3>1. PICK hi \in {3, 4} : Applied(hi, Retire(status, picked))
      BY <2>3 DEF Reindex
    <3> QED BY <3>1, AppliedMoves DEF SchemaInv, PickedExist, TypeOK, Applied
  <2>4. ASSUME CheckPaid \/ PickSuperseded \/ Rewrite \/ StartRollback \/ Abandon \/ Unlock
        PROVE  AlongGraph /\ UNCHANGED owner
    BY <2>4 DEF CheckPaid, PickSuperseded, Rewrite, StartRollback, Abandon, Unlock
  <2>5. ~Down
    BY DEF Down
  <2>6. AlongGraph /\ UNCHANGED owner
    BY <2>1, <2>2, <2>3, <2>4, <2>5 DEF Next
  <2> HIDE DEF AlongGraph
  <2> QED BY <2>6, ToLedger DEF AlongGraph
<1>2. Spec => [][level' >= 3 /\ run # "down" => LedgerStep]_vars
  BY <1>1, SchemaAlways, PTL DEF Spec
<1> QED BY <1>2 DEF LedgerKept
=============================================================================
