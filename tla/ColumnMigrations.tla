--------------------------- MODULE ColumnMigrations ---------------------------
(***************************************************************************)
(* The migrations of db/migrations as SQL statements on columns and rows,   *)
(* run one after the other, up and down, while a release of the portal      *)
(* writes; the unique index that several attempts of one obligation meet;   *)
(* and the scanner that decides which migrations need a human.              *)
(* SchemaMigrations interleaves the statements of one upgrade with live     *)
(* writes; here a migration is one step.                                    *)
(***************************************************************************)
EXTENDS Integers, SequencesExt

CONSTANTS
  NULL,
  Attempts,
  Obligation,  \* Obligation[a]: the client and reference attempt a is for
  Keys,        \* the fees the backfills know, by key
  Version,     \* the id of a later version of the fee FirstKey
  FirstKey,
  KnownAmount, \* KnownAmount[k]: the amount the backfills give fee k
  Tokens,      \* the lengths of token Pay.gov gives: "short", "long"
  Drafts,      \* the migrations a pull request may add
  LastDay      \* bound of the clock

(* What the portal and the backfills write that is not the id of a fee.     *)
Statuses == {"received", "initiated", "processing", "pending", "processed", "failed", "cancelled"}
Values == Statuses \cup
          {"card", "short", "long", "amount",
           "value", "raised", "name", "blank", "zero", "default"}

ASSUME FeeAssumption ==
  /\ FirstKey \in Keys /\ Version \notin Keys
  /\ NULL \notin Values /\ NULL \notin Keys \cup {Version}
  /\ \A k \in Keys : KnownAmount[k] # NULL
  /\ Tokens \subseteq {"short", "long"}

-----------------------------------------------------------------------------
(* Statements.  A table is [has, required]: its columns, and those an       *)
(* INSERT must give a value, NOT NULL without a default.                    *)
Clause(act, c, to, notNull, default) ==
  [act |-> act, col |-> c, to |-> to, notNull |-> notNull, default |-> default]
Add(c)          == Clause("add", c, c, FALSE, FALSE)
AddRequired(c)  == Clause("add", c, c, TRUE, FALSE)
AddDefaulted(c) == Clause("add", c, c, TRUE, TRUE)
Rename(c, to)   == Clause("rename", c, to, FALSE, FALSE)
DropColumn(c)   == Clause("drop", c, c, FALSE, FALSE)
SetNotNull(c)   == Clause("require", c, c, TRUE, FALSE)
DropNotNull(c)  == Clause("relax", c, c, FALSE, FALSE)
SetLength(c, n) == Clause(IF n = 36 THEN "widen" ELSE "narrow", c, c, FALSE, FALSE)

Create(t, has, required) == [op |-> "create", table |-> t, has |-> has, required |-> required]
DropTable(t)      == [op |-> "drop", table |-> t]
Alter(t, clauses) == [op |-> "alter", table |-> t, clauses |-> clauses]
Update(how)       == [op |-> "update", how |-> how]
Trigger(holds)    == [op |-> "trigger", holds |-> holds]
Check             == [op |-> "check"]     \* that no obligation is paid twice
Other             == [op |-> "other"]     \* an index (see IndexUp) or a constraint

Tables == {"transactions", "fees"}
IsStatement(s) ==
  /\ s.op \in {"create", "drop", "alter", "update", "trigger", "check", "other"}
  /\ s.op \in {"create", "drop", "alter"} => s.table \in Tables
  /\ s.op = "create" => s.required \subseteq s.has

ASSUME DraftAssumption ==
  \A d \in Drafts : /\ Len(d) \in Nat /\ DOMAIN d = 1 .. Len(d)
                    /\ \A s \in Range(d) : IsStatement(s)

With(s, acts) == {k \in s.clauses : k.act \in acts}

(* scanSql: DEFAULT and NOT NULL are looked for clause by clause, SET NOT   *)
(* NULL in the whole statement.  (slip: all in the whole statement, so one  *)
(* column's default hides another's missing one)                            *)
ScanSqlWhole(s) ==
  IF s.op = "drop" THEN {"drop-table"}
  ELSE IF s.op # "alter" THEN {}
  ELSE {r \in {"drop-column"} : With(s, {"drop"}) # {}}
       \cup {r \in {"rename"} : With(s, {"rename"}) # {}}
       \cup {r \in {"not-null-without-default"} :
               /\ \E k \in With(s, {"add", "require"}) : k.notNull
               /\ \A k \in s.clauses : ~k.default}

ScanSql(s) ==
  IF s.op = "drop" THEN {"drop-table"}
  ELSE IF s.op # "alter" THEN {}
  ELSE {r \in {"drop-column"} : With(s, {"drop"}) # {}}
       \cup {r \in {"rename"} : With(s, {"rename"}) # {}}
       \cup {r \in {"not-null-without-default"} :
               \E k \in With(s, {"add", "require"}) : k.notNull /\ ~k.default}

ScanStatements(statements) == UNION {ScanSql(s) : s \in Range(statements)}

-----------------------------------------------------------------------------
(* What the database does with a statement.  A database is [tables, row,    *)
(* fees, holds, wide, day, ok]: row maps the attempts inserted to [v,       *)
(* created, updated], v their values by column; fees maps fee ids to [key,  *)
(* amount]; holds is set once the trigger leaves a cancellation its day.    *)
AfterAlter(t, s) ==
  LET gone == {k.col : k \in With(s, {"drop", "rename"})} IN
    [has      |-> (t.has \ gone) \cup {k.to : k \in With(s, {"add", "rename"})},
     required |-> ((t.required \ gone)
                     \cup {k.to : k \in {l \in With(s, {"rename"}) : l.col \in t.required}}
                     \cup {k.to : k \in {l \in With(s, {"add", "require"}) :
                                           l.notNull /\ ~l.default}})
                  \ {k.to : k \in With(s, {"relax"})}]

(* A clause names a column the table has, or adds one it has not.           *)
Resolves(t, s) ==
  /\ \A k \in With(s, {"drop", "rename"}) : k.col \in t.has
  /\ \A k \in With(s, {"require", "relax", "widen", "narrow"}) : k.to \in AfterAlter(t, s).has
  /\ \A k \in With(s, {"add", "rename"}) :
       k.to \notin t.has \ {l.col : l \in With(s, {"drop", "rename"})}

Moved(v, has, s) ==
  LET renamed == {k \in With(s, {"rename"}) : k.col \in DOMAIN v}
      value(c) == IF \E k \in renamed : k.to = c THEN v[(CHOOSE k \in renamed : k.to = c).col]
                  ELSE IF \E k \in With(s, {"add"}) : k.to = c /\ k.default THEN "default"
                  ELSE NULL
  IN [c \in has |-> IF c \in DOMAIN v THEN v[c] ELSE value(c)]

(* NOT NULL, and the length of a token.                                     *)
Filled(d) == \A a \in DOMAIN d.row :
               \A c \in d.tables["transactions"].required : d.row[a].v[c] # NULL
Fits(d, s) == With(s, {"narrow"}) # {} =>
                \A a \in DOMAIN d.row : d.row[a].v["paygov_token"] # "long"

AlterIn(d, s) ==
  LET altered == [d EXCEPT !.tables[s.table] = AfterAlter(d.tables[s.table], s),
                           !.wide = IF With(s, {"widen", "narrow"}) = {} THEN @
                                    ELSE With(s, {"widen"}) # {}]
      moved   == IF s.table # "transactions" THEN altered
                 ELSE [altered EXCEPT !.row = [a \in DOMAIN d.row |->
                        [d.row[a] EXCEPT !.v = Moved(@, altered.tables[s.table].has, s)]]]
  IN [moved EXCEPT !.ok = Resolves(d.tables[s.table], s) /\ Filled(moved) /\ Fits(moved, s)]

(* The backfills: which rows an UPDATE meets, and what it writes.           *)
StatusIn(d, a) == d.row[a].v["transaction_status"]
Siblings(a, b) == a # b /\ Obligation[a] = Obligation[b]

(* Two attempts of one obligation, both of a status in S.                   *)
Twice(d, S) == \E a, b \in DOMAIN d.row :
                 Siblings(a, b) /\ StatusIn(d, a) \in S /\ StatusIn(d, b) \in S

UNSETTLED        == {"received", "initiated", "processing"}
PAID             == {"pending", "processed"}
COVERED_STATUSES == UNSETTLED \cup PAID
Another(d, a) == \E b \in DOMAIN d.row : Siblings(a, b) /\ StatusIn(d, b) \in COVERED_STATUSES

Overdue(d, r) == r.created < d.day /\ r.v["transaction_status"] = "initiated"
Known(fee)    == IF fee \in Keys THEN KnownAmount[fee] ELSE NULL

(* (slip: restored beside another attempt that is active)                   *)
RestorableBeside(d, a) == StatusIn(d, a) = "cancelled" /\ d.row[a].v["return_code"] = NULL

Restorable(d, a) ==
  /\ StatusIn(d, a) = "cancelled"
  /\ d.row[a].v["return_code"] = NULL
  /\ ~Another(d, a)

Meets(how, d, a) ==
  CASE how \in {"fee details", "fee amounts", "fee keys"} -> d.row[a].v["fee_id"] \in DOMAIN d.fees
    [] how = "blank methods"                -> d.row[a].v["payment_method"] = NULL
    [] how \in {"amounts", "zero amounts"}  -> d.row[a].v["transaction_amount"] = NULL
    [] how = "amounts by fee"               -> TRUE
    [] how = "superseded"                   -> StatusIn(d, a) \in UNSETTLED /\ Another(d, a)
    [] how = "cancel backlog"               -> Overdue(d, d.row[a])
    [] how = "restore"                      -> Restorable(d, a)
    [] OTHER                                -> FALSE

Written(how, d, v) ==
  CASE how = "fee details"    -> [v EXCEPT !["fee_name"] = "name",
                                           !["fee_amount"] = d.fees[v["fee_id"]].amount]
    [] how = "fee amounts"    -> [v EXCEPT !["transaction_amount"] = d.fees[v["fee_id"]].amount]
    [] how = "fee keys"       -> [v EXCEPT !["fee_id"] = d.fees[v["fee_id"]].key]
    [] how = "blank methods"  -> [v EXCEPT !["payment_method"] = "blank"]
    [] how = "amounts"        -> [v EXCEPT !["transaction_amount"] = Known(v["fee_id"])]
    [] how = "amounts by fee" -> [v EXCEPT !["transaction_amount"] = Known(v["fee"])]
    [] how = "zero amounts"   -> [v EXCEPT !["transaction_amount"] = "zero"]
    [] how = "superseded"     -> [v EXCEPT !["transaction_status"] = "failed",
                                           !["return_code"] = "value", !["return_detail"] = "value"]
    [] how = "cancel backlog" -> [v EXCEPT !["transaction_status"] = "cancelled"]
    [] OTHER                  -> [v EXCEPT !["transaction_status"] = "initiated"]

(* set_last_updated_at, before every UPDATE of a row.                       *)
Touch(d, r, v) ==
  LET cancels == /\ v["transaction_status"] = "cancelled"
                 /\ r.v["transaction_status"] # "cancelled"
  IN [r EXCEPT !.v = v, !.updated = IF d.holds /\ cancels THEN @ ELSE d.day]

UpdateIn(d, how) ==
  IF how = "fee_key = fee_id"
  THEN [d EXCEPT !.fees = [id \in DOMAIN d.fees |-> [d.fees[id] EXCEPT !.key = id]]]
  ELSE LET written == [d EXCEPT !.row = [a \in DOMAIN d.row |->
                         LET r == d.row[a] IN
                           IF Meets(how, d, a) THEN Touch(d, r, Written(how, d, r.v)) ELSE r]]
       IN [written EXCEPT !.ok = Filled(written)]

(* Table t anew, and without a row.                                         *)
Anew(d, t, has, required) ==
  [d EXCEPT !.tables[t] = [has |-> has, required |-> required],
            !.fees = IF t = "fees" THEN <<>> ELSE @,
            !.row  = IF t = "transactions" THEN <<>> ELSE @]

Apply(d, s) ==
  CASE s.op = "create"  -> [Anew(d, s.table, s.has, s.required) EXCEPT
                              !.ok = d.tables[s.table].has = {}]
    [] s.op = "drop"    -> Anew(d, s.table, {}, {})
    [] s.op = "alter"   -> AlterIn(d, s)
    [] s.op = "update"  -> UpdateIn(d, s.how)
    [] s.op = "trigger" -> [d EXCEPT !.holds = s.holds]
    [] s.op = "check"   -> [d EXCEPT !.ok = ~Twice(d, PAID)]
    [] OTHER            -> d

(* A migration is one transaction: refused anywhere, it changed nothing.    *)
Run(d, statements) ==
  LET after[i \in 0 .. Len(statements)] ==
        IF i = 0 THEN d
        ELSE LET x == after[i - 1] IN IF x.ok THEN Apply(x, statements[i]) ELSE x
  IN  after[Len(statements)]

-----------------------------------------------------------------------------
(* The migrations, in the order of their file names.                        *)
T == "transactions"
InitDb ==
  [up   |-> <<Create(T, {"fee_name", "fee_id", "fee_amount", "payment_status", "payment_method",
                         "transaction_status", "paygov_token"},
                        {"fee_name", "fee_id", "fee_amount", "payment_status", "payment_method"}),
              Other, Trigger(FALSE)>>,
   down |-> <<Trigger(FALSE), DropTable(T)>>]

FeeColumns == {"fee_id", "name", "tcs_app_id", "is_variable", "amount"}
CreateFees ==
  [up   |-> <<Create("fees", FeeColumns, {"fee_id", "name", "tcs_app_id"}), Other,
              Alter(T, {DropNotNull("payment_method")}), Other,
              Alter(T, {DropColumn("fee_name"), DropColumn("fee_amount")})>>,
   down |-> <<Alter(T, {Add("fee_name"), Add("fee_amount")}),
              Update("fee details"),
              Update("blank methods"), Alter(T, {SetNotNull("payment_method")}),
              Other, DropTable("fees")>>]

ExpandToken ==
  [up   |-> <<Alter(T, {SetLength("paygov_token", 36)})>>,
   down |-> <<Alter(T, {SetLength("paygov_token", 32)})>>]

AddAmount ==
  [up   |-> <<Alter(T, {Add("transaction_amount")}), Update("amounts"),
              Alter(T, {SetNotNull("transaction_amount")}), Other>>,
   down |-> <<Other, Alter(T, {DropColumn("transaction_amount")})>>]

ResponseColumns == {"transaction_date", "payment_date", "return_code", "return_detail"}
AddResponse ==
  [up   |-> <<Alter(T, {Add(c) : c \in ResponseColumns})>>,
   down |-> <<Alter(T, {DropColumn(c) : c \in ResponseColumns})>>]

Reindex == [up |-> <<Other>>, down |-> <<Other>>]

(* (slip: down trusts the join with fees, which may be empty)               *)
FeeVersioningJoined ==
  [up   |-> <<Alter("fees", {Add("fee_key")}), Update("fee_key = fee_id"),
              Alter("fees", {SetNotNull("fee_key")}),
              Alter("fees", {Add("activation_date")}), Update("activation_date = created_at"),
              Alter("fees", {SetNotNull("activation_date")}), Other,
              Alter(T, {DropColumn("transaction_amount")})>>,
   down |-> <<Alter(T, {Add("transaction_amount")}), Update("fee amounts"),
              Alter(T, {SetNotNull("transaction_amount")}), Other,
              Alter("fees", {DropColumn("activation_date"), DropColumn("fee_key")})>>]

FeeVersioning ==
  [up   |-> <<Alter("fees", {Add("fee_key")}), Update("fee_key = fee_id"),
              Alter("fees", {SetNotNull("fee_key")}),
              Alter("fees", {Add("activation_date")}), Update("activation_date = created_at"),
              Alter("fees", {SetNotNull("activation_date")}), Other,
              Alter(T, {DropColumn("transaction_amount")})>>,
   down |-> <<Alter(T, {Add("transaction_amount")}), Update("fee amounts"),
              Update("zero amounts"), Alter(T, {SetNotNull("transaction_amount")}), Other,
              Alter("fees", {DropColumn("activation_date"), DropColumn("fee_key")})>>]

(* (slip: down brings back the fees of 20260327161546)                      *)
DropFeesUnversioned ==
  [up   |-> <<Other, Update("fee keys"), Alter(T, {Rename("fee_id", "fee")}), DropTable("fees")>>,
   down |-> <<Create("fees", FeeColumns, {"fee_id", "name", "tcs_app_id"}), Other,
              Alter(T, {Rename("fee", "fee_id")}), Other>>]

DropFees ==
  [up   |-> <<Other, Update("fee keys"), Alter(T, {Rename("fee_id", "fee")}), DropTable("fees")>>,
   down |-> <<Create("fees", FeeColumns \cup {"fee_key", "activation_date"},
                     {"fee_id", "fee_key", "name", "tcs_app_id", "activation_date"}), Other,
              Alter(T, {Rename("fee", "fee_id")}), Other>>]

RestoreAmount ==
  [up   |-> <<Alter(T, {Add("transaction_amount")}), Update("amounts by fee"),
              Alter(T, {SetNotNull("transaction_amount")}), Other>>,
   down |-> <<Other, Alter(T, {DropColumn("transaction_amount")})>>]

AddProcessed == [up |-> <<Check, Update("superseded"), Other>>, down |-> <<Other>>]

HoldDay == [up |-> <<Trigger(TRUE)>>, down |-> <<Trigger(FALSE)>>]

CancelBacklog == [up |-> <<Update("cancel backlog")>>, down |-> <<Update("restore")>>]

(* (slip: the backlog is cancelled before the trigger holds its day)        *)
MigrationsBacklogFirst ==
  <<InitDb, CreateFees, ExpandToken, AddAmount, AddResponse, Reindex, FeeVersioning, Reindex,
    DropFees, RestoreAmount, AddProcessed, CancelBacklog, HoldDay>>

Migrations ==
  <<InitDb, CreateFees, ExpandToken, AddAmount, AddResponse, Reindex, FeeVersioning, Reindex,
    DropFees, RestoreAmount, AddProcessed, HoldDay, CancelBacklog>>

Committed  == Len(Migrations)
DraftLevel == Committed + 1

NoTable == [has |-> {}, required |-> {}]
Empty == [tables |-> [transactions |-> NoTable, fees |-> NoTable], row |-> <<>>, fees |-> <<>>,
          holds |-> FALSE, wide |-> FALSE, day |-> 1, ok |-> TRUE]

(* Fresh[n]: the empty database a release built on n migrations was tested  *)
(* with.                                                                    *)
Fresh ==
  LET fresh[n \in 0 .. Committed] == IF n = 0 THEN Empty ELSE Run(fresh[n - 1], Migrations[n].up)
  IN  [n \in 0 .. Committed |-> fresh[n]]
SchemaAt(n) == Fresh[n].tables

-----------------------------------------------------------------------------
VARIABLES
  db,
  level,     \* how many migrations are applied
  release,   \* how many the code that runs was built on
  draft,     \* the statements of the migration a pull request adds
  gate,      \* what CI made of it: "none", "blocked", "clean", "paused", "approved"
  refused,   \* the last run: <<>>, or <<"up" or "down", the migration that failed>>
  covered,   \* the statuses of which an obligation may have one attempt
  lostKey    \* a version of a fee lost its key to a rollback (a history)

vars == <<db, level, release, draft, gate, refused, covered, lostKey>>

Transactions == db.tables.transactions
CodeTable    == SchemaAt(release).transactions

(* The running code's statements name its columns, and give a value to      *)
(* those it knows to be required.                                           *)
ReadsWork == CodeTable.has \subseteq Transactions.has
Accepts   == ReadsWork /\ Transactions.required \subseteq CodeTable.required

Statements(m) == IF m = DraftLevel THEN draft ELSE Migrations[m].up

(* What the unique index covers after migration n: at first a constraint    *)
(* on all rows, which the down of 20260424164039 does not bring back.       *)
FIRST_COVERED == {"received", "initiated", "pending"}
IndexUp(n) ==
  CASE n = 1  -> Statuses
    [] n = 6  -> FIRST_COVERED
    [] n = 8  -> FIRST_COVERED \cup {"processing"}
    [] n = 11 -> COVERED_STATUSES
    [] OTHER  -> covered

IndexDown(n) ==
  CASE n \in {1, 6} -> {}
    [] n = 8  -> FIRST_COVERED
    [] n = 11 -> FIRST_COVERED \cup {"processing"}
    [] OTHER  -> covered

(* The migration went through, and so did the index on the rows it left.    *)
Went(after, covers) == after.ok /\ ~Twice(after, covers)
Migrated(after, n, covers) ==
  IF Went(after, covers)
  THEN db' = after /\ level' = n /\ refused' = <<>> /\ covered' = covers
  ELSE UNCHANGED <<db, level, covered>>

(* knex.migrate.latest, one pending migration; the draft once it is merged  *)
(* and, when the scan of the deploy found it destructive, approved.         *)
Up ==
  /\ \/ level < Committed
     \/ level = Committed /\ gate \in {"clean", "approved"}
  /\ LET after == Run(db, Statements(level + 1)) IN
       /\ Migrated(after, level + 1, IndexUp(level + 1))
       /\ ~Went(after, IndexUp(level + 1)) => refused' = <<"up", level + 1>>
  /\ UNCHANGED <<release, draft, gate, lostKey>>

(* knex.migrate.rollback, one migration of the last batch (bound: none is   *)
(* rolled back while a pull request adds one).                              *)
Down ==
  /\ level \in 1 .. Committed /\ gate = "none"
  /\ LET after == Run(db, Migrations[level].down) IN
       /\ Migrated(after, level - 1, IndexDown(level))
       /\ ~Went(after, IndexDown(level)) => refused' = <<"down", level>>
       /\ lostKey' = (lostKey \/ (Migrations[level] = FeeVersioning /\ Version \in DOMAIN db.fees))
  /\ UNCHANGED <<release, draft, gate>>

(* terraform apply: the release of this level, the next, or the one before. *)
DeployCode(n) ==
  /\ n \in ((level - 1) .. (level + 1)) \cap (1 .. Committed) /\ n # release
  /\ release' = n /\ refused' = <<>>
  /\ UNCHANGED <<db, level, draft, gate, covered, lostKey>>

(* checkMigrationSafety: on the pull request an unacknowledged finding      *)
(* blocks it, at the deploy any finding pauses for a human.                 *)
Destructive == ScanStatements(draft) # {}
CheckMigrationSafety(statements, acknowledged) ==
  /\ gate = "none" /\ level = Committed
  /\ draft' = statements
  /\ gate' = IF ScanStatements(statements) = {} THEN "clean"
             ELSE IF acknowledged THEN "paused" ELSE "blocked"
  /\ refused' = <<>>
  /\ UNCHANGED <<db, level, release, covered, lostKey>>

Approve == /\ gate = "paused" /\ gate' = "approved"
           /\ UNCHANGED <<db, level, release, draft, refused, covered, lostKey>>

-----------------------------------------------------------------------------
(* The portal, in whichever release runs, and the seeds.                    *)
Writes(new) == /\ db' = new /\ refused' = <<>>
               /\ UNCHANGED <<level, release, draft, gate, covered, lostKey>>

FeesTable == db.tables.fees.has
Seed == /\ FeesTable # {} /\ DOMAIN db.fees = {}
        /\ Writes([db EXCEPT !.fees = [k \in Keys |-> [key |-> k, amount |-> KnownAmount[k]]]])

(* The row r of a new id.                                                   *)
Inserted(rows, id, r) == [i \in DOMAIN rows \cup {id} |-> IF i = id THEN r ELSE rows[i]]

AddVersion ==
  /\ "fee_key" \in FeesTable /\ Keys \subseteq DOMAIN db.fees /\ Version \notin DOMAIN db.fees
  /\ Writes([db EXCEPT !.fees =
       Inserted(@, Version, [key |-> FirstKey, amount |-> "raised"])])

(* createReceived: a row names a fee of the table while there is one.       *)
MayName(fee) == IF FeesTable = {} THEN fee \in Keys ELSE fee \in DOMAIN db.fees
(* (slip: only the values of the attempt itself)                            *)
FirstValuesBare(fee) ==
  [c \in Transactions.has |->
     CASE c \in {"fee", "fee_id"} -> fee
       [] c \in {"fee_amount", "transaction_amount"} -> "amount"
       [] c = "transaction_status" -> "received"
       [] OTHER -> NULL]

FirstValues(fee) ==
  [c \in Transactions.has |->
     CASE c \in {"fee", "fee_id"} -> fee
       [] c \in {"fee_amount", "transaction_amount"} -> "amount"
       [] c = "transaction_status" -> "received"
       [] OTHER -> IF c \in CodeTable.required THEN "value" ELSE NULL]
(* The index lets attempt a have this status.                               *)
Admits(a, status) ==
  status \in covered =>
    \A b \in DOMAIN db.row : Siblings(a, b) => StatusIn(db, b) \notin covered

CreateReceived(a, fee) ==
  /\ a \notin DOMAIN db.row /\ Accepts /\ MayName(fee) /\ Admits(a, "received")
  /\ Writes([db EXCEPT !.row =
       Inserted(@, a, [v |-> FirstValues(fee), created |-> db.day, updated |-> db.day])])

Patch(a, v) ==
  /\ ReadsWork /\ Admits(a, v["transaction_status"])
  /\ Writes([db EXCEPT !.row[a] = Touch(db, @, v)])

Status(a) == StatusIn(db, a)
UpdateToInitiated(a, token) ==
  /\ a \in DOMAIN db.row /\ Status(a) = "received"
  /\ token = "long" => db.wide
  /\ Patch(a, [db.row[a].v EXCEPT !["transaction_status"] = "initiated", !["paygov_token"] = token])
TryClaim(a) ==
  /\ a \in DOMAIN db.row /\ Status(a) = "initiated" /\ release >= 8
  /\ Patch(a, [db.row[a].v EXCEPT !["transaction_status"] = "processing"])
UpdateAfterPayGovResponse(a, outcome) ==
  /\ a \in DOMAIN db.row /\ Status(a) \in {"initiated", "processing"}
  /\ Patch(a, [db.row[a].v EXCEPT !["transaction_status"] = outcome, !["payment_method"] = "card"])
CancelExpired(a) ==
  /\ a \in DOMAIN db.row /\ release >= Committed - 1 /\ Overdue(db, db.row[a])
  /\ Patch(a, [db.row[a].v EXCEPT !["transaction_status"] = "cancelled"])

Pass == db.day < LastDay /\ Writes([db EXCEPT !.day = @ + 1])

(* The draft is merged and migrated: the end of this history.               *)
Done == level = DraftLevel /\ UNCHANGED vars

Init == /\ db = Empty /\ level = 0 /\ release = 1
        /\ draft = <<>> /\ gate = "none" /\ refused = <<>> /\ covered = {} /\ lostKey = FALSE

Next == \/ Up \/ Down \/ Seed \/ AddVersion \/ Approve \/ Pass \/ Done
        \/ \E n \in 1 .. Committed : DeployCode(n)
        \/ \E d \in Drafts, acknowledged \in BOOLEAN : CheckMigrationSafety(d, acknowledged)
        \/ \E a \in Attempts, fee \in Keys \cup {Version} : CreateReceived(a, fee)
        \/ \E a \in Attempts, token \in Tokens : UpdateToInitiated(a, token)
        \/ \E a \in Attempts : TryClaim(a) \/ CancelExpired(a)
        \/ \E a \in Attempts, outcome \in PAID \cup {"failed"} : UpdateAfterPayGovResponse(a, outcome)

Spec == Init /\ [][Next]_vars

-----------------------------------------------------------------------------
(* What the history of the schema guarantees.                               *)

(* Every variable keeps to its domain, and every row has exactly the        *)
(* columns of its table, those required with a value.                       *)
TypeOK ==
  /\ level \in 0 .. DraftLevel /\ release \in 1 .. Committed
  /\ DOMAIN db.row \subseteq Attempts
  /\ \A a \in DOMAIN db.row :
       /\ DOMAIN db.row[a].v = Transactions.has
       /\ \A c \in Transactions.required : db.row[a].v[c] # NULL
       /\ db.row[a].created \in 1 .. db.day /\ db.row[a].updated \in db.row[a].created .. db.day
  /\ Transactions.required \subseteq Transactions.has
  /\ DOMAIN db.fees \subseteq Keys \cup {Version}
  /\ gate \in {"none", "blocked", "clean", "paused", "approved"}
  /\ covered \subseteq Statuses

(* Whatever was migrated, rolled back and migrated again, a level has the   *)
(* columns it has on a fresh database: every down undoes its up.            *)
ColumnsByLevel ==
  level <= Committed =>
    /\ Transactions.has = SchemaAt(level).transactions.has
    /\ db.tables.fees.has = SchemaAt(level).fees.has

(* On rows the portal wrote a migration is refused, and a deploy or a       *)
(* rollback stuck, for these reasons only.  Down: tokens too long to be     *)
(* shortened, and two cancelled attempts of one obligation, which the down  *)
(* of 20260915000000 would both restore.  Up: what the scan found and a     *)
(* human approved; an amount for a version of a fee whose key a rollback    *)
(* dropped; a unique index for rows that none has kept apart, after the     *)
(* down of 20260424164039, or on "processing" for rows a release ahead of   *)
(* it wrote; an obligation that is paid twice.                              *)
OnlyKnownRefusals ==
  refused # <<>> =>
    LET n == refused[2] IN
    IF refused[1] = "down"
    THEN \/ Migrations[n] = ExpandToken
         \/ Migrations[n] = CancelBacklog /\ Twice(db, {"cancelled"})
    ELSE \/ n = DraftLevel /\ gate = "approved"
         \/ n # DraftLevel /\ Migrations[n] \in {AddAmount, RestoreAmount} /\ lostKey
         \/ n = 6 /\ covered = {} /\ Twice(db, FIRST_COVERED)
         \/ n = 8 /\ \E a, b \in DOMAIN db.row : Siblings(a, b) /\ Status(a) = "processing"
         \/ n = 11 /\ Twice(db, PAID)

(* Between a deploy of code and the migrations after it, and when the code  *)
(* is redeployed one release back, the statements of the running release    *)
(* name columns that are there, and an INSERT gives a value to all that are *)
(* required, as long as no migration since was found destructive.  Of what  *)
(* the scan lets through without a human, this is about the columns; not    *)
(* about constraints, unique indexes and narrowed types.                    *)
Unattended(m) == IF m = DraftLevel THEN gate = "clean" ELSE ScanStatements(Migrations[m].up) = {}
UnattendedKeepsRelease ==
  release <= level /\ (\A m \in (release + 1) .. level : Unattended(m)) => Accepts

(* From the migration on that holds a cancellation's day, no attempt enters *)
(* "cancelled" and moves to another day, neither in the migrated backlog    *)
(* nor in a sweep.                                                          *)
CancellationsKeepTheirDay ==
  [][\A a \in DOMAIN db.row \cap DOMAIN db'.row :
       /\ level' >= Committed - 1
       /\ "transaction_status" \in DOMAIN db.row[a].v
       /\ db'.row[a].v["transaction_status"] = "cancelled" /\ Status(a) # "cancelled"
       => db'.row[a].updated = db.row[a].updated]_vars
===============================================================================
