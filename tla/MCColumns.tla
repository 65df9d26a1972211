------------------------------ MODULE MCColumns ------------------------------
(* Instances of ColumnMigrations: every draft of one ALTER TABLE with one or *)
(* two clauses, and the usual drafts of several statements.                  *)
EXTENDS ColumnMigrations, TLC

MCKnownAmount == [k \in {"petition", "exam"} |-> "known"]
MCObligation == [a \in Attempts |-> "order"]
MCSymmetry == Permutations(Attempts)

(* Bounds.  One attempt meets every value, draft and pair of days; two of    *)
(* one obligation meet each other, the check and the index, with one fee,    *)
(* short tokens and no draft, over the days it takes to cancel one and then  *)
(* the other.                                                                *)
Beside == Cardinality(DOMAIN db.row) = 2
MCBound ==
  IF Beside
  THEN /\ gate = "none" /\ ~lostKey /\ Version \notin DOMAIN db.fees /\ release >= level
       /\ \A a \in DOMAIN db.row : \A c \in DOMAIN db.row[a].v : db.row[a].v[c] \notin {"exam", "long"}
  ELSE db.day <= 2

(* Of the days of two rows, only whether they are over decides a step, a     *)
(* refusal or a property.                                                    *)
MCView ==
  <<IF Beside
    THEN [db EXCEPT !.row = [a \in DOMAIN @ |-> <<@[a].v, @[a].created < db.day, @[a].updated < db.day>>]]
    ELSE db,
    level, release, draft, gate, refused, covered, lostKey>>

New(c)   == {Add(c), AddDefaulted(c), AddRequired(c)}
Single   == New("one") \cup {SetNotNull("return_code"), DropNotNull("fee"),
                             DropColumn("return_detail"), Rename("payment_date", "paid_on")}
MCDrafts ==
  {<<Alter("transactions", {p[1], p[2]})>> :
     p \in {q \in Single \X (Single \cup New("two")) : q[1].to = q[2].to => q[1] = q[2]}}
  \cup {<<DropTable("transactions")>>,
        <<Alter("transactions", {Add("two")}), Update("amounts by fee"),
          Alter("transactions", {SetNotNull("two")})>>}

(* What the theorems assume of the drafts, which these meet: none replaces  *)
(* the trigger, cancels or restores rows or takes the status away, and one  *)
(* without a finding went through on a fresh database, shortening no token  *)
(* and filling no column from the fees.                                     *)
ASSUME DraftsAsAssumed ==
  \A d \in Drafts :
    /\ \A s \in Range(d) :
         /\ s.op \notin {"trigger", "check"}
         /\ s.op = "update" => s.how \notin {"superseded", "cancel backlog", "restore"}
         /\ s.op = "alter" => \A k \in With(s, {"drop", "rename"}) : k.col # "transaction_status"
    /\ ScanStatements(d) = {} =>
         /\ Run(Fresh[Committed], d).ok
         /\ \A s \in Range(d) :
              /\ s.op = "alter" => With(s, {"narrow"}) = {}
              /\ s.op = "update" => s.how \notin {"fee details", "fee amounts", "fee keys",
                                                 "amounts", "amounts by fee"}
=============================================================================
