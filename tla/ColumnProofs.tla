----------------------------- MODULE ColumnProofs -----------------------------
(***************************************************************************)
(* What the migrations guarantee for any attempts, fees, known amounts and  *)
(* drafts: the type invariant, the columns of every level, that a release   *)
(* survives what the scanner lets through, the day of a cancellation, and   *)
(* which migrations may be refused.                                         *)
(***************************************************************************)
EXTENDS ColumnMigrations, FiniteSetTheorems, WellFoundedInduction, TLAPS

(* A set of natural numbers has a least one.                                *)
LEMMA LeastNat ==
  ASSUME NEW S, S \subseteq Nat, S # {}
  PROVE  \E x \in S : \A y \in S : x <= y
<1> DEFINE R == StrictSubsetOrdering(Nat)
           intervals == {0 .. x : x \in S}
<1>1. \A x \in S : IsFiniteSet(0 .. x) /\ 0 .. x \in SUBSET Nat
  BY FS_Interval
<1>2. intervals \subseteq FiniteSubsetsOf(Nat) /\ intervals # {}
  BY <1>1 DEF FiniteSubsetsOf
<1>3. IsWellFoundedOn(R, FiniteSubsetsOf(Nat))
  BY FS_StrictSubsetOrderingWellFounded
<1> HIDE DEF R, intervals
<1>4. \E I \in intervals : \A J \in intervals : ~(<<J, I>> \in R)
  BY <1>2, <1>3, WFMin
<1> USE DEF intervals
<1>5. PICK x \in S : \A y \in S : ~(<<0 .. y, 0 .. x>> \in R)
  BY <1>4
<1>6. ASSUME NEW y \in S, ~(x <= y) PROVE FALSE
  <2>1. x \in Nat /\ y \in Nat /\ y < x
    BY <1>6
  <2>2. 0 .. y \subseteq 0 .. x
    BY <2>1
  <2>3. x \in 0 .. x /\ x \notin 0 .. y
    BY <2>1
  <2>4. <<0 .. y, 0 .. x>> \in R
    BY <1>1, <2>2, <2>3 DEF R, StrictSubsetOrdering
  <2> QED BY <1>5, <2>4
<1> QED BY <1>6

(* What holds of 0 and of the successor of what it holds of holds of every  *)
(* natural number.                                                          *)
LEMMA Counting ==
  ASSUME NEW I, I \subseteq Nat, 0 \in I, \A n \in I : n + 1 \in I
  PROVE  I = Nat
<1>1. SUFFICES ASSUME Nat \ I # {} PROVE FALSE
  OBVIOUS
<1>2. PICK n \in Nat \ I : \A m \in Nat \ I : n <= m
  BY <1>1, LeastNat
<1>3. n - 1 \in Nat /\ n - 1 \in I
  BY <1>2
<1> QED BY <1>2, <1>3

-----------------------------------------------------------------------------
(* A run, statement by statement.                                           *)

(* f is the databases after each of the first n statements.                 *)
After(f, d, ss, i) == IF i = 0 THEN d
                      ELSE LET x == f[i - 1] IN IF x.ok THEN Apply(x, ss[i]) ELSE x
(* The table of a run's intermediate databases.                             *)
IsRun(f, d, ss, n) == f = [i \in 0 .. n |-> After(f, d, ss, i)]

(* There is one, of any length,                                             *)
LEMMA RunsExist ==
  ASSUME NEW d, NEW ss
  PROVE  \A n \in Nat : \E f : IsRun(f, d, ss, n)
<1> DEFINE I == {n \in Nat : \E f : IsRun(f, d, ss, n)}
<1>1. 0 \in I
  <2>1. IsRun([i \in 0 .. 0 |-> d], d, ss, 0)
    BY DEF IsRun, After
  <2> QED BY <2>1
<1>2. ASSUME NEW n \in I PROVE n + 1 \in I
  <2>1. PICK f : IsRun(f, d, ss, n)
    BY <1>2
  <2> DEFINE g == [i \in 0 .. n + 1 |-> IF i <= n THEN f[i] ELSE After(f, d, ss, n + 1)]
  <2>2. ASSUME NEW i \in 0 .. n + 1 PROVE g[i] = After(g, d, ss, i)
    <3>1. n \in Nat /\ n + 1 - 1 = n
      BY <1>2
    <3>2. CASE i = 0
      BY <2>1, <3>1, <3>2 DEF IsRun, After
    <3>3. CASE i # 0
      <4>1. i - 1 \in 0 .. n /\ g[i - 1] = f[i - 1]
        BY <3>1, <3>3
      <4>2. After(g, d, ss, i) = After(f, d, ss, i)
        BY <3>3, <4>1 DEF After
      <4>3. g[i] = After(f, d, ss, i)
        BY <2>1, <3>1, <4>1 DEF IsRun
      <4> QED BY <4>2, <4>3
    <3> QED BY <3>2, <3>3
  <2>3. IsRun(g, d, ss, n + 1)
    BY <2>2 DEF IsRun
  <2> QED BY <1>2, <2>3
<1>3. I = Nat
  BY <1>1, <1>2, Counting
<1> QED BY <1>3

(* and it ends with what Run makes of the database.                         *)
LEMMA RunSteps ==
  ASSUME NEW d, NEW ss, Len(ss) \in Nat
  PROVE  \E f : /\ f[0] = d /\ f[Len(ss)] = Run(d, ss)
                /\ \A i \in 1 .. Len(ss) :
                     f[i] = IF f[i - 1].ok THEN Apply(f[i - 1], ss[i]) ELSE f[i - 1]
<1> DEFINE f == CHOOSE f : IsRun(f, d, ss, Len(ss))
<1>1. IsRun(f, d, ss, Len(ss))
  BY RunsExist
<1>2. Run(d, ss) = f[Len(ss)]
  BY DEF Run, IsRun, After
<1> HIDE DEF f
<1>3. f[0] = d
  BY <1>1 DEF IsRun, After
<1>4. ASSUME NEW i \in 1 .. Len(ss)
      PROVE  f[i] = IF f[i - 1].ok THEN Apply(f[i - 1], ss[i]) ELSE f[i - 1]
  <2>1. i \in 0 .. Len(ss) /\ i # 0
    OBVIOUS
  <2> QED BY <1>1, <2>1 DEF IsRun, After
<1> QED BY <1>2, <1>3, <1>4

(* A run that was not refused applied every statement.                      *)
LEMMA RunApplies ==
  ASSUME NEW d, NEW ss, Len(ss) \in Nat, Run(d, ss).ok
  PROVE  \E f : /\ f[0] = d /\ f[Len(ss)] = Run(d, ss)
                /\ \A i \in 0 .. Len(ss) : f[i].ok
                /\ \A i \in 1 .. Len(ss) : f[i] = Apply(f[i - 1], ss[i])
<1>1. PICK f : /\ f[0] = d /\ f[Len(ss)] = Run(d, ss)
               /\ \A i \in 1 .. Len(ss) :
                    f[i] = IF f[i - 1].ok THEN Apply(f[i - 1], ss[i]) ELSE f[i - 1]
  BY RunSteps
<1>2. ASSUME NEW i \in 0 .. Len(ss), ~f[i].ok PROVE FALSE
  <2> DEFINE I == {j \in Nat : i + j <= Len(ss) => f[i + j] = f[i]}
  <2>1. 0 \in I
    OBVIOUS
  <2>2. ASSUME NEW j \in I PROVE j + 1 \in I
    <3>1. SUFFICES ASSUME i + (j + 1) <= Len(ss) PROVE f[i + (j + 1)] = f[i]
      OBVIOUS
    <3>2. f[i + j] = f[i] /\ i + (j + 1) \in 1 .. Len(ss) /\ i + (j + 1) - 1 = i + j
      BY <3>1
    <3> QED BY <1>1, <1>2, <3>2
  <2>3. I = Nat
    BY <2>1, <2>2, Counting
  <2>4. Len(ss) - i \in I /\ i + (Len(ss) - i) = Len(ss)
    <3>1. Len(ss) - i \in Nat /\ i + (Len(ss) - i) = Len(ss)
      OBVIOUS
    <3> HIDE DEF I
    <3> QED BY <2>3, <3>1
  <2> QED BY <1>1, <1>2, <2>4
<1> QED BY <1>1, <1>2

-----------------------------------------------------------------------------
(* What a statement makes of a database, field by field.                    *)

(* A database with the fields the model gives one.                          *)
IsDatabase(d) ==
  /\ d = [tables |-> d.tables, row |-> d.row, fees |-> d.fees, holds |-> d.holds,
          wide |-> d.wide, day |-> d.day, ok |-> d.ok]
  /\ d.tables = [transactions |-> d.tables["transactions"], fees |-> d.tables["fees"]]

(* An ALTER TABLE.                                                          *)
LEMMA AlterFields ==
  ASSUME NEW d, NEW s, IsDatabase(d), s.table \in Tables
  PROVE  LET e    == AlterIn(d, s)
             here == AfterAlter(d.tables[s.table], s)
         IN  /\ IsDatabase(e)
             /\ e.tables[s.table] = here
             /\ \A t \in Tables \ {s.table} : e.tables[t] = d.tables[t]
             /\ e.row = IF s.table # "transactions" THEN d.row
                        ELSE [a \in DOMAIN d.row |->
                                [d.row[a] EXCEPT !.v = Moved(@, here.has, s)]]
             /\ e.fees = d.fees /\ e.holds = d.holds /\ e.day = d.day
             /\ e.wide = IF With(s, {"widen", "narrow"}) = {} THEN d.wide
                         ELSE With(s, {"widen"}) # {}
             /\ e.ok = (Resolves(d.tables[s.table], s) /\ Filled(e) /\ Fits(e, s))
<1> DEFINE here == AfterAlter(d.tables[s.table], s)
           wide == IF With(s, {"widen", "narrow"}) = {} THEN d.wide ELSE With(s, {"widen"}) # {}
           altered == [d EXCEPT !.tables[s.table] = here, !.wide = wide]
           rows == [a \in DOMAIN d.row |->
                      [d.row[a] EXCEPT !.v = Moved(@, altered.tables[s.table].has, s)]]
           moved == IF s.table # "transactions" THEN altered ELSE [altered EXCEPT !.row = rows]
           ok == Resolves(d.tables[s.table], s) /\ Filled(moved) /\ Fits(moved, s)
           e == AlterIn(d, s)
<1>1. e = [moved EXCEPT !.ok = ok]
  BY DEF AlterIn
<1> HIDE DEF here, wide, ok
<1>2. /\ IsDatabase(altered) /\ altered.tables[s.table] = here
      /\ \A t \in Tables \ {s.table} : altered.tables[t] = d.tables[t]
      /\ altered.row = d.row /\ altered.fees = d.fees /\ altered.holds = d.holds
      /\ altered.day = d.day /\ altered.wide = wide
  <2> DEFINE tables == [d.tables EXCEPT ![s.table] = here]
  <2>1. altered = [d EXCEPT !.tables = tables, !.wide = wide]
    BY DEF IsDatabase
  <2>2. /\ tables[s.table] = here /\ \A t \in Tables \ {s.table} : tables[t] = d.tables[t]
        /\ tables = [transactions |-> tables["transactions"], fees |-> tables["fees"]]
    BY DEF IsDatabase, Tables
  <2> HIDE DEF tables, altered
  <2> QED BY <2>1, <2>2 DEF IsDatabase
<1>3. rows = [a \in DOMAIN d.row |-> [d.row[a] EXCEPT !.v = Moved(@, here.has, s)]]
  BY <1>2
<1> HIDE DEF altered, rows
<1>4. /\ IsDatabase(moved) /\ moved.tables = altered.tables
      /\ moved.row = IF s.table # "transactions" THEN d.row ELSE rows
      /\ moved.fees = d.fees /\ moved.holds = d.holds
      /\ moved.day = d.day /\ moved.wide = wide
  BY <1>2 DEF IsDatabase
<1> HIDE DEF moved
<1>5. /\ IsDatabase(e) /\ e.tables = moved.tables /\ e.row = moved.row /\ e.fees = moved.fees
      /\ e.holds = moved.holds /\ e.day = moved.day /\ e.wide = moved.wide /\ e.ok = ok
  BY <1>1, <1>4 DEF IsDatabase
<1> HIDE DEF e
<1>6. Filled(e) = Filled(moved) /\ Fits(e, s) = Fits(moved, s)
  BY <1>5 DEF Filled, Fits
<1>7. ok = (Resolves(d.tables[s.table], s) /\ Filled(e) /\ Fits(e, s))
  BY <1>6 DEF ok
<1> QED BY <1>2, <1>3, <1>4, <1>5, <1>7 DEF e, here, wide

(* The same, as far as the rows do not matter.                              *)
LEMMA AlterTables ==
  ASSUME NEW d, NEW s, IsDatabase(d), s.table \in Tables
  PROVE  /\ IsDatabase(AlterIn(d, s))
         /\ AlterIn(d, s).tables[s.table] = AfterAlter(d.tables[s.table], s)
         /\ \A t \in Tables \ {s.table} : AlterIn(d, s).tables[t] = d.tables[t]
         /\ AlterIn(d, s).fees = d.fees /\ AlterIn(d, s).holds = d.holds
         /\ AlterIn(d, s).day = d.day
<1> DEFINE e == AlterIn(d, s)
           here == AfterAlter(d.tables[s.table], s)
<1>1. /\ IsDatabase(e)
      /\ e.tables[s.table] = here
      /\ \A t \in Tables \ {s.table} : e.tables[t] = d.tables[t]
      /\ e.row = IF s.table # "transactions" THEN d.row
                 ELSE [a \in DOMAIN d.row |-> [d.row[a] EXCEPT !.v = Moved(@, here.has, s)]]
      /\ e.fees = d.fees /\ e.holds = d.holds /\ e.day = d.day
      /\ e.ok = (Resolves(d.tables[s.table], s) /\ Filled(e) /\ Fits(e, s))
  BY AlterFields
<1>2. IsDatabase(e)
  BY <1>1
<1> HIDE DEF e, here
<1> QED BY <1>1, <1>2 DEF e, here

(* An UPDATE.                                                               *)
LEMMA UpdateFields ==
  ASSUME NEW d, NEW how, IsDatabase(d)
  PROVE  LET e == UpdateIn(d, how)
         IN  /\ IsDatabase(e)
             /\ e.tables = d.tables /\ e.holds = d.holds /\ e.day = d.day /\ e.wide = d.wide
             /\ how = "fee_key = fee_id" =>
                  /\ e.row = d.row /\ e.ok = d.ok
                  /\ e.fees = [id \in DOMAIN d.fees |-> [d.fees[id] EXCEPT !.key = id]]
             /\ how # "fee_key = fee_id" =>
                  /\ e.fees = d.fees /\ e.ok = Filled(e)
                  /\ e.row = [a \in DOMAIN d.row |->
                       IF Meets(how, d, a)
                       THEN Touch(d, d.row[a], Written(how, d, d.row[a].v)) ELSE d.row[a]]
<1> DEFINE rows == [a \in DOMAIN d.row |->
                      IF Meets(how, d, a)
                      THEN Touch(d, d.row[a], Written(how, d, d.row[a].v)) ELSE d.row[a]]
           fees == [id \in DOMAIN d.fees |-> [d.fees[id] EXCEPT !.key = id]]
           written == [d EXCEPT !.row = rows]
           ok == Filled(written)
           e == UpdateIn(d, how)
<1>1. CASE how = "fee_key = fee_id"
  <2>1. e = [d EXCEPT !.fees = fees]
    BY <1>1 DEF UpdateIn
  <2> HIDE DEF fees, rows
  <2>2. IsDatabase(e) /\ e.tables = d.tables /\ e.holds = d.holds /\ e.day = d.day
        /\ e.wide = d.wide /\ e.row = d.row /\ e.ok = d.ok /\ e.fees = fees
    BY <2>1 DEF IsDatabase
  <2> QED BY <1>1, <2>2 DEF fees
<1>2. CASE how # "fee_key = fee_id"
  <2>1. e = [written EXCEPT !.ok = ok]
    BY <1>2 DEF UpdateIn
  <2> HIDE DEF rows, ok
  <2>2. /\ IsDatabase(e) /\ e.tables = d.tables /\ e.holds = d.holds /\ e.day = d.day
        /\ e.wide = d.wide /\ e.row = rows /\ e.ok = ok /\ e.fees = d.fees
        /\ written.row = rows /\ written.tables = d.tables
    BY <2>1 DEF IsDatabase
  <2> HIDE DEF e, written
  <2>3. Filled(e) = Filled(written)
    BY <2>2 DEF Filled
  <2>4. ok = Filled(e)
    BY <2>3 DEF ok
  <2> QED BY <1>2, <2>2, <2>4 DEF e, rows
<1> QED BY <1>1, <1>2

(* A table created or dropped.                                              *)
LEMMA AnewFields ==
  ASSUME NEW d, NEW t \in Tables, NEW has, NEW required, IsDatabase(d)
  PROVE  LET e == Anew(d, t, has, required)
         IN  /\ IsDatabase(e)
             /\ e.tables[t] = [has |-> has, required |-> required]
             /\ \A u \in Tables \ {t} : e.tables[u] = d.tables[u]
             /\ e.row = IF t = "transactions" THEN <<>> ELSE d.row
             /\ e.fees = IF t = "fees" THEN <<>> ELSE d.fees
             /\ e.holds = d.holds /\ e.day = d.day /\ e.wide = d.wide /\ e.ok = d.ok
<1> DEFINE tables == [d.tables EXCEPT ![t] = [has |-> has, required |-> required]]
           fees == IF t = "fees" THEN <<>> ELSE d.fees
           rows == IF t = "transactions" THEN <<>> ELSE d.row
           e == Anew(d, t, has, required)
<1>1. e = [d EXCEPT !.tables = tables, !.fees = fees, !.row = rows]
  BY DEF Anew, IsDatabase
<1>2. /\ tables[t] = [has |-> has, required |-> required]
      /\ \A u \in Tables \ {t} : tables[u] = d.tables[u]
      /\ tables = [transactions |-> tables["transactions"], fees |-> tables["fees"]]
  BY DEF IsDatabase, Tables
<1> HIDE DEF tables, fees, rows, e
<1>3. /\ IsDatabase(e) /\ e.tables = tables /\ e.fees = fees /\ e.row = rows
      /\ e.holds = d.holds /\ e.day = d.day /\ e.wide = d.wide /\ e.ok = d.ok
  BY <1>1, <1>2 DEF IsDatabase
<1> QED BY <1>2, <1>3 DEF fees, rows, e

(* The check that no obligation is paid twice.                              *)
LEMMA CheckFields ==
  ASSUME NEW d, NEW s, IsDatabase(d), s.op = "check"
  PROVE  LET e == Apply(d, s)
         IN  /\ IsDatabase(e)
             /\ e.tables = d.tables /\ e.row = d.row /\ e.fees = d.fees
             /\ e.holds = d.holds /\ e.day = d.day /\ e.wide = d.wide
             /\ e.ok = ~Twice(d, PAID)
<1> DEFINE ok == ~Twice(d, PAID)
           e == Apply(d, s)
<1>1. e = [d EXCEPT !.ok = ok]
  BY DEF Apply
<1> HIDE DEF ok, e
<1>2. /\ IsDatabase(e) /\ e.tables = d.tables /\ e.row = d.row /\ e.fees = d.fees
      /\ e.holds = d.holds /\ e.day = d.day /\ e.wide = d.wide /\ e.ok = ok
  BY <1>1 DEF IsDatabase
<1> QED BY <1>2 DEF ok, e

-----------------------------------------------------------------------------
(* The type invariant.                                                      *)

(* A row of the table as it is.                                             *)
RowSound(d, r) ==
  /\ r = [v |-> r.v, created |-> r.created, updated |-> r.updated]
  /\ DOMAIN r.v = d.tables["transactions"].has
  /\ r.created \in 1 .. d.day /\ r.updated \in r.created .. d.day

(* A database the statements keep: rows of the table's columns, those       *)
(* required with a value.                                                   *)
Sound(d) ==
  /\ IsDatabase(d) /\ d.day \in Nat \ {0} /\ d.ok
  /\ DOMAIN d.row \subseteq Attempts
  /\ \A a \in DOMAIN d.row : RowSound(d, d.row[a])
  /\ d.tables["transactions"].required \subseteq d.tables["transactions"].has
  /\ Filled(d)
  /\ DOMAIN d.fees \subseteq Keys \cup {Version}

(* A column that must have a value is a column.                             *)
LEMMA RequiredAreColumns ==
  ASSUME NEW t, NEW s, t.required \subseteq t.has, Resolves(t, s)
  PROVE  AfterAlter(t, s).required \subseteq AfterAlter(t, s).has
<1> DEFINE gone == {k.col : k \in With(s, {"drop", "rename"})}
           named == {k.to : k \in With(s, {"add", "rename"})}
           kept == {k.to : k \in {l \in With(s, {"rename"}) : l.col \in t.required}}
           asked == {k.to : k \in {l \in With(s, {"add", "require"}) : l.notNull /\ ~l.default}}
<1>1. AfterAlter(t, s).has = (t.has \ gone) \cup named
  BY DEF AfterAlter
<1>2. AfterAlter(t, s).required
        = ((t.required \ gone) \cup kept \cup asked) \ {k.to : k \in With(s, {"relax"})}
  BY DEF AfterAlter
<1>3. kept \subseteq named
  BY DEF With
<1>4. ASSUME NEW k \in With(s, {"add", "require"}) PROVE k.to \in AfterAlter(t, s).has
  <2>1. CASE k.act = "add"
    <3>1. k \in With(s, {"add", "rename"})
      BY <2>1 DEF With
    <3> QED BY <1>1, <3>1
  <2>2. CASE k.act = "require"
    <3>1. k \in With(s, {"require", "relax", "widen", "narrow"})
      BY <2>2 DEF With
    <3> QED BY <3>1 DEF Resolves
  <2> QED BY <2>1, <2>2 DEF With
<1>5. asked \subseteq AfterAlter(t, s).has
  BY <1>4
<1> HIDE DEF gone, named, kept, asked
<1> QED BY <1>1, <1>2, <1>3, <1>5

(* An ALTER that was not refused,                                           *)
LEMMA AlterSound ==
  ASSUME NEW d, NEW s, Sound(d), s.table \in Tables, AlterIn(d, s).ok
  PROVE  Sound(AlterIn(d, s))
<1> DEFINE e == AlterIn(d, s)
           here == AfterAlter(d.tables[s.table], s)
<1>1. /\ IsDatabase(e)
      /\ e.tables[s.table] = here
      /\ \A t \in Tables \ {s.table} : e.tables[t] = d.tables[t]
      /\ e.row = IF s.table # "transactions" THEN d.row
                 ELSE [a \in DOMAIN d.row |-> [d.row[a] EXCEPT !.v = Moved(@, here.has, s)]]
      /\ e.fees = d.fees /\ e.day = d.day
      /\ e.ok = (Resolves(d.tables[s.table], s) /\ Filled(e) /\ Fits(e, s))
  BY AlterFields DEF Sound
<1>2. Resolves(d.tables[s.table], s) /\ Filled(e)
  BY <1>1
<1> HIDE DEF e, here
<1>3. e.ok
  BY DEF e
<1>4. CASE s.table # "transactions"
  <2>1. e.tables["transactions"] = d.tables["transactions"] /\ e.row = d.row
    BY <1>1, <1>4 DEF Tables
  <2> QED BY <1>1, <1>2, <1>3, <2>1 DEF Sound, RowSound, e
<1>5. CASE s.table = "transactions"
  <2>1. e.tables["transactions"] = here /\ here.required \subseteq here.has
    BY <1>1, <1>2, <1>5, RequiredAreColumns DEF Sound, here
  <2>2. ASSUME NEW a \in DOMAIN e.row PROVE RowSound(e, e.row[a])
    <3>1. a \in DOMAIN d.row /\ e.row[a] = [d.row[a] EXCEPT !.v = Moved(@, here.has, s)]
      BY <1>1, <1>5
    <3>2. DOMAIN Moved(d.row[a].v, here.has, s) = here.has
      BY DEF Moved
    <3>3. RowSound(d, d.row[a])
      BY <3>1 DEF Sound
    <3>4. /\ e.row[a].v = Moved(d.row[a].v, here.has, s) /\ e.row[a].created = d.row[a].created
          /\ e.row[a].updated = d.row[a].updated
          /\ e.row[a] = [v |-> e.row[a].v, created |-> e.row[a].created,
                         updated |-> e.row[a].updated]
      BY <3>1, <3>3 DEF RowSound
    <3> QED BY <1>1, <2>1, <3>2, <3>3, <3>4 DEF RowSound
  <2>3. DOMAIN e.row = DOMAIN d.row
    BY <1>1, <1>5
  <2> QED BY <1>1, <1>2, <1>3, <2>1, <2>2, <2>3 DEF Sound, e
<1> QED BY <1>4, <1>5

(* What an UPDATE writes keeps the columns, and the trigger keeps time.     *)
LEMMA TouchSound ==
  ASSUME NEW d, NEW r, NEW v, RowSound(d, r), DOMAIN v = DOMAIN r.v, d.day \in Nat \ {0}
  PROVE  RowSound(d, Touch(d, r, v)) /\ Touch(d, r, v).v = v
<1> DEFINE cancels == /\ v["transaction_status"] = "cancelled"
                      /\ r.v["transaction_status"] # "cancelled"
           stamp == IF d.holds /\ cancels THEN r.updated ELSE d.day
           u == Touch(d, r, v)
<1>0. u = [r EXCEPT !.v = v, !.updated = stamp] /\ stamp \in {r.updated, d.day}
  BY DEF Touch, RowSound
<1> HIDE DEF stamp
<1>1. /\ u = [v |-> u.v, created |-> u.created, updated |-> u.updated]
      /\ u.v = v /\ u.created = r.created /\ u.updated \in {r.updated, d.day}
  BY <1>0 DEF RowSound
<1> HIDE DEF u
<1>2. r.created \in Int /\ r.created <= d.day /\ r.created >= 1
  BY DEF RowSound
<1>3. u.updated \in u.created .. d.day /\ u.created \in 1 .. d.day
  BY <1>1, <1>2 DEF RowSound
<1>4. DOMAIN u.v = d.tables["transactions"].has
  BY <1>1 DEF RowSound
<1>5. RowSound(d, u)
  BY <1>1, <1>3, <1>4 DEF RowSound
<1> QED BY <1>1, <1>5 DEF u

(* an UPDATE that was not refused,                                          *)
LEMMA UpdateSound ==
  ASSUME NEW d, NEW how, Sound(d), UpdateIn(d, how).ok
  PROVE  Sound(UpdateIn(d, how))
<1> DEFINE e == UpdateIn(d, how)
<1>1. /\ IsDatabase(e)
      /\ e.tables = d.tables /\ e.day = d.day
      /\ how = "fee_key = fee_id" =>
           /\ e.row = d.row /\ e.ok = d.ok
           /\ e.fees = [id \in DOMAIN d.fees |-> [d.fees[id] EXCEPT !.key = id]]
      /\ how # "fee_key = fee_id" =>
           /\ e.fees = d.fees /\ e.ok = Filled(e)
           /\ e.row = [a \in DOMAIN d.row |->
                IF Meets(how, d, a)
                THEN Touch(d, d.row[a], Written(how, d, d.row[a].v)) ELSE d.row[a]]
  BY UpdateFields DEF Sound
<1> HIDE DEF e
<1>2. e.ok
  BY DEF e
<1>3. CASE how = "fee_key = fee_id"
  <2>1. DOMAIN e.fees = DOMAIN d.fees /\ e.row = d.row /\ e.tables = d.tables
    BY <1>1, <1>3
  <2>2. \A a \in DOMAIN e.row : RowSound(e, e.row[a])
    BY <1>1, <2>1 DEF Sound, RowSound
  <2>3. Filled(e)
    BY <2>1 DEF Sound, Filled
  <2>4. Sound(e)
    BY <1>1, <1>2, <2>1, <2>2, <2>3 DEF Sound
  <2> QED BY <2>4 DEF e
<1>4. CASE how # "fee_key = fee_id"
  <2>1. ASSUME NEW a \in DOMAIN e.row PROVE RowSound(e, e.row[a])
    <3>1. a \in DOMAIN d.row /\ RowSound(d, d.row[a])
      BY <1>1, <1>4 DEF Sound
    <3>2. DOMAIN Written(how, d, d.row[a].v) = DOMAIN d.row[a].v
      BY DEF Written
    <3>3. RowSound(d, Touch(d, d.row[a], Written(how, d, d.row[a].v)))
      BY <3>1, <3>2, TouchSound DEF Sound
    <3>4. RowSound(d, e.row[a])
      BY <1>1, <1>4, <3>1, <3>3
    <3> QED BY <1>1, <3>4 DEF RowSound
  <2>2. DOMAIN e.row = DOMAIN d.row /\ e.fees = d.fees /\ Filled(e)
    BY <1>1, <1>2, <1>4
  <2> QED BY <1>1, <1>2, <2>1, <2>2 DEF Sound, e
<1> QED BY <1>3, <1>4

(* and so any statement.                                                    *)
LEMMA ApplySound ==
  ASSUME NEW d, NEW s, Sound(d), IsStatement(s), Apply(d, s).ok
  PROVE  Sound(Apply(d, s))
<1> DEFINE e == Apply(d, s)
<1>1. CASE s.op = "alter"
  <2>1. e = AlterIn(d, s) /\ s.table \in Tables
    BY <1>1 DEF Apply, IsStatement
  <2> QED BY <2>1, AlterSound
<1>2. CASE s.op = "update"
  <2>1. e = UpdateIn(d, s.how)
    BY <1>2 DEF Apply
  <2> QED BY <2>1, UpdateSound
<1>3. CASE s.op = "trigger"
  <2>1. e = [d EXCEPT !.holds = s.holds]
    BY <1>3 DEF Apply
  <2> HIDE DEF e
  <2>2. /\ IsDatabase(e) /\ e.tables = d.tables /\ e.row = d.row /\ e.fees = d.fees
        /\ e.day = d.day /\ e.ok = d.ok
    BY <2>1 DEF Sound, IsDatabase
  <2>3. Sound(e)
    BY <2>2 DEF Sound, RowSound, Filled
  <2> QED BY <2>3 DEF e
<1>4. CASE s.op = "other"
  BY <1>4 DEF Apply
<1>5. CASE s.op \in {"create", "drop"}
  <2> DEFINE has == IF s.op = "create" THEN s.has ELSE {}
             required == IF s.op = "create" THEN s.required ELSE {}
             new == Anew(d, s.table, has, required)
  <2>1. e = new \/ e = [new EXCEPT !.ok = d.tables[s.table].has = {}]
    BY <1>5 DEF Apply
  <2>2. s.table \in Tables /\ required \subseteq has
    BY <1>5 DEF IsStatement
  <2> HIDE DEF has, required
  <2>3. /\ IsDatabase(new)
        /\ new.tables[s.table] = [has |-> has, required |-> required]
        /\ \A u \in Tables \ {s.table} : new.tables[u] = d.tables[u]
        /\ new.row = IF s.table = "transactions" THEN <<>> ELSE d.row
        /\ new.fees = IF s.table = "fees" THEN <<>> ELSE d.fees
        /\ new.day = d.day
    BY <2>2, AnewFields DEF Sound
  <2> HIDE DEF new, e
  <2>4. /\ IsDatabase(e) /\ e.tables = new.tables /\ e.row = new.row /\ e.fees = new.fees
        /\ e.day = d.day
    BY <2>1, <2>3 DEF IsDatabase
  <2>5. DOMAIN (<<>>) = {}
    OBVIOUS
  <2>6. CASE s.table = "transactions"
    <3>1. e.tables["transactions"] = [has |-> has, required |-> required] /\ DOMAIN e.row = {}
          /\ e.fees = d.fees
      BY <2>3, <2>4, <2>5, <2>6
    <3>2. Sound(e)
      BY <2>2, <2>4, <3>1 DEF Sound, Filled, e
    <3> QED BY <3>2 DEF e
  <2>7. CASE s.table = "fees"
    <3>1. e.tables["transactions"] = d.tables["transactions"] /\ e.row = d.row /\ DOMAIN e.fees = {}
      BY <2>3, <2>4, <2>5, <2>7 DEF Tables
    <3>2. Sound(e)
      BY <2>4, <3>1 DEF Sound, RowSound, Filled, e
    <3> QED BY <3>2 DEF e
  <2> QED BY <2>2, <2>6, <2>7 DEF Tables
<1>6. CASE s.op = "check"
  <2>1. /\ IsDatabase(e) /\ e.tables = d.tables /\ e.row = d.row /\ e.fees = d.fees
        /\ e.day = d.day
    BY <1>6, CheckFields DEF Sound
  <2>2. e.ok
    OBVIOUS
  <2> HIDE DEF e
  <2>3. Sound(e)
    BY <2>1, <2>2 DEF Sound, RowSound, Filled
  <2> QED BY <2>3 DEF e
<1> QED BY <1>1, <1>2, <1>3, <1>4, <1>5, <1>6 DEF IsStatement

(* A sequence of statements, as migrations and drafts are.                  *)
AreStatements(ss) == /\ Len(ss) \in Nat /\ DOMAIN ss = 1 .. Len(ss)
                     /\ \A i \in 1 .. Len(ss) : IsStatement(ss[i])

(* A migration that was not refused.                                        *)
LEMMA RunSound ==
  ASSUME NEW d, NEW ss, Sound(d), AreStatements(ss), Run(d, ss).ok
  PROVE  Sound(Run(d, ss))
<1> DEFINE n == Len(ss)
<1>1. n \in Nat
  BY DEF AreStatements
<1>2. PICK f : /\ f[0] = d /\ f[n] = Run(d, ss)
               /\ \A i \in 0 .. n : f[i].ok
               /\ \A i \in 1 .. n : f[i] = Apply(f[i - 1], ss[i])
  BY <1>1, RunApplies
<1> DEFINE I == {i \in Nat : i <= n => Sound(f[i])}
<1>3. 0 \in I
  BY <1>2
<1>4. ASSUME NEW i \in I PROVE i + 1 \in I
  <2>1. SUFFICES ASSUME i + 1 <= n PROVE Sound(f[i + 1])
    OBVIOUS
  <2>2. i + 1 \in 1 .. n /\ i + 1 \in 0 .. n /\ i + 1 - 1 = i /\ Sound(f[i])
    BY <1>1, <1>4, <2>1
  <2>3. f[i + 1] = Apply(f[i], ss[i + 1]) /\ Apply(f[i], ss[i + 1]).ok /\ IsStatement(ss[i + 1])
    BY <1>2, <2>2 DEF AreStatements
  <2> QED BY <2>2, <2>3, ApplySound
<1>5. I = Nat
  BY <1>3, <1>4, Counting
<1> HIDE DEF n
<1>6. Sound(f[n])
  BY <1>1, <1>5
<1> QED BY <1>2, <1>6

-----------------------------------------------------------------------------
(* The columns of both tables, and what a statement makes of them.          *)

(* The columns of every table.                                              *)
Columns(d) == [t \in Tables |-> d.tables[t].has]

(* What a statement makes of them.                                          *)
ColumnsAfter(h, s) ==
  IF s.op = "create" THEN [h EXCEPT ![s.table] = s.has]
  ELSE IF s.op = "drop" THEN [h EXCEPT ![s.table] = {}]
  ELSE IF s.op = "alter"
  THEN [h EXCEPT ![s.table] = (h[s.table] \ {k.col : k \in With(s, {"drop", "rename"})})
                                 \cup {k.to : k \in With(s, {"add", "rename"})}]
  ELSE h

(* It does.                                                                 *)
LEMMA ApplyColumns ==
  ASSUME NEW d, NEW s, IsDatabase(d), IsStatement(s)
  PROVE  /\ IsDatabase(Apply(d, s))
         /\ Columns(Apply(d, s)) = ColumnsAfter(Columns(d), s)
<1> DEFINE e == Apply(d, s)
<1>1. CASE s.op = "alter"
  <2> DEFINE b == AlterIn(d, s)
             gone == {k.col : k \in With(s, {"drop", "rename"})}
             new == {k.to : k \in With(s, {"add", "rename"})}
             has == (d.tables[s.table].has \ gone) \cup new
  <2>1. s.table \in Tables
    BY <1>1 DEF IsStatement
  <2>2. /\ IsDatabase(b)
        /\ b.tables[s.table] = AfterAlter(d.tables[s.table], s)
        /\ \A t \in Tables \ {s.table} : b.tables[t] = d.tables[t]
    BY <2>1, AlterTables
  <2> HIDE DEF b
  <2>3. b.tables[s.table].has = has
    BY <2>2 DEF AfterAlter
  <2>4. ColumnsAfter(Columns(d), s)
          = [Columns(d) EXCEPT ![s.table] = (Columns(d)[s.table] \ gone) \cup new]
    BY <1>1 DEF ColumnsAfter
  <2> HIDE DEF gone, new
  <2>5. Columns(d)[s.table] = d.tables[s.table].has
    BY <2>1 DEF Columns
  <2>6. [Columns(d) EXCEPT ![s.table] = (Columns(d)[s.table] \ gone) \cup new]
          = [Columns(d) EXCEPT ![s.table] = has]
    BY <2>5
  <2> HIDE DEF has
  <2>7. Columns(b) = [Columns(d) EXCEPT ![s.table] = has]
    BY <2>1, <2>2, <2>3 DEF Columns
  <2>8. Apply(d, s) = b
    BY <1>1 DEF Apply, b
  <2> QED BY <2>2, <2>4, <2>6, <2>7, <2>8
<1>2. CASE s.op = "update"
  <2>1. e = UpdateIn(d, s.how)
    BY <1>2 DEF Apply
  <2> HIDE DEF e
  <2>2. IsDatabase(e) /\ e.tables = d.tables
    BY <2>1, UpdateFields
  <2>3. ColumnsAfter(Columns(d), s) = Columns(d)
    BY <1>2 DEF ColumnsAfter
  <2>4. Columns(e) = Columns(d)
    BY <2>2 DEF Columns
  <2> QED BY <2>2, <2>3, <2>4 DEF e
<1>3. CASE s.op \in {"trigger", "other"}
  <2>1. e = d \/ e = [d EXCEPT !.holds = s.holds]
    BY <1>3 DEF Apply
  <2> HIDE DEF e
  <2>2. IsDatabase(e) /\ e.tables = d.tables
    BY <2>1 DEF IsDatabase
  <2>3. Columns(e) = ColumnsAfter(Columns(d), s)
    BY <1>3, <2>2 DEF Columns, ColumnsAfter
  <2> QED BY <2>2, <2>3 DEF e
<1>4. CASE s.op \in {"create", "drop"}
  <2> DEFINE has == IF s.op = "create" THEN s.has ELSE {}
             required == IF s.op = "create" THEN s.required ELSE {}
             new == Anew(d, s.table, has, required)
  <2>1. e = new \/ e = [new EXCEPT !.ok = d.tables[s.table].has = {}]
    BY <1>4 DEF Apply
  <2>2. s.table \in Tables
    BY <1>4 DEF IsStatement
  <2> HIDE DEF has, required
  <2>3. /\ IsDatabase(new)
        /\ new.tables[s.table] = [has |-> has, required |-> required]
        /\ \A u \in Tables \ {s.table} : new.tables[u] = d.tables[u]
    BY <2>2, AnewFields
  <2> HIDE DEF new, e
  <2>4. IsDatabase(e) /\ e.tables = new.tables
    BY <2>1, <2>3 DEF IsDatabase
  <2>5. e.tables[s.table].has = has /\ \A u \in Tables \ {s.table} : e.tables[u] = d.tables[u]
    BY <2>3, <2>4
  <2>6. Columns(e) = [Columns(d) EXCEPT ![s.table] = has]
    BY <2>2, <2>5 DEF Columns
  <2>7. ColumnsAfter(Columns(d), s) = [Columns(d) EXCEPT ![s.table] = has]
    BY <1>4 DEF ColumnsAfter, has
  <2> QED BY <2>4, <2>6, <2>7 DEF e
<1>5. CASE s.op = "check"
  <2>1. IsDatabase(e) /\ e.tables = d.tables
    BY <1>5, CheckFields
  <2> HIDE DEF e
  <2>2. Columns(e) = ColumnsAfter(Columns(d), s)
    BY <1>5, <2>1 DEF Columns, ColumnsAfter
  <2> QED BY <2>1, <2>2 DEF e
<1> QED BY <1>1, <1>2, <1>3, <1>4, <1>5 DEF IsStatement

(* The columns of both tables, the portal's and those of the fees.          *)
Sets(portal, fees) == [t \in Tables |-> IF t = "fees" THEN fees ELSE portal]

(* Each table on its own.                                                   *)
LEMMA SetsApart ==
  ASSUME NEW p, NEW q, NEW r, NEW s
  PROVE  (Sets(p, q) = Sets(r, s)) <=> (p = r /\ q = s)
BY DEF Sets, Tables

(* What an ALTER of these clauses takes away, and what it adds.             *)
Gone(clauses)  == {k.col : k \in {l \in clauses : l.act \in {"drop", "rename"}}}
Found(clauses) == {k.to : k \in {l \in clauses : l.act \in {"add", "rename"}}}

(* What becomes of the columns p.                                           *)
Makes(p, clauses, r) == r = (p \ Gone(clauses)) \cup Found(clauses)

(* One statement at a time.                                                 *)
LEMMA AlteredPortal ==
  ASSUME NEW p, NEW q, NEW clauses, NEW r, Makes(p, clauses, r)
  PROVE  ColumnsAfter(Sets(p, q), Alter(T, clauses)) = Sets(r, q)
<1>1. ASSUME NEW t
      PROVE  ColumnsAfter(Sets(p, q), Alter(t, clauses))
               = [Sets(p, q) EXCEPT ![t] =
                    (Sets(p, q)[t] \ Gone(clauses)) \cup Found(clauses)]
  BY DEF Alter, ColumnsAfter, With, Gone, Found
<1>2. [Sets(p, q) EXCEPT ![T] = (Sets(p, q)[T] \ Gone(clauses)) \cup Found(clauses)]
        = Sets(r, q)
  BY DEF Sets, Tables, T, Makes
<1> QED BY <1>1, <1>2

(* and of the fees.                                                         *)
LEMMA AlteredFees ==
  ASSUME NEW p, NEW q, NEW clauses, NEW r, Makes(q, clauses, r)
  PROVE  ColumnsAfter(Sets(p, q), Alter("fees", clauses)) = Sets(p, r)
<1>1. ASSUME NEW t
      PROVE  ColumnsAfter(Sets(p, q), Alter(t, clauses))
               = [Sets(p, q) EXCEPT ![t] =
                    (Sets(p, q)[t] \ Gone(clauses)) \cup Found(clauses)]
  BY DEF Alter, ColumnsAfter, With, Gone, Found
<1>2. [Sets(p, q) EXCEPT !["fees"] =
         (Sets(p, q)["fees"] \ Gone(clauses)) \cup Found(clauses)] = Sets(p, r)
  BY DEF Sets, Tables, Makes
<1> QED BY <1>1, <1>2

(* An ALTER of a table is a statement.                                      *)
LEMMA AlterStatement ==
  ASSUME NEW t \in Tables, NEW clauses
  PROVE  IsStatement(Alter(t, clauses))
BY DEF Alter, IsStatement

(* The statements that touch no column.                                     *)
LEMMA Quiet ==
  ASSUME NEW h, NEW s,
         s = Other \/ s = Check \/ (\E how : s = Update(how)) \/ (\E b : s = Trigger(b))
  PROVE  IsStatement(s) /\ ColumnsAfter(h, s) = h
BY DEF Other, Check, Update, Trigger, IsStatement, ColumnsAfter

(* A table created, and one dropped.                                        *)
LEMMA Created ==
  ASSUME NEW p, NEW q, NEW has, NEW required \in SUBSET has
  PROVE  /\ \A t \in Tables : /\ IsStatement(Create(t, has, required))
                               /\ IsStatement(DropTable(t))
         /\ ColumnsAfter(Sets(p, q), Create(T, has, required)) = Sets(has, q)
         /\ ColumnsAfter(Sets(p, q), Create("fees", has, required)) = Sets(p, has)
         /\ ColumnsAfter(Sets(p, q), DropTable(T)) = Sets({}, q)
         /\ ColumnsAfter(Sets(p, q), DropTable("fees")) = Sets(p, {})
BY DEF Create, DropTable, IsStatement, ColumnsAfter, Sets, Tables, T

-----------------------------------------------------------------------------
(* What the columns say of whether a statement is accepted, rows aside.     *)
Resolved(has, clauses) == Resolves([has |-> has, required |-> {}], Alter(T, clauses))
(* The statements the columns accept: a new table, clauses that resolve.    *)
Works(h, s) ==
  /\ s.op = "create" => h[s.table] = {}
  /\ s.op = "alter" => Resolved(h[s.table], s.clauses)

(* What it makes of the required columns of "transactions".                 *)
Asked(R, s) == AfterAlter([has |-> {}, required |-> R], s).required
(* The required columns of the portal's table after any statement.          *)
RequiredAfter(R, s) ==
  IF s.op = "create" /\ s.table = T THEN s.required
  ELSE IF s.op = "drop" /\ s.table = T THEN {}
  ELSE IF s.op = "alter" /\ s.table = T THEN Asked(R, s)
  ELSE R

(* The schema: the columns of both tables, the required ones of the first.  *)
State(p, q, R) == [has |-> Sets(p, q), required |-> R]

(* A statement the columns accept, and the schema it leaves.                *)
Step(x, s, y) ==
  /\ IsStatement(s) /\ Works(x.has, s)
  /\ ColumnsAfter(x.has, s) = y.has /\ RequiredAfter(x.required, s) = y.required

(* What r is to p: grown by C, or shrunk by C, or with a column renamed.    *)
Grown(p, C, r)       == C \cap p = {} /\ r = p \cup C
Shrunk(p, C, r)      == C \subseteq p /\ r = p \ C
Swapped(p, c, to, r) == c \in p /\ to \notin p /\ r = (p \ {c}) \cup {to}

(* What grows one way shrinks the other, and a renaming is undone by one.   *)
LEMMA ThereAndBack ==
  /\ \A p, C, r : Grown(p, C, r) <=> Shrunk(r, C, p)
  /\ \A p, c, to, r : Swapped(p, c, to, r) => Swapped(r, to, c, p)
BY DEF Grown, Shrunk, Swapped

(* An ALTER of either table.                                                *)
LEMMA AlterPortalStep ==
  ASSUME NEW p, NEW q, NEW clauses, NEW r, NEW R, NEW Q,
         Resolved(p, clauses), Makes(p, clauses, r), Asked(R, Alter(T, clauses)) = Q
  PROVE  Step(State(p, q, R), Alter(T, clauses), State(r, q, Q))
<1>1. Sets(p, q)[T] = p /\ T \in Tables
  BY DEF Sets, Tables, T
<1>2. /\ Alter(T, clauses).op = "alter" /\ Alter(T, clauses).table = T
      /\ Alter(T, clauses).clauses = clauses
  BY DEF Alter
<1>3. Works(Sets(p, q), Alter(T, clauses))
  BY <1>1, <1>2 DEF Works
<1>4. RequiredAfter(R, Alter(T, clauses)) = Q
  BY <1>2 DEF RequiredAfter
<1>5. /\ State(p, q, R).has = Sets(p, q) /\ State(p, q, R).required = R
      /\ State(r, q, Q).has = Sets(r, q) /\ State(r, q, Q).required = Q
  BY DEF State
<1> QED BY <1>1, <1>3, <1>4, <1>5, AlteredPortal, AlterStatement DEF Step

(* The same of the fees, which the required columns do not cover.           *)
LEMMA AlterFeesStep ==
  ASSUME NEW p, NEW q, NEW clauses, NEW r, NEW R,
         Resolved(q, clauses), Makes(q, clauses, r)
  PROVE  Step(State(p, q, R), Alter("fees", clauses), State(p, r, R))
<1>1. Sets(p, q)["fees"] = q /\ "fees" \in Tables
  BY DEF Sets, Tables
<1>2. /\ Alter("fees", clauses).op = "alter" /\ Alter("fees", clauses).table = "fees"
      /\ Alter("fees", clauses).clauses = clauses
  BY DEF Alter
<1>3. Works(Sets(p, q), Alter("fees", clauses))
  BY <1>1, <1>2 DEF Works
<1>4. RequiredAfter(R, Alter("fees", clauses)) = R
  BY <1>2 DEF RequiredAfter, T
<1>5. /\ State(p, q, R).has = Sets(p, q) /\ State(p, q, R).required = R
      /\ State(p, r, R).has = Sets(p, r) /\ State(p, r, R).required = R
  BY DEF State
<1> QED BY <1>1, <1>3, <1>4, <1>5, AlteredFees, AlterStatement DEF Step

(* The required columns without those of C.                                 *)
Left(R, C, Q) == Q = R \ C

(* Columns the table has not are added, those it has dropped or renamed.    *)
Adds(C)        == {Add(c) : c \in C}
Drops(C)       == {DropColumn(c) : c \in C}
Renames(c, to) == {Rename(c, to)}

(* ADD COLUMN.                                                              *)
LEMMA AddStep ==
  ASSUME NEW p, NEW q, NEW C, NEW r, NEW R
  PROVE  /\ Grown(p, C, r) => Step(State(p, q, R), Alter(T, Adds(C)), State(r, q, R))
         /\ Grown(q, C, r) => Step(State(p, q, R), Alter("fees", Adds(C)), State(p, r, R))
<1>1. \A c : Add(c).act = "add" /\ Add(c).to = c /\ ~Add(c).notNull
  BY DEF Add, Clause
<1>2. \A has : Grown(has, C, r) => Resolved(has, Adds(C))
  BY <1>1 DEF Resolved, Resolves, With, Alter, Grown, Adds
<1>3. \A has : Grown(has, C, r) => Makes(has, Adds(C), r)
  <2>1. Gone(Adds(C)) = {} /\ Found(Adds(C)) = C
    BY <1>1 DEF Gone, Found, Adds
  <2> QED BY <2>1 DEF Grown, Makes
<1>4. Asked(R, Alter(T, Adds(C))) = R
  BY <1>1 DEF Asked, AfterAlter, With, Alter, Adds
<1> QED BY <1>2, <1>3, <1>4, AlterPortalStep, AlterFeesStep

(* DROP COLUMN.                                                             *)
LEMMA DropStep ==
  ASSUME NEW p, NEW q, NEW C, NEW r, NEW R, NEW Q
  PROVE  /\ Shrunk(p, C, r) /\ Left(R, C, Q)
              => Step(State(p, q, R), Alter(T, Drops(C)), State(r, q, Q))
         /\ Shrunk(q, C, r) => Step(State(p, q, R), Alter("fees", Drops(C)), State(p, r, R))
<1>1. \A c : DropColumn(c).act = "drop" /\ DropColumn(c).col = c
  BY DEF DropColumn, Clause
<1>2. \A has : Shrunk(has, C, r) => Resolved(has, Drops(C))
  BY <1>1 DEF Resolved, Resolves, With, Alter, Shrunk, Drops
<1>3. \A has : Shrunk(has, C, r) => Makes(has, Drops(C), r)
  <2>1. Gone(Drops(C)) = C /\ Found(Drops(C)) = {}
    BY <1>1 DEF Gone, Found, Drops
  <2> QED BY <2>1 DEF Shrunk, Makes
<1>4. Left(R, C, Q) => Asked(R, Alter(T, Drops(C))) = Q
  BY <1>1 DEF Asked, AfterAlter, With, Alter, Drops, Left
<1> QED BY <1>2, <1>3, <1>4, AlterPortalStep, AlterFeesStep

(* RENAME COLUMN.                                                           *)
LEMMA RenameStep ==
  ASSUME NEW p, NEW q, NEW c, NEW to, NEW r, NEW R, NEW Q,
         Swapped(p, c, to, r), Swapped(R, c, to, Q)
  PROVE  Step(State(p, q, R), Alter(T, Renames(c, to)), State(r, q, Q))
<1>1. /\ Rename(c, to).act = "rename"
      /\ Rename(c, to).col = c /\ Rename(c, to).to = to
  BY DEF Rename, Clause
<1>2. Resolved(p, Renames(c, to))
  BY <1>1 DEF Resolved, Resolves, With, Alter, Swapped, Renames
<1>3. Makes(p, Renames(c, to), r)
  <2>1. Gone(Renames(c, to)) = {c} /\ Found(Renames(c, to)) = {to}
    BY <1>1 DEF Gone, Found, Renames
  <2> QED BY <2>1 DEF Swapped, Makes
<1>4. Asked(R, Alter(T, Renames(c, to))) = Q
  BY <1>1 DEF Asked, AfterAlter, With, Alter, Renames, Swapped
<1> QED BY <1>2, <1>3, <1>4, AlterPortalStep

(* A column the table has is made to be required, or not, or longer.        *)
Changes(k) == {k}
Changed(R, k) == IF k.act = "require" THEN R \cup {k.to}
                 ELSE IF k.act = "relax" THEN R \ {k.to} ELSE R

(* SET NOT NULL, DROP NOT NULL and a new length.                            *)
LEMMA ChangeStep ==
  ASSUME NEW p, NEW q, NEW c, NEW n, NEW k \in {SetNotNull(c), DropNotNull(c), SetLength(c, n)},
         NEW R, NEW Q
  PROVE  /\ c \in p /\ Changed(R, k) = Q
              => Step(State(p, q, R), Alter(T, Changes(k)), State(p, q, Q))
         /\ c \in q => Step(State(p, q, R), Alter("fees", Changes(k)), State(p, q, R))
<1>1. /\ k.act \notin {"drop", "rename", "add"} /\ k.to = c /\ ~k.default
      /\ k.act = "require" => k.notNull
  BY DEF SetNotNull, DropNotNull, SetLength, Clause
<1>2. \A has : c \in has => Resolved(has, Changes(k))
  <2> DEFINE s == Alter(T, Changes(k))
  <2>1. /\ With(s, {"drop", "rename"}) = {} /\ With(s, {"add", "rename"}) = {}
        /\ \A acts : With(s, acts) \subseteq {k}
    BY <1>1 DEF With, Alter, Changes
  <2> HIDE DEF s
  <2>2. \A has : AfterAlter([has |-> has, required |-> {}], s).has = has
    BY <2>1 DEF AfterAlter
  <2>3. \A has : c \in has => Resolves([has |-> has, required |-> {}], s)
    BY <1>1, <2>1, <2>2 DEF Resolves
  <2> QED BY <2>3 DEF Resolved, s
<1>3. \A has : Makes(has, Changes(k), has)
  <2>1. Gone(Changes(k)) = {} /\ Found(Changes(k)) = {}
    BY <1>1 DEF Gone, Found, Changes
  <2> QED BY <2>1 DEF Makes
<1>4. Asked(R, Alter(T, Changes(k))) = Changed(R, k)
  <2> DEFINE s == Alter(T, Changes(k))
             asked == {l.to : l \in {m \in With(s, {"add", "require"}) : m.notNull /\ ~m.default}}
             relaxed == {l.to : l \in With(s, {"relax"})}
  <2>1. /\ With(s, {"drop", "rename"}) = {} /\ With(s, {"rename"}) = {}
        /\ asked = (IF k.act = "require" THEN {k.to} ELSE {})
        /\ relaxed = (IF k.act = "relax" THEN {k.to} ELSE {})
    BY <1>1 DEF With, Alter, Changes
  <2>2. Asked(R, s) = (R \cup asked) \ relaxed
    BY <2>1 DEF Asked, AfterAlter
  <2> HIDE DEF asked, relaxed
  <2> QED BY <2>1, <2>2 DEF Changed, s
<1> QED BY <1>2, <1>3, <1>4, AlterPortalStep, AlterFeesStep

(* The clauses as the migrations write them.                                *)
LEMMA Clauses ==
  /\ \A c, t : Alter(t, {Add(c)}) = Alter(t, Adds({c}))
  /\ \A b, c, t : Alter(t, {Add(b), Add(c)}) = Alter(t, Adds({b, c}))
  /\ \A c, t : Alter(t, {DropColumn(c)}) = Alter(t, Drops({c}))
  /\ \A b, c, t : Alter(t, {DropColumn(b), DropColumn(c)}) = Alter(t, Drops({b, c}))
<1>1. \A c : {Add(c)} = Adds({c})
  BY DEF Adds
<1>2. \A b, c : {Add(b), Add(c)} = Adds({b, c})
  BY DEF Adds
<1>3. \A c : {DropColumn(c)} = Drops({c})
  BY DEF Drops
<1>4. \A b, c : {DropColumn(b), DropColumn(c)} = Drops({b, c})
  BY DEF Drops
<1> QED BY <1>1, <1>2, <1>3, <1>4 DEF Alter

(* The statements that touch no column, by any name.                        *)
LEMMA QuietStep ==
  ASSUME NEW x
  PROVE  /\ Step(x, Other, x) /\ Step(x, Check, x)
         /\ \A how : Step(x, Update(how), x)
         /\ \A b : Step(x, Trigger(b), x)
BY Quiet DEF Step, Works, RequiredAfter, Other, Check, Update, Trigger

(* CREATE TABLE and DROP TABLE.                                             *)
LEMMA TableStep ==
  ASSUME NEW p, NEW q, NEW R, NEW has, NEW required \in SUBSET has
  PROVE  /\ Step(State({}, q, R), Create(T, has, required), State(has, q, required))
         /\ Step(State(p, {}, R), Create("fees", has, required), State(p, has, R))
         /\ Step(State(p, q, R), DropTable(T), State({}, q, {}))
         /\ Step(State(p, q, R), DropTable("fees"), State(p, {}, R))
<1>1. /\ Works(Sets({}, q), Create(T, has, required))
      /\ Works(Sets(p, {}), Create("fees", has, required))
      /\ \A t : Works(Sets(p, q), DropTable(t))
  BY DEF Works, Create, DropTable, Sets, Tables, T
<1>2. T \in Tables /\ "fees" \in Tables
  BY DEF T, Tables
<1>3. /\ RequiredAfter(R, Create(T, has, required)) = required
      /\ RequiredAfter(R, Create("fees", has, required)) = R
      /\ RequiredAfter(R, DropTable(T)) = {} /\ RequiredAfter(R, DropTable("fees")) = R
  BY DEF RequiredAfter, Create, DropTable, T
<1>4. \A a, b, Q : State(a, b, Q).has = Sets(a, b) /\ State(a, b, Q).required = Q
  BY DEF State
<1>5. \A a, b : /\ ColumnsAfter(Sets(a, b), Create(T, has, required)) = Sets(has, b)
                /\ ColumnsAfter(Sets(a, b), Create("fees", has, required)) = Sets(a, has)
                /\ ColumnsAfter(Sets(a, b), DropTable(T)) = Sets({}, b)
                /\ ColumnsAfter(Sets(a, b), DropTable("fees")) = Sets(a, {})
  BY Created
<1>6. \A t \in Tables : IsStatement(Create(t, has, required)) /\ IsStatement(DropTable(t))
  BY Created
<1>7. Step(State({}, q, R), Create(T, has, required), State(has, q, required))
  BY <1>1, <1>2, <1>3, <1>4, <1>5, <1>6 DEF Step
<1>8. Step(State(p, {}, R), Create("fees", has, required), State(p, has, R))
  BY <1>1, <1>2, <1>3, <1>4, <1>5, <1>6 DEF Step
<1>9. Step(State(p, q, R), DropTable(T), State({}, q, {}))
  BY <1>1, <1>2, <1>3, <1>4, <1>5, <1>6 DEF Step
<1>10. Step(State(p, q, R), DropTable("fees"), State(p, {}, R))
  BY <1>1, <1>2, <1>3, <1>4, <1>5, <1>6 DEF Step
<1> QED BY <1>7, <1>8, <1>9, <1>10

-----------------------------------------------------------------------------
(* A migration leads from columns to columns.                               *)
Leads(h, ss, g) ==
  /\ Len(ss) \in Nat /\ DOMAIN ss = 1 .. Len(ss)
  /\ \E H : /\ H[0] = h /\ H[Len(ss)] = g
            /\ \A i \in 1 .. Len(ss) : Step(H[i - 1], ss[i], H[i])

(* As many steps as the migrations have: one,                               *)
LEMMA LeadsOne ==
  ASSUME NEW h0, NEW s1, NEW h1,
         Step(h0, s1, h1)
  PROVE  Leads(h0, <<s1>>, h1)
<1> DEFINE H == [i \in 0 .. 1 |-> CASE i = 0 -> h0 [] i = 1 -> h1]
<1>1. H[0] = h0 /\ H[1] = h1
  OBVIOUS
<1> HIDE DEF H
<1> QED BY <1>1 DEF Leads

(* two,                                                                     *)
LEMMA LeadsTwo ==
  ASSUME NEW h0, NEW s1, NEW h1, NEW s2, NEW h2,
         Step(h0, s1, h1), Step(h1, s2, h2)
  PROVE  Leads(h0, <<s1, s2>>, h2)
<1> DEFINE H == [i \in 0 .. 2 |-> CASE i = 0 -> h0 [] i = 1 -> h1 [] i = 2 -> h2]
<1>1. H[0] = h0 /\ H[1] = h1 /\ H[2] = h2
  OBVIOUS
<1> HIDE DEF H
<1> QED BY <1>1 DEF Leads

(* three,                                                                   *)
LEMMA LeadsThree ==
  ASSUME NEW h0, NEW s1, NEW h1, NEW s2, NEW h2, NEW s3, NEW h3,
         Step(h0, s1, h1), Step(h1, s2, h2), Step(h2, s3, h3)
  PROVE  Leads(h0, <<s1, s2, s3>>, h3)
<1> DEFINE H == [i \in 0 .. 3 |-> CASE i = 0 -> h0 [] i = 1 -> h1 [] i = 2 -> h2
                [] i = 3 -> h3]
<1>1. H[0] = h0 /\ H[1] = h1 /\ H[2] = h2 /\ H[3] = h3
  OBVIOUS
<1> HIDE DEF H
<1> QED BY <1>1 DEF Leads

(* four,                                                                    *)
LEMMA LeadsFour ==
  ASSUME NEW h0, NEW s1, NEW h1, NEW s2, NEW h2, NEW s3, NEW h3, NEW s4, NEW h4,
         Step(h0, s1, h1), Step(h1, s2, h2), Step(h2, s3, h3), Step(h3, s4, h4)
  PROVE  Leads(h0, <<s1, s2, s3, s4>>, h4)
<1> DEFINE H == [i \in 0 .. 4 |-> CASE i = 0 -> h0 [] i = 1 -> h1 [] i = 2 -> h2
                [] i = 3 -> h3 [] i = 4 -> h4]
<1>1. H[0] = h0 /\ H[1] = h1 /\ H[2] = h2 /\ H[3] = h3 /\ H[4] = h4
  OBVIOUS
<1> HIDE DEF H
<1> QED BY <1>1 DEF Leads

(* five,                                                                    *)
LEMMA LeadsFive ==
  ASSUME NEW h0, NEW s1, NEW h1, NEW s2, NEW h2, NEW s3, NEW h3, NEW s4, NEW h4, NEW s5,
         NEW h5,
         Step(h0, s1, h1), Step(h1, s2, h2), Step(h2, s3, h3), Step(h3, s4, h4),
         Step(h4, s5, h5)
  PROVE  Leads(h0, <<s1, s2, s3, s4, s5>>, h5)
<1> DEFINE H == [i \in 0 .. 5 |-> CASE i = 0 -> h0 [] i = 1 -> h1 [] i = 2 -> h2
                [] i = 3 -> h3 [] i = 4 -> h4 [] i = 5 -> h5]
<1>1. H[0] = h0 /\ H[1] = h1 /\ H[2] = h2 /\ H[3] = h3 /\ H[4] = h4 /\ H[5] = h5
  OBVIOUS
<1> HIDE DEF H
<1> QED BY <1>1 DEF Leads

(* six,                                                                     *)
LEMMA LeadsSix ==
  ASSUME NEW h0, NEW s1, NEW h1, NEW s2, NEW h2, NEW s3, NEW h3, NEW s4, NEW h4, NEW s5,
         NEW h5, NEW s6, NEW h6,
         Step(h0, s1, h1), Step(h1, s2, h2), Step(h2, s3, h3), Step(h3, s4, h4),
         Step(h4, s5, h5), Step(h5, s6, h6)
  PROVE  Leads(h0, <<s1, s2, s3, s4, s5, s6>>, h6)
<1> DEFINE H == [i \in 0 .. 6 |-> CASE i = 0 -> h0 [] i = 1 -> h1 [] i = 2 -> h2
                [] i = 3 -> h3 [] i = 4 -> h4 [] i = 5 -> h5 [] i = 6 -> h6]
<1>1. H[0] = h0 /\ H[1] = h1 /\ H[2] = h2 /\ H[3] = h3 /\ H[4] = h4 /\ H[5] = h5
      /\ H[6] = h6
  OBVIOUS
<1> HIDE DEF H
<1> QED BY <1>1 DEF Leads

(* and eight.                                                               *)
LEMMA LeadsEight ==
  ASSUME NEW h0, NEW s1, NEW h1, NEW s2, NEW h2, NEW s3, NEW h3, NEW s4, NEW h4, NEW s5,
         NEW h5, NEW s6, NEW h6, NEW s7, NEW h7, NEW s8, NEW h8,
         Step(h0, s1, h1), Step(h1, s2, h2), Step(h2, s3, h3), Step(h3, s4, h4),
         Step(h4, s5, h5), Step(h5, s6, h6), Step(h6, s7, h7), Step(h7, s8, h8)
  PROVE  Leads(h0, <<s1, s2, s3, s4, s5, s6, s7, s8>>, h8)
<1> DEFINE H == [i \in 0 .. 8 |-> CASE i = 0 -> h0 [] i = 1 -> h1 [] i = 2 -> h2
                [] i = 3 -> h3 [] i = 4 -> h4 [] i = 5 -> h5 [] i = 6 -> h6
                [] i = 7 -> h7 [] i = 8 -> h8]
<1>1. H[0] = h0 /\ H[1] = h1 /\ H[2] = h2 /\ H[3] = h3 /\ H[4] = h4 /\ H[5] = h5
      /\ H[6] = h6 /\ H[7] = h7 /\ H[8] = h8
  OBVIOUS
<1> HIDE DEF H
<1> QED BY <1>1 DEF Leads

-----------------------------------------------------------------------------
(* The columns of each level.                                               *)
P1  == {"fee_name", "fee_id", "fee_amount", "payment_status", "payment_method",
        "transaction_status", "paygov_token"}
P2  == {"fee_id", "payment_status", "payment_method", "transaction_status", "paygov_token"}
P4  == P2 \cup {"transaction_amount"}
P5  == P4 \cup ResponseColumns
P7  == P2 \cup ResponseColumns
P9  == {"fee", "payment_status", "payment_method", "transaction_status", "paygov_token"}
         \cup ResponseColumns
P10 == P9 \cup {"transaction_amount"}
F7  == FeeColumns \cup {"fee_key", "activation_date"}
R1  == {"fee_name", "fee_id", "fee_amount", "payment_status", "payment_method"}
R2  == {"fee_id", "payment_status"}
R4  == R2 \cup {"transaction_amount"}
R9  == {"fee", "payment_status"}
R10 == R9 \cup {"transaction_amount"}

(* The columns and the required columns of each level.                      *)
PortalAt(n) ==
  IF n = 0 THEN {} ELSE IF n = 1 THEN P1 ELSE IF n \in 2 .. 3 THEN P2
  ELSE IF n = 4 THEN P4 ELSE IF n \in 5 .. 6 THEN P5 ELSE IF n \in 7 .. 8 THEN P7
  ELSE IF n = 9 THEN P9 ELSE P10
FeesAt(n) == IF n \in 2 .. 6 THEN FeeColumns ELSE IF n \in 7 .. 8 THEN F7 ELSE {}
RequiredAt(n) ==
  IF n = 0 THEN {} ELSE IF n = 1 THEN R1 ELSE IF n \in 2 .. 3 \/ n \in 7 .. 8 THEN R2
  ELSE IF n \in 4 .. 6 THEN R4 ELSE IF n = 9 THEN R9 ELSE R10
At(n) == State(PortalAt(n), FeesAt(n), RequiredAt(n))

(* How they grow.                                                           *)
LEMMA Growth ==
  /\ Grown(P2, {"fee_name", "fee_amount"}, P1)
  /\ Grown(P2, {"transaction_amount"}, P4)
  /\ Grown(P4, ResponseColumns, P5)
  /\ Grown(P7, {"transaction_amount"}, P5)
  /\ Swapped(P7, "fee_id", "fee", P9)
  /\ Grown(P9, {"transaction_amount"}, P10)
<1>1. Grown(P2, {"fee_name", "fee_amount"}, P1) /\ Grown(P2, {"transaction_amount"}, P4)
  BY DEF Grown, P1, P2, P4
<1>2. Grown(P4, ResponseColumns, P5)
  BY DEF Grown, P2, P4, P5, ResponseColumns
<1>3. Grown(P7, {"transaction_amount"}, P5)
  BY DEF Grown, P2, P4, P5, P7, ResponseColumns
<1>4. Swapped(P7, "fee_id", "fee", P9)
  BY DEF Swapped, P2, P7, P9, ResponseColumns
<1>5. Grown(P9, {"transaction_amount"}, P10)
  BY DEF Grown, P9, P10, ResponseColumns
<1> QED BY <1>1, <1>2, <1>3, <1>4, <1>5

(* How the columns of the fees grow.                                        *)
LEMMA FeesGrowth ==
  LET F6 == FeeColumns \cup {"fee_key"} IN
    /\ Grown(FeeColumns, {"fee_key"}, F6)
    /\ Grown(F6, {"activation_date"}, F7)
    /\ Shrunk(F7, {"activation_date", "fee_key"}, FeeColumns)
BY DEF Grown, Shrunk, FeeColumns, F7

(* The same of the required columns, R3 being those between two statements. *)
R3 == R1 \ {"payment_method"}
R5 == R2 \cup {"payment_method"}
(* How the required columns change.                                         *)
LEMMA RequiredGrowth ==
  /\ Changed(R1, DropNotNull("payment_method")) = R3
  /\ Changed(R2, SetNotNull("payment_method")) = R5
  /\ Changed(R2, SetNotNull("transaction_amount")) = R4
  /\ Changed(R9, SetNotNull("transaction_amount")) = R10
  /\ \A n : Changed(R2, SetLength("paygov_token", n)) = R2
  /\ Left(R3, {"fee_name", "fee_amount"}, R2)
  /\ Left(R4, {"transaction_amount"}, R2)
  /\ Left(R10, {"transaction_amount"}, R9)
  /\ Left(R4, ResponseColumns, R4)
  /\ Swapped(R2, "fee_id", "fee", R9) /\ Swapped(R9, "fee", "fee_id", R2)
  /\ R5 \subseteq R1
<1>1. /\ Changed(R1, DropNotNull("payment_method")) = R3
      /\ Changed(R2, SetNotNull("payment_method")) = R5
      /\ Changed(R2, SetNotNull("transaction_amount")) = R4
      /\ Changed(R9, SetNotNull("transaction_amount")) = R10
      /\ \A n : Changed(R2, SetLength("paygov_token", n)) = R2
  BY DEF Changed, DropNotNull, SetNotNull, SetLength, Clause, R3, R4, R5, R10
<1>2. Left(R3, {"fee_name", "fee_amount"}, R2) /\ R5 \subseteq R1
  BY DEF Left, R1, R2, R3, R5
<1>3. /\ Left(R4, {"transaction_amount"}, R2) /\ Left(R10, {"transaction_amount"}, R9)
      /\ Left(R4, ResponseColumns, R4)
  BY DEF Left, R2, R4, R9, R10, ResponseColumns
<1>4. Swapped(R2, "fee_id", "fee", R9) /\ Swapped(R9, "fee", "fee_id", R2)
  BY DEF Swapped, R2, R9
<1> QED BY <1>1, <1>2, <1>3, <1>4

-----------------------------------------------------------------------------
(* What each migration makes of the columns, up and down.                   *)
LEMMA InitDbLeads ==
  /\ Leads(State({}, {}, {}), InitDb.up, State(P1, {}, R1))
  /\ Leads(State(P1, {}, R1), InitDb.down, State({}, {}, {}))
<1>1. Step(State({}, {}, {}), InitDb.up[1], State(P1, {}, R1))
  <2>1. R1 \in SUBSET P1
    BY DEF R1, P1
  <2> QED BY <2>1, TableStep DEF InitDb, P1, R1
<1>2. Leads(State({}, {}, {}), InitDb.up, State(P1, {}, R1))
  BY <1>1, QuietStep, LeadsThree DEF InitDb
<1>3. Leads(State(P1, {}, R1), InitDb.down, State({}, {}, {}))
  <2>1. Step(State(P1, {}, R1), DropTable(T), State({}, {}, {}))
    BY TableStep
  <2> QED BY <2>1, QuietStep, LeadsTwo DEF InitDb
<1> QED BY <1>2, <1>3

(* The fees get a table of their own.                                       *)
LEMMA CreateFeesLeads ==
  /\ Leads(State(P1, {}, R1), CreateFees.up, State(P2, FeeColumns, R2))
  /\ Leads(State(P2, FeeColumns, R2), CreateFees.down, State(P1, {}, R5))
<1> DEFINE C == {"fee_name", "fee_amount"}
<1>1. /\ "payment_method" \in P1
      /\ Grown(P2, C, P1) /\ Shrunk(P1, C, P2)
  BY Growth, ThereAndBack DEF P1
<1>2. Step(State(P1, {}, R1), CreateFees.up[1], State(P1, FeeColumns, R1))
  BY TableStep DEF CreateFees, FeeColumns
<1>3. Step(State(P1, FeeColumns, R1), Alter(T, {DropNotNull("payment_method")}),
           State(P1, FeeColumns, R3))
  BY <1>1, RequiredGrowth, ChangeStep DEF Changes
<1>4. Step(State(P1, FeeColumns, R3), Alter(T, {DropColumn("fee_name"), DropColumn("fee_amount")}),
           State(P2, FeeColumns, R2))
  BY <1>1, RequiredGrowth, DropStep, Clauses
<1>5. Leads(State(P1, {}, R1), CreateFees.up, State(P2, FeeColumns, R2))
  BY <1>2, <1>3, <1>4, QuietStep, LeadsFive DEF CreateFees
<1>6. Step(State(P2, FeeColumns, R2), Alter(T, {Add("fee_name"), Add("fee_amount")}),
           State(P1, FeeColumns, R2))
  BY <1>1, AddStep, Clauses
<1>7. Step(State(P1, FeeColumns, R2), Alter(T, {SetNotNull("payment_method")}),
           State(P1, FeeColumns, R5))
  BY <1>1, RequiredGrowth, ChangeStep DEF Changes
<1>8. Step(State(P1, FeeColumns, R5), DropTable("fees"), State(P1, {}, R5))
  BY TableStep
<1>9. Leads(State(P2, FeeColumns, R2), CreateFees.down, State(P1, {}, R5))
  BY <1>6, <1>7, <1>8, QuietStep, LeadsSix DEF CreateFees
<1> QED BY <1>5, <1>9

(* Making a token longer or shorter, an index, the trigger, the backlog.    *)
LEMMA QuietLeads ==
  ASSUME NEW q
  PROVE  /\ Leads(State(P2, q, R2), ExpandToken.up, State(P2, q, R2))
         /\ Leads(State(P2, q, R2), ExpandToken.down, State(P2, q, R2))
         /\ \A h : /\ Leads(h, Reindex.up, h) /\ Leads(h, Reindex.down, h)
                   /\ Leads(h, AddProcessed.up, h) /\ Leads(h, AddProcessed.down, h)
                   /\ Leads(h, HoldDay.up, h) /\ Leads(h, HoldDay.down, h)
                   /\ Leads(h, CancelBacklog.up, h) /\ Leads(h, CancelBacklog.down, h)
<1>1. "paygov_token" \in P2
  BY DEF P2
<1>2. /\ Step(State(P2, q, R2), Alter(T, {SetLength("paygov_token", 36)}), State(P2, q, R2))
      /\ Step(State(P2, q, R2), Alter(T, {SetLength("paygov_token", 32)}), State(P2, q, R2))
  BY <1>1, RequiredGrowth, ChangeStep DEF Changes
<1>3. /\ Leads(State(P2, q, R2), ExpandToken.up, State(P2, q, R2))
      /\ Leads(State(P2, q, R2), ExpandToken.down, State(P2, q, R2))
  BY <1>2, LeadsOne DEF ExpandToken
<1>4. ASSUME NEW h
      PROVE  /\ Leads(h, Reindex.up, h) /\ Leads(h, Reindex.down, h)
             /\ Leads(h, AddProcessed.up, h) /\ Leads(h, AddProcessed.down, h)
             /\ Leads(h, HoldDay.up, h) /\ Leads(h, HoldDay.down, h)
             /\ Leads(h, CancelBacklog.up, h) /\ Leads(h, CancelBacklog.down, h)
  BY QuietStep, LeadsOne, LeadsThree DEF Reindex, AddProcessed, HoldDay, CancelBacklog
<1> QED BY <1>3, <1>4

(* An amount, required once it is filled.                                   *)
LEMMA AddAmountLeads ==
  /\ Leads(State(P2, FeeColumns, R2), AddAmount.up, State(P4, FeeColumns, R4))
  /\ Leads(State(P4, FeeColumns, R4), AddAmount.down, State(P2, FeeColumns, R2))
<1> DEFINE C == {"transaction_amount"}
<1>1. Grown(P2, C, P4) /\ Shrunk(P4, C, P2) /\ "transaction_amount" \in P4
  BY Growth, ThereAndBack DEF P4
<1>2. /\ Step(State(P2, FeeColumns, R2), Alter(T, {Add("transaction_amount")}),
              State(P4, FeeColumns, R2))
      /\ Step(State(P4, FeeColumns, R4), Alter(T, {DropColumn("transaction_amount")}),
              State(P2, FeeColumns, R2))
  BY <1>1, AddStep, DropStep, RequiredGrowth, Clauses
<1>3. Step(State(P4, FeeColumns, R2), Alter(T, {SetNotNull("transaction_amount")}),
           State(P4, FeeColumns, R4))
  BY <1>1, RequiredGrowth, ChangeStep DEF Changes
<1>4. Leads(State(P2, FeeColumns, R2), AddAmount.up, State(P4, FeeColumns, R4))
  BY <1>2, <1>3, QuietStep, LeadsFour DEF AddAmount
<1>5. Leads(State(P4, FeeColumns, R4), AddAmount.down, State(P2, FeeColumns, R2))
  BY <1>2, QuietStep, LeadsTwo DEF AddAmount
<1> QED BY <1>4, <1>5

(* What Pay.gov answered.                                                   *)
LEMMA AddResponseLeads ==
  /\ Leads(State(P4, FeeColumns, R4), AddResponse.up, State(P5, FeeColumns, R4))
  /\ Leads(State(P5, FeeColumns, R4), AddResponse.down, State(P4, FeeColumns, R4))
<1>1. Grown(P4, ResponseColumns, P5) /\ Shrunk(P5, ResponseColumns, P4)
  BY Growth, ThereAndBack
<1>2. /\ Step(State(P4, FeeColumns, R4), Alter(T, Adds(ResponseColumns)),
              State(P5, FeeColumns, R4))
      /\ Step(State(P5, FeeColumns, R4), Alter(T, Drops(ResponseColumns)),
              State(P4, FeeColumns, R4))
  BY <1>1, AddStep, DropStep, RequiredGrowth
<1>3. /\ Leads(State(P4, FeeColumns, R4), <<Alter(T, Adds(ResponseColumns))>>,
               State(P5, FeeColumns, R4))
      /\ Leads(State(P5, FeeColumns, R4), <<Alter(T, Drops(ResponseColumns))>>,
               State(P4, FeeColumns, R4))
  BY <1>2, LeadsOne
<1> QED BY <1>3 DEF AddResponse, Adds, Drops

(* Versions of fees, which take the amount with them.                       *)
LEMMA FeeVersioningLeads ==
  /\ Leads(State(P5, FeeColumns, R4), FeeVersioning.up, State(P7, F7, R2))
  /\ Leads(State(P7, F7, R2), FeeVersioning.down, State(P5, FeeColumns, R4))
<1> DEFINE C == {"transaction_amount"}
           F6 == FeeColumns \cup {"fee_key"}
<1>1. /\ Grown(P7, C, P5) /\ Shrunk(P5, C, P7)
      /\ Grown(FeeColumns, {"fee_key"}, F6) /\ Grown(F6, {"activation_date"}, F7)
      /\ Shrunk(F7, {"activation_date", "fee_key"}, FeeColumns)
  BY Growth, FeesGrowth, ThereAndBack
<1>2. "transaction_amount" \in P5 /\ "fee_key" \in F6 /\ "activation_date" \in F7
  BY DEF P4, P5, F7
<1> HIDE DEF F6
<1>3. Step(State(P5, FeeColumns, R4), Alter("fees", {Add("fee_key")}), State(P5, F6, R4))
  BY <1>1, AddStep, Clauses
<1>4. Step(State(P5, F6, R4), Alter("fees", {SetNotNull("fee_key")}), State(P5, F6, R4))
  BY <1>2, RequiredGrowth, ChangeStep DEF Changes
<1>5. Step(State(P5, F6, R4), Alter("fees", {Add("activation_date")}), State(P5, F7, R4))
  BY <1>1, AddStep, Clauses
<1>6. Step(State(P5, F7, R4), Alter("fees", {SetNotNull("activation_date")}), State(P5, F7, R4))
  BY <1>2, RequiredGrowth, ChangeStep DEF Changes
<1>7. /\ Step(State(P5, F7, R4), Alter(T, {DropColumn("transaction_amount")}), State(P7, F7, R2))
      /\ Step(State(P7, F7, R2), Alter(T, {Add("transaction_amount")}), State(P5, F7, R2))
  BY <1>1, AddStep, DropStep, RequiredGrowth, Clauses
<1>8. Step(State(P5, F7, R2), Alter(T, {SetNotNull("transaction_amount")}), State(P5, F7, R4))
  BY <1>2, RequiredGrowth, ChangeStep DEF Changes
<1>9. Step(State(P5, F7, R4), Alter("fees", {DropColumn("activation_date"), DropColumn("fee_key")}),
           State(P5, FeeColumns, R4))
  BY <1>1, RequiredGrowth, DropStep, Clauses
<1> DEFINE a1 == Alter("fees", {Add("fee_key")})
           a2 == Alter("fees", {SetNotNull("fee_key")})
           a3 == Alter("fees", {Add("activation_date")})
           a4 == Alter("fees", {SetNotNull("activation_date")})
           a5 == Alter(T, {DropColumn("transaction_amount")})
           a6 == Alter(T, {Add("transaction_amount")})
           a7 == Alter(T, {SetNotNull("transaction_amount")})
           a8 == Alter("fees", {DropColumn("activation_date"), DropColumn("fee_key")})
           b0 == State(P5, FeeColumns, R4)
           b1 == State(P5, F6, R4)
           b2 == State(P5, F7, R4)
           b3 == State(P7, F7, R2)
           b4 == State(P5, F7, R2)
<1>10. /\ Step(b0, a1, b1) /\ Step(b1, a2, b1) /\ Step(b1, a3, b2) /\ Step(b2, a4, b2)
       /\ Step(b2, a5, b3) /\ Step(b3, a6, b4) /\ Step(b4, a7, b2) /\ Step(b2, a8, b0)
  BY <1>3, <1>4, <1>5, <1>6, <1>7, <1>8, <1>9
<1> HIDE DEF a1, a2, a3, a4, a5, a6, a7, a8, b0, b1, b2, b3, b4
<1>11. \A h : Step(h, Other, h) /\ \A how : Step(h, Update(how), h)
  BY QuietStep
<1>12. Leads(b0, <<a1, Update("fee_key = fee_id"), a2, a3, Update("activation_date = created_at"),
                   a4, Other, a5>>, b3)
  BY <1>10, <1>11, LeadsEight
<1>13. Leads(b3, <<a6, Update("fee amounts"), Update("zero amounts"), a7, Other, a8>>, b0)
  BY <1>10, <1>11, LeadsSix
<1>14. Leads(State(P5, FeeColumns, R4), FeeVersioning.up, State(P7, F7, R2))
  BY <1>12 DEF FeeVersioning, a1, a2, a3, a4, a5, b0, b3
<1>15. Leads(State(P7, F7, R2), FeeVersioning.down, State(P5, FeeColumns, R4))
  BY <1>13 DEF FeeVersioning, a6, a7, a8, b0, b3
<1> QED BY <1>14, <1>15

(* The fees leave the database, and the column is renamed.                  *)
LEMMA DropFeesLeads ==
  /\ Leads(State(P7, F7, R2), DropFees.up, State(P9, {}, R9))
  /\ Leads(State(P9, {}, R9), DropFees.down, State(P7, F7, R2))
<1>1. Swapped(P7, "fee_id", "fee", P9) /\ Swapped(P9, "fee", "fee_id", P7)
  BY Growth, ThereAndBack
<1>2. /\ Step(State(P7, F7, R2), Alter(T, {Rename("fee_id", "fee")}), State(P9, F7, R9))
      /\ Step(State(P9, F7, R9), Alter(T, {Rename("fee", "fee_id")}), State(P7, F7, R2))
  BY <1>1, RequiredGrowth, RenameStep DEF Renames
<1>3. Step(State(P9, F7, R9), DropTable("fees"), State(P9, {}, R9))
  BY TableStep
<1>4. Step(State(P9, {}, R9), DropFees.down[1], State(P9, F7, R9))
  <2>1. {"fee_id", "fee_key", "name", "tcs_app_id", "activation_date"} \in SUBSET F7
    BY DEF F7, FeeColumns
  <2> QED BY <2>1, TableStep DEF DropFees, F7
<1>5. Leads(State(P7, F7, R2), DropFees.up, State(P9, {}, R9))
  BY <1>2, <1>3, QuietStep, LeadsFour DEF DropFees
<1>6. Leads(State(P9, {}, R9), DropFees.down, State(P7, F7, R2))
  BY <1>2, <1>4, QuietStep, LeadsFour DEF DropFees
<1> QED BY <1>5, <1>6

(* The amount comes back.                                                   *)
LEMMA RestoreAmountLeads ==
  /\ Leads(State(P9, {}, R9), RestoreAmount.up, State(P10, {}, R10))
  /\ Leads(State(P10, {}, R10), RestoreAmount.down, State(P9, {}, R9))
<1> DEFINE C == {"transaction_amount"}
<1>1. Grown(P9, C, P10) /\ Shrunk(P10, C, P9) /\ "transaction_amount" \in P10
  BY Growth, ThereAndBack DEF P10
<1>2. /\ Step(State(P9, {}, R9), Alter(T, {Add("transaction_amount")}), State(P10, {}, R9))
      /\ Step(State(P10, {}, R10), Alter(T, {DropColumn("transaction_amount")}),
              State(P9, {}, R9))
  BY <1>1, AddStep, DropStep, RequiredGrowth, Clauses
<1>3. Step(State(P10, {}, R9), Alter(T, {SetNotNull("transaction_amount")}),
           State(P10, {}, R10))
  BY <1>1, RequiredGrowth, ChangeStep DEF Changes
<1>4. Leads(State(P9, {}, R9), RestoreAmount.up, State(P10, {}, R10))
  BY <1>2, <1>3, QuietStep, LeadsFour DEF RestoreAmount
<1>5. Leads(State(P10, {}, R10), RestoreAmount.down, State(P9, {}, R9))
  BY <1>2, QuietStep, LeadsTwo DEF RestoreAmount
<1> QED BY <1>4, <1>5

(* Every migration leads from its level to the next, and back.  (What a     *)
(* rollback requires is at most what the level below requires.)             *)
BackTo(n, R) == State(PortalAt(n), FeesAt(n), R)

(* The columns of each level.                                               *)
LEMMA LevelSets ==
  /\ PortalAt(0) = {} /\ FeesAt(0) = {} /\ RequiredAt(0) = {}
  /\ PortalAt(1) = P1 /\ FeesAt(1) = {} /\ RequiredAt(1) = R1
  /\ \A n \in 2 .. 3 : PortalAt(n) = P2 /\ FeesAt(n) = FeeColumns /\ RequiredAt(n) = R2
  /\ PortalAt(4) = P4 /\ FeesAt(4) = FeeColumns /\ RequiredAt(4) = R4
  /\ \A n \in 5 .. 6 : PortalAt(n) = P5 /\ FeesAt(n) = FeeColumns /\ RequiredAt(n) = R4
  /\ \A n \in 7 .. 8 : PortalAt(n) = P7 /\ FeesAt(n) = F7 /\ RequiredAt(n) = R2
  /\ PortalAt(9) = P9 /\ FeesAt(9) = {} /\ RequiredAt(9) = R9
  /\ \A n \in 10 .. 13 : PortalAt(n) = P10 /\ FeesAt(n) = {} /\ RequiredAt(n) = R10
BY DEF PortalAt, FeesAt, RequiredAt

(* All of a level at once.                                                  *)
LEMMA LevelStates ==
  /\ At(0) = State({}, {}, {}) /\ At(1) = State(P1, {}, R1)
  /\ \A n \in 2 .. 3 : At(n) = State(P2, FeeColumns, R2)
  /\ At(4) = State(P4, FeeColumns, R4)
  /\ \A n \in 5 .. 6 : At(n) = State(P5, FeeColumns, R4)
  /\ \A n \in 7 .. 8 : At(n) = State(P7, F7, R2)
  /\ At(9) = State(P9, {}, R9) /\ \A n \in 10 .. 13 : At(n) = State(P10, {}, R10)
BY LevelSets DEF At

(* The migrations by number.                                                *)
LEMMA MigrationList ==
  /\ Committed = 13
  /\ Migrations[1] = InitDb /\ Migrations[2] = CreateFees /\ Migrations[3] = ExpandToken
  /\ Migrations[4] = AddAmount /\ Migrations[5] = AddResponse /\ Migrations[6] = Reindex
  /\ Migrations[7] = FeeVersioning /\ Migrations[8] = Reindex /\ Migrations[9] = DropFees
  /\ Migrations[10] = RestoreAmount /\ Migrations[11] = AddProcessed
  /\ Migrations[12] = HoldDay /\ Migrations[13] = CancelBacklog
BY DEF Committed, Migrations

(* Every up leads to the next level, and every down back to the columns of  *)
(* the level before, with no more of them required than there were.         *)
LEMMA LevelsLead ==
  /\ Committed = 13
  /\ \A m \in 1 .. Committed :
       /\ Leads(At(m - 1), Migrations[m].up, At(m))
       /\ \E R \in SUBSET RequiredAt(m - 1) :
            Leads(At(m), Migrations[m].down, BackTo(m - 1, R))
<1>1. Committed = 13
  BY MigrationList
<1> DEFINE Both(m) == /\ Leads(At(m - 1), Migrations[m].up, At(m))
                      /\ \E R \in SUBSET RequiredAt(m - 1) :
                           Leads(At(m), Migrations[m].down, BackTo(m - 1, R))
<1>2. BackTo(1, R5) = State(P1, {}, R5) /\ R5 \in SUBSET RequiredAt(1)
  BY LevelSets, RequiredGrowth DEF BackTo
<1>3. \A n : BackTo(n, RequiredAt(n)) = At(n) /\ RequiredAt(n) \in SUBSET RequiredAt(n)
  BY DEF BackTo, At
<1> DEFINE Undone(m) == Leads(At(m), Migrations[m].down, At(m - 1))
<1>4. /\ Leads(At(0), Migrations[1].up, At(1)) /\ Undone(1)
      /\ Leads(At(1), Migrations[2].up, At(2))
      /\ Leads(At(2), Migrations[2].down, BackTo(1, R5))
      /\ Leads(At(2), Migrations[3].up, At(3)) /\ Undone(3)
      /\ Leads(At(3), Migrations[4].up, At(4)) /\ Undone(4)
      /\ Leads(At(4), Migrations[5].up, At(5)) /\ Undone(5)
  BY MigrationList, LevelStates, <1>2, InitDbLeads, CreateFeesLeads, QuietLeads, AddAmountLeads,
     AddResponseLeads
<1>5. /\ Leads(At(5), Migrations[6].up, At(6)) /\ Undone(6)
      /\ Leads(At(6), Migrations[7].up, At(7)) /\ Undone(7)
      /\ Leads(At(7), Migrations[8].up, At(8)) /\ Undone(8)
      /\ Leads(At(8), Migrations[9].up, At(9)) /\ Undone(9)
      /\ Leads(At(9), Migrations[10].up, At(10)) /\ Undone(10)
  BY MigrationList, LevelStates, QuietLeads, FeeVersioningLeads, DropFeesLeads, RestoreAmountLeads
<1>6. /\ Leads(At(10), Migrations[11].up, At(11)) /\ Undone(11)
      /\ Leads(At(11), Migrations[12].up, At(12)) /\ Undone(12)
      /\ Leads(At(12), Migrations[13].up, At(13)) /\ Undone(13)
  BY MigrationList, LevelStates, QuietLeads
<1>7. ASSUME NEW m, Undone(m)
       PROVE  \E R \in SUBSET RequiredAt(m - 1) :
                Leads(At(m), Migrations[m].down, BackTo(m - 1, R))
  BY <1>3, <1>7
<1> HIDE DEF Undone
<1>8. Both(1) /\ Both(2) /\ Both(3) /\ Both(4) /\ Both(5)
  BY <1>2, <1>4, <1>7
<1>9. Both(6) /\ Both(7) /\ Both(8) /\ Both(9) /\ Both(10)
  BY <1>5, <1>7
<1>10. Both(11) /\ Both(12) /\ Both(13)
  BY <1>6, <1>7
<1> HIDE DEF Both
<1>11. \A m \in 1 .. 13 : Both(m)
  BY <1>8, <1>9, <1>10
<1> QED BY <1>1, <1>11 DEF Both

-----------------------------------------------------------------------------
(* From the columns to the database.                                        *)
LEMMA LeadsStatements ==
  ASSUME NEW x, NEW y, NEW ss, Leads(x, ss, y)
  PROVE  AreStatements(ss)
<1>1. PICK H : /\ H[0] = x /\ H[Len(ss)] = y
               /\ \A i \in 1 .. Len(ss) : Step(H[i - 1], ss[i], H[i])
  BY DEF Leads
<1>2. /\ Len(ss) \in Nat /\ DOMAIN ss = 1 .. Len(ss)
      /\ \A i \in 1 .. Len(ss) : IsStatement(ss[i])
  BY <1>1 DEF Leads, Step
<1> QED BY <1>2 DEF AreStatements

(* The required columns of the portal's table.                              *)
Required(d) == d.tables["transactions"].required

(* What a statement makes of them,                                          *)
LEMMA ApplyRequired ==
  ASSUME NEW d, NEW s, IsDatabase(d), IsStatement(s)
  PROVE  Required(Apply(d, s)) = RequiredAfter(Required(d), s)
<1> DEFINE e == Apply(d, s)
<1>1. CASE s.op = "alter"
  <2> DEFINE b == AlterIn(d, s)
  <2>1. s.table \in Tables
    BY <1>1 DEF IsStatement
  <2>2. /\ IsDatabase(b)
        /\ b.tables[s.table] = AfterAlter(d.tables[s.table], s)
        /\ \A t \in Tables \ {s.table} : b.tables[t] = d.tables[t]
    BY <2>1, AlterTables
  <2>3. e = b
    BY <1>1 DEF Apply
  <2> HIDE DEF b, e
  <2>4. CASE s.table = "transactions"
    <3>1. AfterAlter(d.tables["transactions"], s).required = Asked(Required(d), s)
      BY DEF AfterAlter, Asked, Required
    <3>2. RequiredAfter(Required(d), s) = Asked(Required(d), s)
      BY <1>1, <2>4 DEF RequiredAfter, T
    <3>3. Required(e) = AfterAlter(d.tables["transactions"], s).required
      BY <2>2, <2>3, <2>4 DEF Required
    <3> QED BY <3>1, <3>2, <3>3 DEF e
  <2>5. CASE s.table # "transactions"
    <3>1. e.tables["transactions"] = d.tables["transactions"]
      BY <2>2, <2>3, <2>5 DEF Tables
    <3>2. Required(e) = RequiredAfter(Required(d), s)
      BY <1>1, <2>5, <3>1 DEF Required, RequiredAfter, T
    <3> QED BY <3>2 DEF e
  <2> QED BY <2>4, <2>5
<1>2. CASE s.op = "update"
  <2>1. e = UpdateIn(d, s.how)
    BY <1>2 DEF Apply
  <2> HIDE DEF e
  <2>2. e.tables = d.tables
    BY <2>1, UpdateFields
  <2>3. Required(e) = RequiredAfter(Required(d), s)
    BY <1>2, <2>2 DEF Required, RequiredAfter
  <2> QED BY <2>3 DEF e
<1>3. CASE s.op \in {"trigger", "other"}
  <2>1. e = d \/ e = [d EXCEPT !.holds = s.holds]
    BY <1>3 DEF Apply
  <2> HIDE DEF e
  <2>2. e.tables = d.tables
    BY <2>1 DEF IsDatabase
  <2>3. Required(e) = RequiredAfter(Required(d), s)
    BY <1>3, <2>2 DEF Required, RequiredAfter
  <2> QED BY <2>3 DEF e
<1>4. CASE s.op \in {"create", "drop"}
  <2> DEFINE has == IF s.op = "create" THEN s.has ELSE {}
             required == IF s.op = "create" THEN s.required ELSE {}
             new == Anew(d, s.table, has, required)
  <2>1. s.table \in Tables
    BY <1>4 DEF IsStatement
  <2>2. e = new \/ e = [new EXCEPT !.ok = d.tables[s.table].has = {}]
    BY <1>4 DEF Apply
  <2> HIDE DEF has
  <2> HIDE DEF required
  <2>3. /\ IsDatabase(new)
        /\ new.tables[s.table] = [has |-> has, required |-> required]
        /\ \A u \in Tables \ {s.table} : new.tables[u] = d.tables[u]
        /\ new.row = IF s.table = "transactions" THEN <<>> ELSE d.row
        /\ new.fees = IF s.table = "fees" THEN <<>> ELSE d.fees
        /\ new.holds = d.holds /\ new.day = d.day /\ new.wide = d.wide /\ new.ok = d.ok
    BY <2>1, AnewFields
  <2> HIDE DEF new, e
  <2>4. e.tables = new.tables
    BY <2>2, <2>3 DEF IsDatabase
  <2>5. Required(e) = IF s.table = "transactions" THEN required ELSE Required(d)
    BY <2>1, <2>3, <2>4 DEF Required, Tables
  <2>6. RequiredAfter(Required(d), s) = IF s.table = "transactions" THEN required ELSE Required(d)
    BY <1>4 DEF RequiredAfter, T, required
  <2> QED BY <2>5, <2>6 DEF e
<1>5. CASE s.op = "check"
  <2>1. e.tables = d.tables
    BY <1>5, CheckFields
  <2> HIDE DEF e
  <2>2. Required(e) = RequiredAfter(Required(d), s)
    BY <1>5, <2>1 DEF Required, RequiredAfter
  <2> QED BY <2>2 DEF e
<1> QED BY <1>1, <1>2, <1>3, <1>4, <1>5 DEF IsStatement

(* the fewer there are before, the fewer there are after.                   *)
LEMMA RequiredGrows ==
  ASSUME NEW R, NEW Q, R \subseteq Q, NEW s
  PROVE  RequiredAfter(R, s) \subseteq RequiredAfter(Q, s)
<1>1. Asked(R, s) \subseteq Asked(Q, s)
  BY DEF Asked, AfterAlter
<1> QED BY <1>1 DEF RequiredAfter

(* A run on any database with the columns a migration expects, and no more  *)
(* of them required.                                                        *)
LEMMA LeadsRun ==
  ASSUME NEW x, NEW y, NEW d, NEW ss, Leads(x, ss, y),
         IsDatabase(d), Columns(d) = x.has, Required(d) \subseteq x.required, Run(d, ss).ok
  PROVE  /\ AreStatements(ss)
         /\ Columns(Run(d, ss)) = y.has /\ Required(Run(d, ss)) \subseteq y.required
<1> DEFINE n == Len(ss)
<1>1. n \in Nat
  BY DEF Leads
<1>2. PICK H : /\ H[0] = x /\ H[n] = y
               /\ \A i \in 1 .. n : Step(H[i - 1], ss[i], H[i])
  BY DEF Leads
<1>3. PICK f : /\ f[0] = d /\ f[n] = Run(d, ss)
               /\ \A i \in 1 .. n : f[i] = Apply(f[i - 1], ss[i])
  BY <1>1, RunApplies
<1> DEFINE Fit(i) == /\ IsDatabase(f[i]) /\ Columns(f[i]) = H[i].has
                     /\ Required(f[i]) \subseteq H[i].required
           I == {i \in Nat : i <= n => Fit(i)}
<1>4. 0 \in I
  BY <1>2, <1>3
<1>5. ASSUME NEW i \in I PROVE i + 1 \in I
  <2>1. SUFFICES ASSUME i + 1 <= n PROVE Fit(i + 1)
    OBVIOUS
  <2>2. i + 1 \in 1 .. n /\ i + 1 - 1 = i /\ Fit(i)
    BY <1>1, <1>5, <2>1
  <2>3. /\ f[i + 1] = Apply(f[i], ss[i + 1]) /\ IsStatement(ss[i + 1])
        /\ ColumnsAfter(H[i].has, ss[i + 1]) = H[i + 1].has
        /\ RequiredAfter(H[i].required, ss[i + 1]) = H[i + 1].required
    BY <1>2, <1>3, <2>2 DEF Step
  <2>4. IsDatabase(f[i + 1]) /\ Columns(f[i + 1]) = H[i + 1].has
    BY <2>2, <2>3, ApplyColumns
  <2>5. Required(f[i + 1]) = RequiredAfter(Required(f[i]), ss[i + 1])
    BY <2>2, <2>3, ApplyRequired
  <2>6. RequiredAfter(Required(f[i]), ss[i + 1]) \subseteq RequiredAfter(H[i].required, ss[i + 1])
    BY <2>2, RequiredGrows
  <2> QED BY <2>3, <2>4, <2>5, <2>6
<1>6. I = Nat
  BY <1>4, <1>5, Counting
<1>7. Fit(n)
  <2> HIDE DEF n
  <2> QED BY <1>1, <1>6
<1> HIDE DEF I
<1>8. AreStatements(ss)
  BY LeadsStatements
<1> QED BY <1>2, <1>3, <1>7, <1>8

(* Without rows nothing but the columns can refuse a statement.             *)
Bare(d) == IsDatabase(d) /\ d.ok /\ DOMAIN d.row = {}

(* An ALTER that resolves is not refused,                                   *)
LEMMA AlterBare ==
  ASSUME NEW d, NEW s, IsDatabase(d), s.table \in Tables
  PROVE  DOMAIN d.row = {} /\ Resolves(d.tables[s.table], s) => Bare(AlterIn(d, s))
<1> DEFINE e == AlterIn(d, s)
           here == AfterAlter(d.tables[s.table], s)
<1>1. /\ IsDatabase(e)
      /\ e.tables[s.table] = here
      /\ \A t \in Tables \ {s.table} : e.tables[t] = d.tables[t]
      /\ e.row = IF s.table # "transactions" THEN d.row
                 ELSE [a \in DOMAIN d.row |-> [d.row[a] EXCEPT !.v = Moved(@, here.has, s)]]
      /\ e.fees = d.fees /\ e.day = d.day
      /\ e.ok = (Resolves(d.tables[s.table], s) /\ Filled(e) /\ Fits(e, s))
  BY AlterFields
<1> HIDE DEF e, here
<1> SUFFICES ASSUME DOMAIN d.row = {}, Resolves(d.tables[s.table], s) PROVE Bare(e)
  BY DEF e
<1>2. DOMAIN e.row = {}
  BY <1>1
<1>3. Filled(e) /\ Fits(e, s)
  BY <1>2 DEF Filled, Fits
<1> QED BY <1>1, <1>2, <1>3 DEF Bare

(* nor is any statement the columns accept.                                 *)
LEMMA ApplyBare ==
  ASSUME NEW d, NEW s, Bare(d), IsStatement(s), Works(Columns(d), s)
  PROVE  Bare(Apply(d, s))
<1> DEFINE e == Apply(d, s)
<1>0. IsDatabase(d) /\ d.ok /\ DOMAIN d.row = {}
  BY DEF Bare
<1>1. CASE s.op = "alter"
  <2>1. s.table \in Tables /\ s.op = "alter"
    BY <1>1 DEF IsStatement
  <2>2. Resolves(d.tables[s.table], s)
    <3> DEFINE t == d.tables[s.table]
               u == [has |-> t.has, required |-> {}]
               a == Alter(T, s.clauses)
    <3>1. Columns(d)[s.table] = t.has
      BY <2>1 DEF Columns
    <3>2. Resolves(u, a)
      BY <2>1, <3>1 DEF Works, Resolved
    <3>3. \A acts : With(a, acts) = With(s, acts)
      BY DEF With, Alter
    <3> HIDE DEF a, t
    <3>4. AfterAlter(u, a).has = AfterAlter(t, s).has /\ u.has = t.has
      BY <3>3 DEF AfterAlter
    <3> HIDE DEF u
    <3>5. Resolves(t, s)
      BY <3>2, <3>3, <3>4 DEF Resolves
    <3> QED BY <3>5 DEF t
  <2>3. e = AlterIn(d, s)
    BY <1>1 DEF Apply
  <2> QED BY <1>0, <2>1, <2>2, <2>3, AlterBare
<1>2. CASE s.op = "update"
  <2> DEFINE b == UpdateIn(d, s.how)
  <2>1. e = b
    BY <1>2 DEF Apply
  <2> DEFINE how == s.how
  <2>2. /\ IsDatabase(b)
        /\ b.tables = d.tables /\ b.holds = d.holds /\ b.day = d.day /\ b.wide = d.wide
        /\ how = "fee_key = fee_id" =>
             /\ b.row = d.row /\ b.ok = d.ok
             /\ b.fees = [id \in DOMAIN d.fees |-> [d.fees[id] EXCEPT !.key = id]]
        /\ how # "fee_key = fee_id" =>
             /\ b.fees = d.fees /\ b.ok = Filled(b)
             /\ b.row = [a \in DOMAIN d.row |->
                  IF Meets(how, d, a)
                  THEN Touch(d, d.row[a], Written(how, d, d.row[a].v)) ELSE d.row[a]]
    BY <1>0, UpdateFields
  <2> HIDE DEF b, how
  <2>3. DOMAIN b.row = {}
    BY <1>0, <2>2
  <2>4. Filled(b)
    BY <2>3 DEF Filled
  <2> QED BY <1>0, <2>1, <2>2, <2>3, <2>4 DEF Bare
<1>3. CASE s.op \in {"trigger", "other"}
  <2>1. e = d \/ e = [d EXCEPT !.holds = s.holds]
    BY <1>3 DEF Apply
  <2> HIDE DEF e
  <2>2. Bare(e)
    BY <2>1 DEF Bare, IsDatabase
  <2> QED BY <2>2 DEF e
<1>4. CASE s.op \in {"create", "drop"}
  <2> DEFINE has == IF s.op = "create" THEN s.has ELSE {}
             required == IF s.op = "create" THEN s.required ELSE {}
             new == Anew(d, s.table, has, required)
  <2>1. s.table \in Tables
    BY <1>4 DEF IsStatement
  <2>2. s.op = "create" => d.tables[s.table].has = {}
    BY <2>1 DEF Works, Columns
  <2>3. \/ e = new
        \/ s.op = "create" /\ e = [new EXCEPT !.ok = d.tables[s.table].has = {}]
    BY <1>4 DEF Apply
  <2> HIDE DEF has, required
  <2>4. /\ IsDatabase(new)
        /\ new.tables[s.table] = [has |-> has, required |-> required]
        /\ \A u \in Tables \ {s.table} : new.tables[u] = d.tables[u]
        /\ new.row = IF s.table = "transactions" THEN <<>> ELSE d.row
        /\ new.fees = IF s.table = "fees" THEN <<>> ELSE d.fees
        /\ new.holds = d.holds /\ new.day = d.day /\ new.wide = d.wide /\ new.ok = d.ok
    BY <1>0, <2>1, AnewFields
  <2> HIDE DEF new, e
  <2>5. Bare(new)
    BY <1>0, <2>4 DEF Bare
  <2>6. Bare(e)
    BY <2>2, <2>3, <2>5 DEF Bare, IsDatabase
  <2> QED BY <2>6 DEF e
<1>5. CASE s.op = "check"
  <2>1. IsDatabase(e) /\ e.row = d.row /\ e.ok = ~Twice(d, PAID)
    BY <1>0, <1>5, CheckFields
  <2>2. ~Twice(d, PAID)
    BY <1>0 DEF Twice
  <2> QED BY <1>0, <2>1, <2>2 DEF Bare
<1> QED BY <1>1, <1>2, <1>3, <1>4, <1>5 DEF IsStatement

(* A migration on a database without rows goes through.                     *)
LEMMA LeadsBare ==
  ASSUME NEW x, NEW y, NEW d, NEW ss, Leads(x, ss, y),
         Bare(d), Columns(d) = x.has, Required(d) = x.required
  PROVE  /\ Bare(Run(d, ss))
         /\ Columns(Run(d, ss)) = y.has /\ Required(Run(d, ss)) = y.required
<1> DEFINE n == Len(ss)
<1>1. n \in Nat
  BY DEF Leads
<1>2. PICK H : /\ H[0] = x /\ H[n] = y
               /\ \A i \in 1 .. n : Step(H[i - 1], ss[i], H[i])
  BY DEF Leads
<1>3. PICK f : /\ f[0] = d /\ f[n] = Run(d, ss)
               /\ \A i \in 1 .. n :
                    f[i] = IF f[i - 1].ok THEN Apply(f[i - 1], ss[i]) ELSE f[i - 1]
  BY <1>1, RunSteps
<1> DEFINE Fit(i) == /\ Bare(f[i]) /\ Columns(f[i]) = H[i].has
                     /\ Required(f[i]) = H[i].required
           I == {i \in Nat : i <= n => Fit(i)}
<1>4. 0 \in I
  BY <1>2, <1>3
<1>5. ASSUME NEW i \in I PROVE i + 1 \in I
  <2>1. SUFFICES ASSUME i + 1 <= n PROVE Fit(i + 1)
    OBVIOUS
  <2>2. i + 1 \in 1 .. n /\ i + 1 - 1 = i /\ Fit(i)
    BY <1>1, <1>5, <2>1
  <2>3. IsDatabase(f[i]) /\ f[i].ok
    BY <2>2 DEF Bare
  <2>4. /\ f[i + 1] = Apply(f[i], ss[i + 1]) /\ IsStatement(ss[i + 1])
        /\ Works(H[i].has, ss[i + 1])
        /\ ColumnsAfter(H[i].has, ss[i + 1]) = H[i + 1].has
        /\ RequiredAfter(H[i].required, ss[i + 1]) = H[i + 1].required
    BY <1>2, <1>3, <2>2, <2>3 DEF Step
  <2>5. Bare(f[i + 1]) /\ Columns(f[i + 1]) = H[i + 1].has
    BY <2>2, <2>3, <2>4, ApplyColumns, ApplyBare
  <2>6. Required(f[i + 1]) = H[i + 1].required
    BY <2>2, <2>3, <2>4, ApplyRequired
  <2> QED BY <2>5, <2>6
<1>6. I = Nat
  BY <1>4, <1>5, Counting
<1>7. Fit(n)
  <2> HIDE DEF n
  <2> QED BY <1>1, <1>6
<1> HIDE DEF I
<1> QED BY <1>2, <1>3, <1>7

-----------------------------------------------------------------------------
(* The databases a release was tested with, level by level.                 *)
IsFresh(f, n) ==
  f = [i \in 0 .. n |-> IF i = 0 THEN Empty ELSE Run(f[i - 1], Migrations[i].up)]

(* There is a table of them, of any length,                                 *)
LEMMA FreshExist ==
  \A n \in Nat : \E f : IsFresh(f, n)
<1> DEFINE I == {n \in Nat : \E f : IsFresh(f, n)}
<1>1. 0 \in I
  <2>1. IsFresh([i \in 0 .. 0 |-> Empty], 0)
    BY DEF IsFresh
  <2> QED BY <2>1
<1>2. ASSUME NEW n \in I PROVE n + 1 \in I
  <2>1. PICK f : IsFresh(f, n)
    BY <1>2
  <2>2. n \in Nat
    BY <1>2
  <2> DEFINE g == [i \in 0 .. n + 1 |->
                     IF i <= n THEN f[i] ELSE Run(f[n], Migrations[n + 1].up)]
  <2>3. ASSUME NEW i \in 0 .. n + 1
        PROVE  g[i] = IF i = 0 THEN Empty ELSE Run(g[i - 1], Migrations[i].up)
    <3>1. CASE i = 0
      BY <2>1, <2>2, <3>1 DEF IsFresh
    <3>2. CASE i \in 1 .. n
      <4>1. g[i] = f[i] /\ g[i - 1] = f[i - 1] /\ i \in 0 .. n /\ i # 0
        BY <2>2, <3>2
      <4>2. f[i] = Run(f[i - 1], Migrations[i].up)
        BY <2>1, <4>1 DEF IsFresh
      <4> QED BY <4>1, <4>2
    <3>3. CASE i = n + 1
      <4>1. g[i] = Run(f[n], Migrations[n + 1].up) /\ g[n] = f[n] /\ i - 1 = n /\ i # 0
        BY <2>2, <3>3
      <4> HIDE DEF g
      <4> QED BY <3>3, <4>1
    <3> QED BY <2>2, <3>1, <3>2, <3>3
  <2> HIDE DEF g
  <2>4. g = [i \in 0 .. n + 1 |-> g[i]]
    BY DEF g
  <2>5. IsFresh(g, n + 1)
    BY <2>3, <2>4 DEF IsFresh
  <2> QED BY <2>2, <2>5
<1>3. I = Nat
  BY <1>1, <1>2, Counting
<1> QED BY <1>3

(* and Fresh is it.                                                         *)
LEMMA FreshSteps ==
  /\ Fresh[0] = Empty
  /\ \A n \in 1 .. Committed : Fresh[n] = Run(Fresh[n - 1], Migrations[n].up)
<1> DEFINE f == CHOOSE f : IsFresh(f, Committed)
<1>1. Committed \in Nat
  BY LevelsLead
<1>2. IsFresh(f, Committed)
  BY <1>1, FreshExist
<1>3. Fresh = [n \in 0 .. Committed |-> f[n]]
  BY DEF Fresh, IsFresh
<1> HIDE DEF f
<1>4. ASSUME NEW n \in 0 .. Committed
      PROVE  Fresh[n] = IF n = 0 THEN Empty ELSE Run(f[n - 1], Migrations[n].up)
  BY <1>2, <1>3 DEF IsFresh
<1>5. Fresh[0] = Empty
  BY <1>1, <1>4
<1>6. ASSUME NEW n \in 1 .. Committed
      PROVE  Fresh[n] = Run(Fresh[n - 1], Migrations[n].up)
  <2>1. n \in 0 .. Committed /\ n # 0 /\ n - 1 \in 0 .. Committed
    BY <1>1
  <2>2. Fresh[n - 1] = f[n - 1]
    BY <1>3, <2>1
  <2> QED BY <1>4, <2>1, <2>2
<1> QED BY <1>5, <1>6

(* The database before the first migration.                                 *)
LEMMA EmptyBare ==
  Bare(Empty) /\ Columns(Empty) = At(0).has /\ Required(Empty) = RequiredAt(0) /\ Sound(Empty)
<1>1. /\ Empty.tables["transactions"] = NoTable /\ Empty.tables["fees"] = NoTable
      /\ DOMAIN Empty.row = {} /\ DOMAIN Empty.fees = {} /\ Empty.ok /\ Empty.day = 1
      /\ IsDatabase(Empty)
  BY DEF Empty, IsDatabase
<1>2. Columns(Empty) = At(0).has /\ Required(Empty) = RequiredAt(0)
  BY <1>1 DEF Columns, Required, At, State, PortalAt, FeesAt, RequiredAt, Sets, Tables, NoTable
<1>3. Sound(Empty)
  BY <1>1 DEF Sound, Filled, NoTable
<1> QED BY <1>1, <1>2, <1>3 DEF Bare

(* Every level's database is bare, with the columns its migrations give.    *)
LEMMA FreshLevels ==
  \A n \in 0 .. Committed :
    Bare(Fresh[n]) /\ Columns(Fresh[n]) = At(n).has /\ Required(Fresh[n]) = RequiredAt(n)
<1> DEFINE Fit(n) == /\ Bare(Fresh[n]) /\ Columns(Fresh[n]) = At(n).has
                     /\ Required(Fresh[n]) = RequiredAt(n)
           I == {n \in Nat : n <= Committed => Fit(n)}
<1>1. 0 \in I
  BY FreshSteps, EmptyBare
<1>2. ASSUME NEW n \in I PROVE n + 1 \in I
  <2>1. SUFFICES ASSUME n + 1 <= Committed PROVE Fit(n + 1)
    OBVIOUS
  <2>2. n + 1 \in 1 .. Committed /\ n + 1 - 1 = n /\ Fit(n)
    BY <1>2, <2>1, LevelsLead
  <2>3. /\ Fresh[n + 1] = Run(Fresh[n], Migrations[n + 1].up)
        /\ Leads(At(n), Migrations[n + 1].up, At(n + 1))
    BY <2>2, FreshSteps, LevelsLead
  <2>4. \A i : At(i).required = RequiredAt(i)
    BY DEF At, State
  <2> QED BY <2>2, <2>3, <2>4, LeadsBare
<1>3. I = Nat
  BY <1>1, <1>2, Counting
<1> HIDE DEF I
<1>4. \A n \in 0 .. Committed : n \in I
  BY <1>3, LevelsLead
<1> QED BY <1>4 DEF I

(* The same, of the schema a release was tested with.                       *)
LEMMA SchemaLevels ==
  \A n \in 0 .. Committed :
    /\ SchemaAt(n).transactions.has = At(n).has["transactions"]
    /\ SchemaAt(n).fees.has = At(n).has["fees"]
    /\ SchemaAt(n).transactions.required = RequiredAt(n)
<1>1. ASSUME NEW n \in 0 .. Committed
      PROVE  /\ SchemaAt(n).transactions.has = At(n).has["transactions"]
             /\ SchemaAt(n).fees.has = At(n).has["fees"]
             /\ SchemaAt(n).transactions.required = RequiredAt(n)
  <2>1. Columns(Fresh[n]) = At(n).has /\ Required(Fresh[n]) = RequiredAt(n)
    BY FreshLevels
  <2> DEFINE has == At(n).has
  <2> HIDE DEF has
  <2>2. has["transactions"] = Fresh[n].tables["transactions"].has
        /\ has["fees"] = Fresh[n].tables["fees"].has
    BY <2>1 DEF Columns, Tables, has
  <2>3. Fresh[n].tables["transactions"].required = RequiredAt(n)
    BY <2>1 DEF Required
  <2> QED BY <2>2, <2>3 DEF SchemaAt, has
<1> QED BY <1>1

-----------------------------------------------------------------------------
(* The schema of a level; a down may leave a column less to be required.    *)
OfLevel(d, n) == Columns(d) = At(n).has /\ Required(d) \subseteq RequiredAt(n)

(* What the unique index of a level covers: of levels 1 to 5, whether or    *)
(* not the first constraint is still there.                                 *)
CoveredAt(n) ==
  IF n < 1 THEN {{}}
  ELSE IF n < 6 THEN {Statuses, {}}
  ELSE IF n < 8 THEN {FIRST_COVERED}
  ELSE IF n < 11 THEN {FIRST_COVERED \cup {"processing"}}
  ELSE {COVERED_STATUSES}

(* The migrations keep it so.                                               *)
LEMMA IndexLevels ==
  /\ \A n \in 1 .. DraftLevel : covered \in CoveredAt(n - 1) => IndexUp(n) \in CoveredAt(n)
  /\ \A n \in 1 .. Committed : covered \in CoveredAt(n) => IndexDown(n) \in CoveredAt(n - 1)
<1>1. DraftLevel = 14 /\ Committed = 13
  BY LevelsLead DEF DraftLevel
<1>2. ASSUME NEW n \in 1 .. 14, covered \in CoveredAt(n - 1) PROVE IndexUp(n) \in CoveredAt(n)
  BY <1>2 DEF IndexUp, CoveredAt
<1>3. ASSUME NEW n \in 1 .. 13, covered \in CoveredAt(n) PROVE IndexDown(n) \in CoveredAt(n - 1)
  BY <1>3 DEF IndexDown, CoveredAt
<1> QED BY <1>1, <1>2, <1>3

(* They are statuses.                                                       *)
LEMMA CoveredStatuses ==
  ASSUME NEW n, NEW c \in CoveredAt(n)
  PROVE  c \subseteq Statuses
BY DEF CoveredAt, FIRST_COVERED, COVERED_STATUSES, UNSETTLED, PAID, Statuses

(* The invariant: the database is sound, and has the schema of its level.   *)
Typed ==
  /\ Sound(db)
  /\ level \in 0 .. DraftLevel /\ release \in 1 .. Committed
  /\ gate \in {"none", "blocked", "clean", "paused", "approved"}
  /\ gate \in {"clean", "paused", "approved"} => draft \in Drafts
  /\ level <= Committed => OfLevel(db, level)
  /\ covered \in CoveredAt(level)

(* It holds before the first migration.                                     *)
LEMMA TypedInit == Init => Typed
<1>1. DraftLevel = Committed + 1 /\ Committed = 13
  BY LevelsLead DEF DraftLevel
<1> QED BY <1>1, EmptyBare DEF Init, Typed, OfLevel, CoveredAt

(* A draft is a sequence of statements.                                     *)
LEMMA DraftStatements == \A d \in Drafts : AreStatements(d)
<1>1. SUFFICES ASSUME NEW d \in Drafts PROVE AreStatements(d)
  OBVIOUS
<1>2. Len(d) \in Nat /\ DOMAIN d = 1 .. Len(d) /\ \A s \in Range(d) : IsStatement(s)
  BY DraftAssumption
<1>3. \A i \in 1 .. Len(d) : d[i] \in Range(d)
  BY <1>2 DEF Range
<1> QED BY <1>2, <1>3 DEF AreStatements

-----------------------------------------------------------------------------
(* The migrations.                                                          *)
LEMMA TypedUp == Typed /\ Up => Typed'
<1> SUFFICES ASSUME Typed, Up PROVE Typed'
  OBVIOUS
<1>0. DraftLevel = Committed + 1 /\ Committed = 13
  BY LevelsLead DEF DraftLevel
<1> DEFINE ss == Statements(level + 1)
           after == Run(db, ss)
<1>1. /\ level < Committed \/ (level = Committed /\ gate \in {"clean", "approved"})
      /\ Migrated(after, level + 1, IndexUp(level + 1))
      /\ UNCHANGED <<release, draft, gate>>
  BY DEF Up
<1>2. /\ Sound(db) /\ level \in 0 .. DraftLevel /\ OfLevel(db, level)
      /\ IsDatabase(db)
  BY <1>0, <1>1 DEF Typed, Sound
<1>3. AreStatements(ss) /\ (level < Committed => Leads(At(level), ss, At(level + 1)))
  <2>1. CASE level < Committed
    <3>1. level + 1 \in 1 .. Committed /\ level + 1 - 1 = level
      BY <1>0, <1>2, <2>1
    <3>2. ss = Migrations[level + 1].up
      BY <1>0, <3>1 DEF Statements
    <3> HIDE DEF ss
    <3>3. Leads(At(level), ss, At(level + 1))
      <4>1. PICK m \in 1 .. Committed : m = level + 1
        BY <3>1
      <4>2. Leads(At(m - 1), Migrations[m].up, At(m))
        BY LevelsLead
      <4>3. m - 1 = level
        BY <1>2, <4>1
      <4> QED BY <3>2, <4>1, <4>2, <4>3
    <3>4. AreStatements(ss)
      BY <3>3, LeadsStatements
    <3> QED BY <3>3, <3>4
  <2>2. CASE level = Committed
    <3>1. ss = draft /\ draft \in Drafts
      BY <1>0, <1>1, <2>2 DEF Statements, Typed
    <3> HIDE DEF ss
    <3> QED BY <2>2, <3>1, DraftStatements, <1>0
  <2> QED BY <1>1, <2>1, <2>2
<1> HIDE DEF ss
<1>4. CASE Went(after, IndexUp(level + 1))
  <2>0. after.ok
    BY <1>4 DEF Went
  <2>1. db' = after /\ level' = level + 1 /\ covered' = IndexUp(level + 1)
    BY <1>1, <1>4 DEF Migrated
  <2>2. Sound(after)
    BY <1>2, <1>3, <2>0, RunSound
  <2>3. level < Committed => OfLevel(after, level + 1)
    <3>1. \A n : At(n).required = RequiredAt(n)
      BY DEF At, State
    <3> QED BY <1>2, <1>3, <2>0, <3>1, LeadsRun DEF OfLevel
  <2> HIDE DEF after
  <2>4. Sound(db)' /\ (level' <= Committed => OfLevel(db, level)')
    <3>1. Sound(db)'
      BY <2>1, <2>2 DEF Sound, IsDatabase, RowSound, Filled
    <3>2. OfLevel(after, level + 1) => OfLevel(db, level)'
      BY <2>1 DEF OfLevel, Columns, Required, At, State, PortalAt, FeesAt, RequiredAt, Sets
    <3> QED BY <1>0, <1>1, <1>2, <2>1, <2>3, <3>1, <3>2
  <2>5. level' \in 0 .. DraftLevel
    BY <1>0, <1>1, <1>2, <2>1
  <2>6. (covered \in CoveredAt(level))'
    <3>1. PICK n \in 1 .. DraftLevel : n = level + 1
      BY <1>0, <1>1, <1>2
    <3>2. n - 1 = level /\ covered \in CoveredAt(level)
      BY <1>2, <3>1 DEF Typed
    <3>3. IndexUp(n) \in CoveredAt(n)
      BY <3>2, IndexLevels
    <3> QED BY <2>1, <3>1, <3>3 DEF CoveredAt
  <2> QED BY <1>0, <1>1, <2>4, <2>5, <2>6 DEF Typed, DraftLevel
<1>5. CASE ~Went(after, IndexUp(level + 1))
  <2>1. UNCHANGED <<db, level, release, draft, gate, covered>>
    BY <1>1, <1>5 DEF Migrated
  <2> QED BY <2>1 DEF Typed, Sound, IsDatabase, RowSound, Filled, OfLevel, Columns, Required,
                 At, State, PortalAt, FeesAt, RequiredAt, Sets, CoveredAt
<1> QED BY <1>4, <1>5

(* A rollback.                                                              *)
LEMMA TypedDown == Typed /\ Down => Typed'
<1> SUFFICES ASSUME Typed, Down PROVE Typed'
  OBVIOUS
<1>0. DraftLevel = Committed + 1 /\ Committed = 13
  BY LevelsLead DEF DraftLevel
<1> DEFINE ss == Migrations[level].down
           after == Run(db, ss)
<1>1. /\ level \in 1 .. Committed /\ gate = "none"
      /\ Migrated(after, level - 1, IndexDown(level))
      /\ UNCHANGED <<release, draft, gate>>
  BY DEF Down
<1>2. /\ Sound(db) /\ OfLevel(db, level) /\ IsDatabase(db)
  BY <1>0, <1>1 DEF Typed, Sound
<1>3. PICK R \in SUBSET RequiredAt(level - 1) : Leads(At(level), ss, BackTo(level - 1, R))
  BY <1>1, LevelsLead
<1> HIDE DEF ss
<1>4. CASE Went(after, IndexDown(level))
  <2>0. after.ok
    BY <1>4 DEF Went
  <2>1. db' = after /\ level' = level - 1 /\ covered' = IndexDown(level)
    BY <1>1, <1>4 DEF Migrated
  <2>2. AreStatements(ss) /\ OfLevel(after, level - 1)
    <3> DEFINE x == At(level)
               y == BackTo(level - 1, R)
    <3>1. x.required = RequiredAt(level) /\ y.has = At(level - 1).has /\ y.required = R
      BY DEF BackTo, At, State
    <3>2. Leads(x, ss, y) /\ Columns(db) = x.has /\ Required(db) \subseteq x.required
      BY <1>2, <1>3, <3>1 DEF OfLevel
    <3> HIDE DEF x, y
    <3>3. /\ AreStatements(ss)
          /\ Columns(after) = y.has /\ Required(after) \subseteq y.required
      BY <1>2, <2>0, <3>2, LeadsRun
    <3> QED BY <1>3, <3>1, <3>3 DEF OfLevel
  <2>3. Sound(after)
    BY <1>2, <2>2, <2>0, RunSound
  <2> HIDE DEF after
  <2>4. Sound(db)'
    BY <2>1, <2>3 DEF Sound, IsDatabase, RowSound, Filled
  <2>5. OfLevel(after, level - 1) => OfLevel(db, level)'
    BY <2>1 DEF OfLevel, Columns, Required, At, State, PortalAt, FeesAt, RequiredAt, Sets
  <2>6. level' \in 0 .. DraftLevel
    BY <1>0, <1>1, <2>1
  <2>7. (covered \in CoveredAt(level))'
    <3>1. covered \in CoveredAt(level)
      BY DEF Typed
    <3>2. IndexDown(level) \in CoveredAt(level - 1)
      BY <1>1, <3>1, IndexLevels
    <3> QED BY <2>1, <3>2 DEF CoveredAt
  <2> QED BY <1>0, <1>1, <2>2, <2>4, <2>5, <2>6, <2>7 DEF Typed, DraftLevel
<1>5. CASE ~Went(after, IndexDown(level))
  <2>1. UNCHANGED <<db, level, release, draft, gate, covered>>
    BY <1>1, <1>5 DEF Migrated
  <2> QED BY <2>1 DEF Typed, Sound, IsDatabase, RowSound, Filled, OfLevel, Columns, Required,
                 At, State, PortalAt, FeesAt, RequiredAt, Sets, CoveredAt
<1> QED BY <1>4, <1>5

-----------------------------------------------------------------------------
(* The writes of a release: columns stay, and rows and fees stay sound.     *)
SameTables(d, e) == IsDatabase(e) /\ e.tables = d.tables /\ e.ok = d.ok

(* Sound rows make a sound database,                                        *)
LEMMA RowsSound ==
  ASSUME NEW d, NEW rows, Sound(d), DOMAIN rows \subseteq Attempts,
         \A a \in DOMAIN rows :
           /\ RowSound(d, rows[a])
           /\ \A c \in d.tables["transactions"].required : rows[a].v[c] # NULL
  PROVE  LET e == [d EXCEPT !.row = rows] IN
           Sound(e) /\ SameTables(d, e) /\ e.holds = d.holds /\ e.day = d.day /\ e.row = rows
<1> DEFINE e == [d EXCEPT !.row = rows]
<1>0. IsDatabase(d) /\ e = [d EXCEPT !.row = rows]
  BY DEF Sound
<1> HIDE DEF e
<1>1. /\ IsDatabase(e) /\ e.tables = d.tables /\ e.row = rows /\ e.fees = d.fees
      /\ e.day = d.day /\ e.ok = d.ok /\ e.holds = d.holds
  BY <1>0 DEF IsDatabase
<1>2. Filled(e) /\ \A a \in DOMAIN e.row : RowSound(e, e.row[a])
  BY <1>1 DEF Filled, RowSound
<1>3. Sound(e)
  BY <1>1, <1>2 DEF Sound
<1> QED BY <1>1, <1>3 DEF e, SameTables

(* and so do known fees.                                                    *)
LEMMA FeesSound ==
  ASSUME NEW d, NEW fees, Sound(d), DOMAIN fees \subseteq Keys \cup {Version}
  PROVE  LET e == [d EXCEPT !.fees = fees] IN
           Sound(e) /\ SameTables(d, e) /\ e.holds = d.holds /\ e.day = d.day /\ e.row = d.row
<1> DEFINE e == [d EXCEPT !.fees = fees]
<1>0. IsDatabase(d) /\ e = [d EXCEPT !.fees = fees]
  BY DEF Sound
<1> HIDE DEF e
<1>1. /\ IsDatabase(e) /\ e.tables = d.tables /\ e.row = d.row /\ e.fees = fees
      /\ e.day = d.day /\ e.ok = d.ok /\ e.holds = d.holds
  BY <1>0 DEF IsDatabase
<1>2. Filled(e) /\ \A a \in DOMAIN e.row : RowSound(e, e.row[a])
  BY <1>1 DEF Filled, RowSound, Sound
<1>3. Sound(e)
  BY <1>1, <1>2 DEF Sound
<1> QED BY <1>1, <1>3 DEF e, SameTables

(* What one attempt's patch leaves: its row sound, the others as they were. *)
LEMMA PatchSound ==
  ASSUME NEW d, NEW a \in DOMAIN d.row, NEW v, Sound(d), DOMAIN v = DOMAIN d.row[a].v,
         \A c \in DOMAIN v : v[c] = d.row[a].v[c] \/ v[c] # NULL
  PROVE  LET e == [d EXCEPT !.row[a] = Touch(d, @, v)] IN
           /\ Sound(e) /\ SameTables(d, e) /\ e.holds = d.holds /\ e.day = d.day
           /\ DOMAIN e.row = DOMAIN d.row
           /\ e.row[a] = Touch(d, d.row[a], v) /\ e.row[a].v = v
           /\ \A b \in DOMAIN d.row \ {a} : e.row[b] = d.row[b]
<1> DEFINE rows == [d.row EXCEPT ![a] = Touch(d, d.row[a], v)]
           e == [d EXCEPT !.row[a] = Touch(d, @, v)]
<1>1. /\ DOMAIN d.row \subseteq Attempts /\ Filled(d) /\ d.day \in Nat \ {0}
      /\ \A b \in DOMAIN d.row : RowSound(d, d.row[b])
      /\ d.tables["transactions"].required \subseteq d.tables["transactions"].has
  BY DEF Sound
<1>2. RowSound(d, Touch(d, d.row[a], v)) /\ Touch(d, d.row[a], v).v = v
  BY <1>1, TouchSound
<1>3. /\ DOMAIN rows = DOMAIN d.row /\ rows[a] = Touch(d, d.row[a], v)
      /\ \A b \in DOMAIN d.row \ {a} : rows[b] = d.row[b]
  OBVIOUS
<1>4. [d EXCEPT !.row[a] = Touch(d, @, v)] = [d EXCEPT !.row = rows]
  BY DEF Sound, IsDatabase
<1> HIDE DEF rows
<1>5. ASSUME NEW b \in DOMAIN rows
      PROVE  /\ RowSound(d, rows[b])
             /\ \A c \in d.tables["transactions"].required : rows[b].v[c] # NULL
  <2>1. CASE b = a
    <3>1. \A c \in d.tables["transactions"].required : c \in DOMAIN v /\ d.row[a].v[c] # NULL
      BY <1>1 DEF RowSound, Filled
    <3> QED BY <1>2, <1>3, <2>1, <3>1
  <2>2. CASE b # a
    BY <1>1, <1>3, <2>2 DEF Filled
  <2> QED BY <2>1, <2>2
<1> DEFINE u == [d EXCEPT !.row = rows]
<1>6. Sound(u) /\ SameTables(d, u) /\ u.holds = d.holds /\ u.day = d.day /\ u.row = rows
  BY <1>1, <1>3, <1>5, RowsSound
<1>7. e = u
  BY <1>4
<1> HIDE DEF u, e
<1>8. /\ Sound(e) /\ SameTables(d, e) /\ e.holds = d.holds /\ e.day = d.day
      /\ DOMAIN e.row = DOMAIN d.row
      /\ e.row[a] = Touch(d, d.row[a], v) /\ e.row[a].v = v
      /\ \A b \in DOMAIN d.row \ {a} : e.row[b] = d.row[b]
  BY <1>2, <1>3, <1>6, <1>7
<1> QED BY <1>8 DEF e

(* Whatever is written to rows and fees, the invariant stands.              *)
LEMMA TypedWrite ==
  ASSUME NEW new, Typed, Sound(new), SameTables(db, new), Writes(new)
  PROVE  Typed'
<1>1. db' = new /\ UNCHANGED <<level, release, draft, gate, covered>>
  BY DEF Writes
<1>2. Sound(db)'
  BY <1>1 DEF Sound, IsDatabase, RowSound, Filled
<1>3. OfLevel(db, level) => OfLevel(db, level)'
  BY <1>1 DEF SameTables, OfLevel, Columns, Required, At, State, PortalAt, FeesAt, RequiredAt,
              Sets
<1> QED BY <1>1, <1>2, <1>3 DEF Typed, DraftLevel, CoveredAt

-----------------------------------------------------------------------------
(* What the portal writes is not NULL.                                      *)
LEMMA NotNull ==
  /\ "received" # NULL /\ "initiated" # NULL /\ "processed" # NULL /\ "cancelled" # NULL
  /\ "processing" # NULL /\ "pending" # NULL /\ "failed" # NULL
  /\ "card" # NULL /\ "short" # NULL /\ "long" # NULL /\ "amount" # NULL /\ "value" # NULL
  /\ "name" # NULL /\ "blank" # NULL /\ "zero" # NULL
BY FeeAssumption DEF Values, Statuses

(* The seeds, the clock and the portal.                                     *)
LEMMA TypedSeed == Typed /\ Seed => Typed'
<1> SUFFICES ASSUME Typed, Seed PROVE Typed'
  OBVIOUS
<1> DEFINE fees == [k \in Keys |-> [key |-> k, amount |-> KnownAmount[k]]]
           e == [db EXCEPT !.fees = fees]
<1>1. Sound(db) /\ DOMAIN fees \subseteq Keys \cup {Version}
  BY DEF Typed
<1>2. Writes(e)
  BY DEF Seed
<1> HIDE DEF fees
<1>3. Sound(e) /\ SameTables(db, e)
  BY <1>1, FeesSound
<1> HIDE DEF e
<1> QED BY <1>2, <1>3, TypedWrite

(* a new version of a fee,                                                  *)
LEMMA TypedAddVersion == Typed /\ AddVersion => Typed'
<1> SUFFICES ASSUME Typed, AddVersion PROVE Typed'
  OBVIOUS
<1> DEFINE fees == Inserted(db.fees, Version, [key |-> FirstKey, amount |-> "raised"])
           e == [db EXCEPT !.fees = fees]
<1>1. Sound(db) /\ DOMAIN db.fees \subseteq Keys \cup {Version}
  BY DEF Typed, Sound
<1>2. DOMAIN fees = {Version} \cup DOMAIN db.fees
  BY DEF Inserted
<1>3. Writes(e)
  <2>1. Writes([db EXCEPT !.fees = Inserted(@, Version, [key |-> FirstKey, amount |-> "raised"])])
    BY DEF AddVersion
  <2>2. e = [db EXCEPT !.fees = Inserted(@, Version, [key |-> FirstKey, amount |-> "raised"])]
    BY DEF Typed, Sound, IsDatabase
  <2> QED BY <2>1, <2>2
<1> HIDE DEF fees
<1>4. Sound(e) /\ SameTables(db, e)
  BY <1>1, <1>2, FeesSound
<1> HIDE DEF e
<1> QED BY <1>3, <1>4, TypedWrite

(* the clock,                                                               *)
LEMMA TypedPass == Typed /\ Pass => Typed'
<1> SUFFICES ASSUME Typed, Pass PROVE Typed'
  OBVIOUS
<1> DEFINE e == [db EXCEPT !.day = @ + 1]
<1>1. Sound(db) /\ IsDatabase(db) /\ db.day \in Nat \ {0} /\ Filled(db)
  BY DEF Typed, Sound
<1>2. Writes(e)
  BY DEF Pass
<1>3. e = [db EXCEPT !.day = db.day + 1]
  BY <1>1
<1> HIDE DEF e
<1>4. /\ IsDatabase(e) /\ e.tables = db.tables /\ e.row = db.row /\ e.fees = db.fees
      /\ e.day = db.day + 1 /\ e.ok = db.ok
  BY <1>1, <1>3 DEF IsDatabase
<1>5. ASSUME NEW a \in DOMAIN e.row PROVE RowSound(e, e.row[a])
  <2> DEFINE r == db.row[a]
  <2>1. RowSound(db, r) /\ e.row[a] = r
    BY <1>1, <1>4 DEF Sound
  <2> HIDE DEF r
  <2>2. r.created \in Nat /\ r.updated \in Int /\ r.created \in 1 .. (db.day + 1)
        /\ r.updated \in r.created .. (db.day + 1)
    BY <1>1, <2>1 DEF RowSound
  <2> QED BY <1>4, <2>1, <2>2 DEF RowSound
<1>6. Sound(e) /\ SameTables(db, e)
  BY <1>1, <1>4, <1>5 DEF Sound, Filled, SameTables
<1> QED BY <1>2, <1>6, TypedWrite

(* A first row has a value wherever the table wants one: the release knows  *)
(* every column that is required.                                           *)
LEMMA TypedCreateReceived ==
  ASSUME NEW a \in Attempts, NEW fee \in Keys \cup {Version}
  PROVE  Typed /\ CreateReceived(a, fee) => Typed'
<1> SUFFICES ASSUME Typed, CreateReceived(a, fee) PROVE Typed'
  OBVIOUS
<1> DEFINE first == [v |-> FirstValues(fee), created |-> db.day, updated |-> db.day]
           rows == Inserted(db.row, a, first)
           e == [db EXCEPT !.row = rows]
<1>1. /\ Sound(db) /\ Filled(db) /\ db.day \in Nat \ {0} /\ DOMAIN db.row \subseteq Attempts
      /\ \A b \in DOMAIN db.row : RowSound(db, db.row[b])
      /\ db.tables["transactions"].required \subseteq db.tables["transactions"].has
  BY DEF Typed, Sound
<1>2. Writes(e) /\ Accepts /\ a \notin DOMAIN db.row
  BY DEF CreateReceived
<1>3. db.tables["transactions"].required \subseteq CodeTable.required
  BY <1>2 DEF Accepts, Transactions
<1>4. FirstValues(fee) =
        [c \in db.tables["transactions"].has |->
           CASE c \in {"fee", "fee_id"} -> fee
             [] c \in {"fee_amount", "transaction_amount"} -> "amount"
             [] c = "transaction_status" -> "received"
             [] OTHER -> IF c \in CodeTable.required THEN "value" ELSE NULL]
  BY DEF FirstValues, Transactions
<1>5. \A c \in db.tables["transactions"].required : FirstValues(fee)[c] # NULL
  <2>0. fee # NULL
    BY FeeAssumption
  <2>1. fee # NULL /\ "amount" # NULL /\ "received" # NULL /\ "value" # NULL
    BY <2>0, NotNull
  <2>2. ASSUME NEW c \in db.tables["transactions"].required
        PROVE  FirstValues(fee)[c] # NULL
    <3>1. c \in db.tables["transactions"].has /\ c \in CodeTable.required
      BY <1>1, <1>3
    <3> HIDE DEF CodeTable
    <3> QED BY <1>4, <2>1, <3>1
  <2> QED BY <2>2
<1>6. RowSound(db, first)
  BY <1>1, <1>4 DEF RowSound
<1> HIDE DEF first
<1>7. /\ DOMAIN rows = {a} \cup DOMAIN db.row /\ rows[a] = first
      /\ \A b \in DOMAIN db.row : rows[b] = db.row[b]
  BY <1>2 DEF Inserted
<1> HIDE DEF rows
<1>8. ASSUME NEW b \in DOMAIN rows
      PROVE  /\ RowSound(db, rows[b])
             /\ \A c \in db.tables["transactions"].required : rows[b].v[c] # NULL
  <2>1. CASE b = a
    <3>1. first.v = FirstValues(fee)
      BY DEF first
    <3> QED BY <1>5, <1>6, <1>7, <2>1, <3>1
  <2>2. CASE b # a
    BY <1>1, <1>7, <2>2 DEF Filled
  <2> QED BY <2>1, <2>2
<1>9. Sound(e) /\ SameTables(db, e)
  BY <1>1, <1>7, <1>8, RowsSound
<1> HIDE DEF e
<1> QED BY <1>2, <1>9, TypedWrite

(* A patch writes values to columns the row has.                            *)
LEMMA TypedPatch ==
  ASSUME NEW a \in DOMAIN db.row, NEW v, Typed, DOMAIN v = DOMAIN db.row[a].v,
         \A c \in DOMAIN v : v[c] = db.row[a].v[c] \/ v[c] # NULL, Patch(a, v)
  PROVE  Typed'
<1> DEFINE e == [db EXCEPT !.row[a] = Touch(db, @, v)]
<1>1. Sound(db)
  BY DEF Typed
<1>2. Writes(e)
  BY DEF Patch
<1>3. /\ Sound(e) /\ SameTables(db, e) /\ e.holds = db.holds /\ e.day = db.day
      /\ DOMAIN e.row = DOMAIN db.row
      /\ e.row[a] = Touch(db, db.row[a], v) /\ e.row[a].v = v
      /\ \A b \in DOMAIN db.row \ {a} : e.row[b] = db.row[b]
  BY <1>1, PatchSound
<1> HIDE DEF e
<1> QED BY <1>2, <1>3, TypedWrite

(* The portal's four patches.                                               *)
LEMMA TypedPatches ==
  ASSUME Typed, NEW a
  PROVE  /\ \A token \in Tokens : UpdateToInitiated(a, token) => Typed'
         /\ TryClaim(a) => Typed'
         /\ \A outcome \in PAID \cup {"failed"} : UpdateAfterPayGovResponse(a, outcome) => Typed'
         /\ CancelExpired(a) => Typed'
<1>0. /\ "initiated" # NULL /\ "processing" # NULL /\ "cancelled" # NULL /\ "card" # NULL
      /\ \A token \in Tokens : token # NULL
      /\ \A outcome \in PAID \cup {"failed"} : outcome # NULL
  BY NotNull, FeeAssumption DEF PAID
<1>1. ASSUME NEW token \in Tokens, UpdateToInitiated(a, token) PROVE Typed'
  <2> DEFINE v == [db.row[a].v EXCEPT !["transaction_status"] = "initiated",
                                      !["paygov_token"] = token]
  <2>1. a \in DOMAIN db.row /\ Patch(a, v)
    BY <1>1 DEF UpdateToInitiated
  <2>2. /\ DOMAIN v = DOMAIN db.row[a].v
        /\ \A c \in DOMAIN v : v[c] = db.row[a].v[c] \/ v[c] # NULL
    BY <1>0
  <2> HIDE DEF v
  <2> QED BY <2>1, <2>2, TypedPatch
<1>2. ASSUME NEW outcome \in PAID \cup {"failed"}, UpdateAfterPayGovResponse(a, outcome)
      PROVE  Typed'
  <2> DEFINE v == [db.row[a].v EXCEPT !["transaction_status"] = outcome,
                                      !["payment_method"] = "card"]
  <2>1. a \in DOMAIN db.row /\ Patch(a, v)
    BY <1>2 DEF UpdateAfterPayGovResponse
  <2>2. /\ DOMAIN v = DOMAIN db.row[a].v
        /\ \A c \in DOMAIN v : v[c] = db.row[a].v[c] \/ v[c] # NULL
    BY <1>0
  <2> HIDE DEF v
  <2> QED BY <2>1, <2>2, TypedPatch
<1>3. ASSUME CancelExpired(a) PROVE Typed'
  <2> DEFINE v == [db.row[a].v EXCEPT !["transaction_status"] = "cancelled"]
  <2>1. a \in DOMAIN db.row /\ Patch(a, v)
    BY <1>3 DEF CancelExpired
  <2>2. /\ DOMAIN v = DOMAIN db.row[a].v
        /\ \A c \in DOMAIN v : v[c] = db.row[a].v[c] \/ v[c] # NULL
    BY <1>0
  <2> HIDE DEF v
  <2> QED BY <2>1, <2>2, TypedPatch
<1>4. ASSUME TryClaim(a) PROVE Typed'
  <2> DEFINE v == [db.row[a].v EXCEPT !["transaction_status"] = "processing"]
  <2>1. a \in DOMAIN db.row /\ Patch(a, v)
    BY <1>4 DEF TryClaim
  <2>2. /\ DOMAIN v = DOMAIN db.row[a].v
        /\ \A c \in DOMAIN v : v[c] = db.row[a].v[c] \/ v[c] # NULL
    BY <1>0
  <2> HIDE DEF v
  <2> QED BY <2>1, <2>2, TypedPatch
<1> QED BY <1>1, <1>2, <1>3, <1>4

-----------------------------------------------------------------------------
(* Every step keeps the invariant.                                          *)
LEMMA TypedNext == Typed /\ [Next]_vars => Typed'
<1> SUFFICES ASSUME Typed, [Next]_vars PROVE Typed'
  OBVIOUS
<1>0. ASSUME UNCHANGED <<db, level, covered>>, release' \in 1 .. Committed,
             gate' \in {"none", "blocked", "clean", "paused", "approved"},
             gate' \in {"clean", "paused", "approved"} => draft' \in Drafts
      PROVE  Typed'
  BY <1>0 DEF Typed, Sound, IsDatabase, RowSound, Filled, OfLevel, Columns,
              Required, At, State, PortalAt, FeesAt, RequiredAt, Sets, DraftLevel, CoveredAt
<1>1. ASSUME NEW n \in 1 .. Committed, DeployCode(n) PROVE Typed'
  BY <1>0, <1>1 DEF DeployCode, Typed
<1>2. ASSUME NEW d \in Drafts, NEW acknowledged \in BOOLEAN, CheckMigrationSafety(d, acknowledged)
      PROVE  Typed'
  BY <1>0, <1>2 DEF CheckMigrationSafety, Typed
<1>3. CASE Approve
  BY <1>0, <1>3 DEF Approve, Typed
<1>4. CASE UNCHANGED vars
  BY <1>0, <1>4 DEF vars, Typed
<1>5. CASE Done
  BY <1>4, <1>5 DEF Done
<1> QED BY <1>1, <1>2, <1>3, <1>4, <1>5, TypedUp, TypedDown, TypedSeed, TypedAddVersion,
           TypedPass, TypedCreateReceived, TypedPatches DEF Next

(* The invariant of every behaviour.                                        *)
LEMMA Invariance == Spec => []Typed
BY TypedInit, TypedNext, PTL DEF Spec

(* The invariant is the type invariant and more.                            *)
LEMMA TypedTypeOK == Typed => TypeOK
<1> SUFFICES ASSUME Typed PROVE TypeOK
  OBVIOUS
<1>1. ASSUME NEW a \in DOMAIN db.row
      PROVE  /\ DOMAIN db.row[a].v = Transactions.has
             /\ \A c \in Transactions.required : db.row[a].v[c] # NULL
             /\ db.row[a].created \in 1 .. db.day
             /\ db.row[a].updated \in db.row[a].created .. db.day
  <2>1. RowSound(db, db.row[a]) /\ Filled(db)
    BY DEF Typed, Sound
  <2> QED BY <2>1 DEF RowSound, Filled, Transactions
<1>2. /\ level \in 0 .. DraftLevel /\ release \in 1 .. Committed
      /\ DOMAIN db.row \subseteq Attempts
      /\ Transactions.required \subseteq Transactions.has
      /\ DOMAIN db.fees \subseteq Keys \cup {Version}
      /\ gate \in {"none", "blocked", "clean", "paused", "approved"}
      /\ covered \subseteq Statuses
  BY CoveredStatuses DEF Typed, Sound, Transactions
<1> QED BY <1>1, <1>2 DEF TypeOK

(* TypeOK: each attempt's row has exactly the columns of its table and a    *)
(* value in each that requires one, whatever was migrated, rolled back,     *)
(* deployed and written before, for any attempts, fees and drafts.          *)
THEOREM TypesKept == Spec => []TypeOK
BY Invariance, TypedTypeOK, PTL

(* What the invariant says of the columns, in the words of the property.    *)
LEMMA TypedColumns == Typed => ColumnsByLevel
<1> SUFFICES ASSUME Typed, level <= Committed
             PROVE  /\ Transactions.has = SchemaAt(level).transactions.has
                    /\ db.tables.fees.has = SchemaAt(level).fees.has
  BY DEF ColumnsByLevel
<1>1. level \in 0 .. Committed /\ Columns(db) = At(level).has
  BY LevelsLead DEF Typed, DraftLevel, OfLevel
<1> DEFINE has == At(level).has
<1>2. /\ SchemaAt(level).transactions.has = has["transactions"]
      /\ SchemaAt(level).fees.has = has["fees"]
  BY <1>1, SchemaLevels
<1> HIDE DEF has
<1>3. has["transactions"] = Transactions.has /\ has["fees"] = db.tables.fees.has
  BY <1>1 DEF Columns, Tables, Transactions, has
<1> QED BY <1>2, <1>3

(* ColumnsByLevel: every down of db/migrations undoes its up, so that a     *)
(* level has the columns a fresh database of it has, after any history of   *)
(* migrations, refused migrations and rollbacks.                            *)
THEOREM EveryLevelItsColumns == Spec => []ColumnsByLevel
BY Invariance, TypedColumns, PTL

-----------------------------------------------------------------------------
(* What the scanner lets through.                                           *)

(* A statement without a finding renames nothing, drops no column, and      *)
(* requires no value of an INSERT that it does not supply.                  *)
LEMMA Unflagged ==
  ASSUME NEW s, s.op = "alter", ScanSql(s) = {}
  PROVE  /\ With(s, {"drop"}) = {} /\ With(s, {"rename"}) = {}
         /\ \A k \in With(s, {"add", "require"}) : ~(k.notNull /\ ~k.default)
<1>1. s.op # "drop"
  OBVIOUS
<1>2. ScanSql(s) = {r \in {"drop-column"} : With(s, {"drop"}) # {}}
       \cup {r \in {"rename"} : With(s, {"rename"}) # {}}
       \cup {r \in {"not-null-without-default"} :
               \E k \in With(s, {"add", "require"}) : k.notNull /\ ~k.default}
  BY <1>1 DEF ScanSql
<1>3. With(s, {"drop"}) = {}
  BY <1>2
<1>4. With(s, {"rename"}) = {}
  BY <1>2
<1>5. ~ \E k \in With(s, {"add", "require"}) : k.notNull /\ ~k.default
  BY <1>2
<1> QED
  BY <1>3, <1>4, <1>5

(* AfterAlter with nothing dropped or renamed only adds columns.            *)
LEMMA NothingGone ==
  ASSUME NEW s, With(s, {"drop"}) = {}, With(s, {"rename"}) = {}
  PROVE  With(s, {"drop", "rename"}) = {}
BY DEF With

(* Expand and contract: an ALTER TABLE that the scanner lets through keeps  *)
(* every column a running release names and requires nothing of its INSERTs *)
(* that the table did not require, so a release whose statements worked on  *)
(* the old table works on the new one.                                      *)
THEOREM UnflaggedKeepsRelease ==
  ASSUME NEW t, NEW code, NEW s, s.op = "alter", ScanSql(s) = {},
         code.has \subseteq t.has, t.required \subseteq code.required
  PROVE  /\ code.has \subseteq AfterAlter(t, s).has
         /\ AfterAlter(t, s).required \subseteq code.required
<1>1. /\ With(s, {"drop"}) = {} /\ With(s, {"rename"}) = {}
      /\ \A k \in With(s, {"add", "require"}) : ~(k.notNull /\ ~k.default)
  BY Unflagged
<1>2. With(s, {"drop", "rename"}) = {}
  BY <1>1, NothingGone
<1> DEFINE gone  == {k.col : k \in With(s, {"drop", "rename"})}
           named == {k.to : k \in {l \in With(s, {"rename"}) : l.col \in t.required}}
           asked == {k.to : k \in {l \in With(s, {"add", "require"}) :
                                      l.notNull /\ ~l.default}}
<1>3. gone = {} /\ named = {} /\ asked = {}
  BY <1>1, <1>2
<1>4. AfterAlter(t, s).has = (t.has \ gone) \cup {k.to : k \in With(s, {"add", "rename"})}
  BY DEF AfterAlter
<1>5. AfterAlter(t, s).required =
        ((t.required \ gone) \cup named \cup asked) \ {k.to : k \in With(s, {"relax"})}
  BY DEF AfterAlter
<1>6. AfterAlter(t, s).required \subseteq t.required
  BY <1>3, <1>5
<1> QED
  BY <1>3, <1>4, <1>6

(* A table that kept the columns of another and asks for no more.           *)
Keeps(h, R, g, Q) == h \subseteq g /\ Q \subseteq R

(* The same of every statement, to a database whose portal has a table.     *)
LEMMA StatementKeeps ==
  ASSUME NEW d, NEW s, IsDatabase(d), IsStatement(s), ScanSql(s) = {},
         Apply(d, s).ok, Columns(d)[T] # {}
  PROVE  /\ Columns(Apply(d, s))[T] # {}
         /\ Keeps(Columns(d)[T], Required(d), Columns(Apply(d, s))[T], Required(Apply(d, s)))
<1> DEFINE e == Apply(d, s)
           t == d.tables["transactions"]
           u == e.tables["transactions"]
<1>0. /\ Columns(d)[T] = t.has /\ Required(d) = t.required
      /\ Columns(e)[T] = u.has /\ Required(e) = u.required
  BY DEF Columns, Required, T, Tables
<1> SUFFICES t.has \subseteq u.has /\ u.required \subseteq t.required
  BY <1>0 DEF Keeps
<1>1. CASE s.op = "alter"
  <2> DEFINE b == AlterIn(d, s)
  <2>1. s.table \in Tables
    BY <1>1 DEF IsStatement
  <2>2. /\ b.tables[s.table] = AfterAlter(d.tables[s.table], s)
        /\ \A n \in Tables \ {s.table} : b.tables[n] = d.tables[n]
    BY <2>1, AlterTables
  <2>3. e = b
    BY <1>1 DEF Apply
  <2>4. /\ t.has \subseteq AfterAlter(t, s).has
        /\ AfterAlter(t, s).required \subseteq t.required
    BY <1>1, UnflaggedKeepsRelease
  <2> HIDE DEF b, e
  <2> QED BY <2>2, <2>3, <2>4 DEF Tables
<1>2. CASE s.op = "update"
  <2>1. e = UpdateIn(d, s.how)
    BY <1>2 DEF Apply
  <2> HIDE DEF e
  <2>2. e.tables = d.tables
    BY <2>1, UpdateFields
  <2> QED BY <2>2
<1>3. CASE s.op \in {"trigger", "other"}
  <2>1. e = d \/ e = [d EXCEPT !.holds = s.holds]
    BY <1>3 DEF Apply
  <2> HIDE DEF e
  <2>2. e.tables = d.tables
    BY <2>1 DEF IsDatabase
  <2> QED BY <2>2
<1>4. CASE s.op = "create"
  <2> DEFINE new == Anew(d, s.table, s.has, s.required)
             free == d.tables[s.table].has = {}
  <2>1. s.table \in Tables
    BY <1>4 DEF IsStatement
  <2>2. e = [new EXCEPT !.ok = free]
    BY <1>4 DEF Apply
  <2>3. /\ IsDatabase(new)
        /\ new.tables[s.table] = [has |-> s.has, required |-> s.required]
        /\ \A n \in Tables \ {s.table} : new.tables[n] = d.tables[n]
        /\ new.row = IF s.table = "transactions" THEN <<>> ELSE d.row
        /\ new.fees = IF s.table = "fees" THEN <<>> ELSE d.fees
        /\ new.holds = d.holds /\ new.day = d.day /\ new.wide = d.wide /\ new.ok = d.ok
    BY <2>1, AnewFields
  <2>4. e.ok
    OBVIOUS
  <2>5. t.has # {}
    BY <1>0
  <2> HIDE DEF new, e, free
  <2>6. e.tables = new.tables /\ e.ok = free
    BY <2>2, <2>3 DEF IsDatabase
  <2>7. s.table # "transactions"
    BY <2>4, <2>5, <2>6 DEF free
  <2> QED BY <2>3, <2>6, <2>7 DEF Tables
<1>5. CASE s.op = "drop"
  BY <1>5 DEF ScanSql
<1>6. CASE s.op = "check"
  <2>1. e.tables = d.tables
    BY <1>6, CheckFields
  <2> HIDE DEF e
  <2> QED BY <2>1
<1> QED BY <1>1, <1>2, <1>3, <1>4, <1>5, <1>6 DEF IsStatement

(* A database that can stand in for d: no release notices the difference.   *)
StandsFor(d, e) ==
  /\ IsDatabase(e) /\ Columns(e)[T] # {}
  /\ Keeps(Columns(d)[T], Required(d), Columns(e)[T], Required(e))

(* A statement the scanner says nothing of.                                 *)
Clean(s) == ScanSql(s) = {}

(* A migration without a finding, once it went through.                     *)
LEMMA RunKeeps ==
  ASSUME NEW d, NEW ss, IsDatabase(d), AreStatements(ss), ScanStatements(ss) = {},
         Run(d, ss).ok, Columns(d)[T] # {}
  PROVE  Keeps(Columns(d)[T], Required(d), Columns(Run(d, ss))[T], Required(Run(d, ss)))
<1> DEFINE n == Len(ss)
<1>1. n \in Nat /\ DOMAIN ss = 1 .. n
  BY DEF AreStatements
<1>2. PICK f : /\ f[0] = d /\ f[n] = Run(d, ss)
               /\ \A i \in 0 .. n : f[i].ok
               /\ \A i \in 1 .. n : f[i] = Apply(f[i - 1], ss[i])
  BY <1>1, RunApplies
<1>3. \A i \in 1 .. n : IsStatement(ss[i]) /\ Clean(ss[i])
  <2>1. \A i \in 1 .. n : ss[i] \in Range(ss)
    BY <1>1 DEF Range
  <2>2. \A s \in Range(ss) : Clean(s)
    BY DEF ScanStatements, Clean
  <2> QED BY <2>1, <2>2 DEF AreStatements
<1> DEFINE Fit(i) == StandsFor(d, f[i])
           I == {i \in Nat : i <= n => Fit(i)}
<1>4. 0 \in I
  <2>1. StandsFor(d, d)
    BY DEF StandsFor, Keeps
  <2>2. f[0] = d
    BY <1>2
  <2>3. StandsFor(d, f[0])
    BY <2>1, <2>2
  <2> QED BY <2>3
<1>5. ASSUME NEW i \in I PROVE i + 1 \in I
  <2>1. SUFFICES ASSUME i + 1 <= n PROVE Fit(i + 1)
    OBVIOUS
  <2>2. i + 1 \in 1 .. n /\ i + 1 \in 0 .. n /\ i + 1 - 1 = i /\ Fit(i)
    BY <1>1, <1>5, <2>1
  <2>3. f[i + 1] = Apply(f[i], ss[i + 1]) /\ IsStatement(ss[i + 1]) /\ Clean(ss[i + 1])
        /\ f[i + 1].ok
    BY <1>2, <1>3, <2>2
  <2>4. IsDatabase(f[i + 1])
    BY <2>2, <2>3, ApplyColumns DEF StandsFor
  <2>5. /\ Columns(f[i + 1])[T] # {}
        /\ Keeps(Columns(f[i])[T], Required(f[i]), Columns(f[i + 1])[T], Required(f[i + 1]))
    BY <2>2, <2>3, StatementKeeps DEF StandsFor, Clean
  <2> QED BY <2>2, <2>4, <2>5 DEF StandsFor, Keeps
<1>6. I = Nat
  BY <1>4, <1>5, Counting
<1>7. Fit(n)
  <2> HIDE DEF n
  <2> QED BY <1>1, <1>6
<1> HIDE DEF I
<1> QED BY <1>2, <1>7 DEF StandsFor

-----------------------------------------------------------------------------
(* From a release to a later level, if nothing between was found            *)
(* destructive.                                                             *)
LEMMA PortalNotEmpty ==
  \A n \in 1 .. Committed : At(n).has[T] # {}
<1>1. P1 # {} /\ P2 # {} /\ P4 # {} /\ P5 # {} /\ P7 # {} /\ P9 # {} /\ P10 # {}
  BY DEF P1, P2, P4, P5, P7, P9, P10
<1>2. \A n \in 1 .. Committed : PortalAt(n) # {}
  BY <1>1 DEF PortalAt
<1>3. \A n : At(n).has[T] = PortalAt(n)
  BY DEF At, State, Sets, Tables, T
<1> QED BY <1>2, <1>3

(* One committed migration without a finding.                               *)
LEMMA FreshKeeps ==
  ASSUME NEW m \in 1 .. Committed, m # 1, ScanStatements(Migrations[m].up) = {}
  PROVE  Keeps(At(m - 1).has[T], RequiredAt(m - 1), At(m).has[T], RequiredAt(m))
<1>1. /\ Committed = 13 /\ m - 1 \in 1 .. Committed /\ m - 1 \in 0 .. Committed
      /\ m \in 0 .. Committed
  BY LevelsLead
<1>2. /\ Bare(Fresh[m - 1]) /\ Columns(Fresh[m - 1]) = At(m - 1).has
      /\ Required(Fresh[m - 1]) = RequiredAt(m - 1)
      /\ Bare(Fresh[m]) /\ Columns(Fresh[m]) = At(m).has /\ Required(Fresh[m]) = RequiredAt(m)
  BY <1>1, FreshLevels
<1>3. Fresh[m] = Run(Fresh[m - 1], Migrations[m].up) /\ AreStatements(Migrations[m].up)
  <2>1. Leads(At(m - 1), Migrations[m].up, At(m))
    BY LevelsLead
  <2> QED BY <2>1, FreshSteps, LeadsStatements
<1>4. At(m - 1).has[T] # {}
  BY <1>1, PortalNotEmpty
<1>5. Columns(Fresh[m - 1])[T] # {}
  BY <1>2, <1>4
<1> QED BY <1>2, <1>3, <1>5, RunKeeps DEF Bare

-----------------------------------------------------------------------------
(* Every level up to n keeps what release r names, if nothing in between    *)
(* was found destructive.                                                   *)
UpClean(m)      == ScanStatements(Migrations[m].up) = {}
LevelKeeps(r, n) == Keeps(At(r).has[T], RequiredAt(r), At(n).has[T], RequiredAt(n))

(* All those from a release to a later level.                               *)
LEMMA LevelsKeep ==
  ASSUME NEW r \in 1 .. Committed, NEW n \in r .. Committed, \A m \in (r + 1) .. n : UpClean(m)
  PROVE  LevelKeeps(r, n)
<1> DEFINE I == {i \in Nat : r + i <= n => LevelKeeps(r, r + i)}
<1>0. Committed = 13
  BY LevelsLead
<1>1. 0 \in I
  <2>1. LevelKeeps(r, r)
    BY DEF LevelKeeps, Keeps
  <2>2. r + 0 = r
    BY <1>0
  <2>3. LevelKeeps(r, r + 0)
    BY <2>1, <2>2
  <2> QED BY <2>3
<1>2. ASSUME NEW i \in I PROVE i + 1 \in I
  <2>1. SUFFICES ASSUME r + (i + 1) <= n PROVE LevelKeeps(r, r + (i + 1))
    OBVIOUS
  <2>2. PICK m \in 1 .. Committed : m = r + (i + 1)
    BY <1>0, <2>1
  <2>3. m # 1 /\ UpClean(m) /\ m - 1 = r + i /\ r + i <= n
    BY <1>0, <2>1, <2>2
  <2>4. LevelKeeps(r, m - 1)
    BY <1>2, <2>3
  <2>5. LevelKeeps(m - 1, m)
    BY <2>3, FreshKeeps DEF UpClean, LevelKeeps
  <2>6. LevelKeeps(r, m)
    BY <2>4, <2>5 DEF LevelKeeps, Keeps
  <2> QED BY <2>2, <2>6
<1>3. I = Nat
  BY <1>1, <1>2, Counting
<1>4. n - r \in I /\ r + (n - r) = n
  <2>1. n - r \in Nat /\ r + (n - r) = n
    BY <1>0
  <2> HIDE DEF I
  <2> QED BY <1>3, <2>1
<1> QED BY <1>4

-----------------------------------------------------------------------------
(* The invariant: a clean draft has no finding, and the database it made    *)
(* stands in for the last committed level.                                  *)
Landed == Keeps(At(Committed).has[T], RequiredAt(Committed), Columns(db)[T], Required(db))
Reviewed ==
  /\ Typed
  /\ gate = "clean" => ScanStatements(draft) = {}
  /\ level = DraftLevel /\ gate = "clean" => Landed

(* It holds at first.                                                       *)
LEMMA ReviewedInit == Init => Reviewed
<1>1. DraftLevel = 14
  BY LevelsLead DEF DraftLevel
<1> QED BY <1>1, TypedInit DEF Init, Reviewed

(* Nothing but a migration changes a table.                                 *)
LEMMA TablesStay ==
  ASSUME Typed, [Next]_vars, ~Up, ~Down
  PROVE  db'.tables = db.tables /\ level' = level
<1>0. IsDatabase(db)
  BY DEF Typed, Sound
<1>1. ASSUME Seed \/ AddVersion \/ Pass PROVE db'.tables = db.tables /\ level' = level
  BY <1>0, <1>1 DEF Seed, AddVersion, Pass, Writes, IsDatabase
<1>2. ASSUME NEW a \in Attempts, NEW fee \in Keys \cup {Version}, CreateReceived(a, fee)
      PROVE  db'.tables = db.tables /\ level' = level
  BY <1>0, <1>2 DEF CreateReceived, Writes, IsDatabase
<1>3. ASSUME NEW a \in Attempts, NEW v, Patch(a, v)
      PROVE  db'.tables = db.tables /\ level' = level
  BY <1>0, <1>3 DEF Patch, Writes, IsDatabase
<1>4. ASSUME NEW a \in Attempts, NEW token \in Tokens, UpdateToInitiated(a, token)
      PROVE  db'.tables = db.tables /\ level' = level
  BY <1>3, <1>4 DEF UpdateToInitiated
<1>5. ASSUME NEW a \in Attempts, NEW outcome,
             TryClaim(a) \/ UpdateAfterPayGovResponse(a, outcome) \/ CancelExpired(a)
      PROVE  db'.tables = db.tables /\ level' = level
  BY <1>3, <1>5 DEF TryClaim, UpdateAfterPayGovResponse, CancelExpired
<1>6. ASSUME NEW n \in 1 .. Committed, DeployCode(n)
      PROVE  db'.tables = db.tables /\ level' = level
  BY <1>6 DEF DeployCode
<1>7. ASSUME NEW d \in Drafts, NEW acknowledged \in BOOLEAN, CheckMigrationSafety(d, acknowledged)
      PROVE  db'.tables = db.tables /\ level' = level
  BY <1>7 DEF CheckMigrationSafety
<1>8. ASSUME Approve \/ Done \/ UNCHANGED vars
      PROVE  db'.tables = db.tables /\ level' = level
  BY <1>8 DEF Approve, Done, vars
<1> QED BY <1>1, <1>2, <1>4, <1>5, <1>6, <1>7, <1>8 DEF Next

(* The draft, once it is migrated.                                          *)
LEMMA ReviewedUp == Reviewed /\ Up => Reviewed'
<1> SUFFICES ASSUME Reviewed, Up PROVE Reviewed'
  OBVIOUS
<1>0. DraftLevel = 14 /\ Committed = 13 /\ DraftLevel' = 14
  BY LevelsLead DEF DraftLevel
<1>1. Typed'
  BY TypedUp DEF Reviewed
<1>2. UNCHANGED <<draft, gate>> /\ (gate = "clean" => ScanStatements(draft) = {})
  BY DEF Up, Reviewed
<1>3. (gate = "clean" => ScanStatements(draft) = {})'
  BY <1>2 DEF ScanStatements
<1>4. ASSUME level' = DraftLevel, gate = "clean" PROVE Landed'
  <2> DEFINE ss == Statements(level + 1)
             after == Run(db, ss)
  <2>1. Typed /\ level \in Nat
    BY <1>0 DEF Reviewed, Typed
  <2>2. CASE ~Went(after, IndexUp(level + 1))
    <3>1. UNCHANGED <<db, level>> /\ (level < Committed \/ level = Committed)
      BY <2>2 DEF Up, Migrated
    <3> QED BY <1>0, <1>4, <2>1, <3>1
  <2>3. CASE Went(after, IndexUp(level + 1))
    <3>1. db' = after /\ level' = level + 1
      BY <2>3 DEF Up, Migrated
    <3>2. level = Committed /\ ss = draft
      BY <1>0, <1>4, <2>1, <3>1 DEF Statements
    <3>3. /\ IsDatabase(db) /\ Columns(db) = At(Committed).has
          /\ Required(db) \subseteq RequiredAt(Committed)
      BY <1>0, <2>1, <3>2 DEF Typed, Sound, OfLevel
    <3>4. AreStatements(draft)
      BY <1>4, <2>1, DraftStatements DEF Typed
    <3>5. Columns(db)[T] # {}
      <4>1. At(Committed).has[T] # {}
        BY <1>0, PortalNotEmpty
      <4> QED BY <3>3, <4>1
    <3>6. ScanStatements(draft) = {} /\ Run(db, draft).ok
      BY <1>2, <1>4, <2>3, <3>2 DEF Went
    <3> HIDE DEF after, ss
    <3>7. Keeps(Columns(db)[T], Required(db), Columns(Run(db, draft))[T],
                Required(Run(db, draft)))
      BY <3>3, <3>4, <3>5, <3>6, RunKeeps
    <3>8. after = Run(db, draft)
      BY <3>2 DEF after
    <3>9. Keeps(At(Committed).has[T], RequiredAt(Committed), Columns(after)[T], Required(after))
      BY <3>3, <3>7, <3>8 DEF Keeps
    <3> QED BY <3>1, <3>9 DEF Landed, Keeps, Columns, Required
  <2> QED BY <2>2, <2>3
<1> QED BY <1>0, <1>1, <1>2, <1>3, <1>4 DEF Reviewed

(* Every step keeps the invariant.                                          *)
LEMMA ReviewedNext == Reviewed /\ [Next]_vars => Reviewed'
<1> SUFFICES ASSUME Reviewed, [Next]_vars PROVE Reviewed'
  OBVIOUS
<1>0. DraftLevel = 14 /\ Committed = 13 /\ DraftLevel' = 14
  BY LevelsLead DEF DraftLevel
<1>1. Typed /\ Typed'
  BY TypedNext DEF Reviewed
<1>2. CASE Up
  BY <1>2, ReviewedUp
<1>3. CASE Down
  <2>1. gate' = "none"
    BY <1>3 DEF Down
  <2> QED BY <1>1, <2>1 DEF Reviewed
<1>4. ASSUME ~Up, ~Down PROVE Reviewed'
  <2>1. db'.tables = db.tables /\ level' = level
    BY <1>1, <1>4, TablesStay
  <2>2. Landed => Landed'
    BY <2>1 DEF Landed, Columns, Required, Keeps
  <2>3. ASSUME UNCHANGED <<draft, gate>> PROVE Reviewed'
    <3>1. (gate = "clean" => ScanStatements(draft) = {})'
      BY <2>3 DEF Reviewed, ScanStatements
    <3> QED BY <1>0, <1>1, <2>1, <2>2, <2>3, <3>1 DEF Reviewed
  <2>4. ASSUME NEW d \in Drafts, NEW acknowledged \in BOOLEAN,
               CheckMigrationSafety(d, acknowledged)
        PROVE  Reviewed'
    <3>1. draft' = d /\ level = Committed
          /\ gate' = IF ScanStatements(d) = {} THEN "clean"
                     ELSE IF acknowledged THEN "paused" ELSE "blocked"
      BY <2>4 DEF CheckMigrationSafety
    <3>2. (gate = "clean" => ScanStatements(draft) = {})'
      BY <3>1 DEF ScanStatements
    <3> QED BY <1>0, <1>1, <2>1, <3>1, <3>2 DEF Reviewed
  <2>5. ASSUME Approve PROVE Reviewed'
    <3>1. gate' = "approved"
      BY <2>5 DEF Approve
    <3> QED BY <1>1, <3>1 DEF Reviewed
  <2>6. ASSUME NEW a \in Attempts, NEW v, Patch(a, v) PROVE UNCHANGED <<draft, gate>>
    BY <2>6 DEF Patch, Writes
  <2>7. \/ UNCHANGED <<draft, gate>>
        \/ \E d \in Drafts, acknowledged \in BOOLEAN : CheckMigrationSafety(d, acknowledged)
        \/ Approve
    <3>1. Seed \/ AddVersion \/ Pass \/ Done \/ UNCHANGED vars => UNCHANGED <<draft, gate>>
      BY DEF Seed, AddVersion, Pass, Done, Writes, vars
    <3>2. \A n \in 1 .. Committed : DeployCode(n) => UNCHANGED <<draft, gate>>
      BY DEF DeployCode
    <3>3. \A a \in Attempts, fee \in Keys \cup {Version} :
            CreateReceived(a, fee) => UNCHANGED <<draft, gate>>
      BY DEF CreateReceived, Writes
    <3>4. \A a \in Attempts, token \in Tokens :
            UpdateToInitiated(a, token) => UNCHANGED <<draft, gate>>
      BY <2>6 DEF UpdateToInitiated
    <3>5. \A a \in Attempts, outcome \in PAID \cup {"failed"} :
            TryClaim(a) \/ UpdateAfterPayGovResponse(a, outcome) \/ CancelExpired(a)
              => UNCHANGED <<draft, gate>>
      BY <2>6 DEF TryClaim, UpdateAfterPayGovResponse, CancelExpired
    <3> QED BY <1>4, <3>1, <3>2, <3>3, <3>4, <3>5 DEF Next
  <2> QED BY <2>3, <2>4, <2>5, <2>7
<1> QED BY <1>2, <1>3, <1>4

(* What it says of the release that runs.                                   *)
LEMMA ReviewedKeeps == Reviewed => UnattendedKeepsRelease
<1> SUFFICES ASSUME Reviewed, release <= level,
                    \A m \in (release + 1) .. level : Unattended(m)
             PROVE  Accepts
  BY DEF UnattendedKeepsRelease
<1>0. DraftLevel = 14 /\ Committed = 13
  BY LevelsLead DEF DraftLevel
<1>1. /\ release \in 1 .. Committed /\ level \in 0 .. DraftLevel
      /\ level <= Committed => OfLevel(db, level)
  BY DEF Reviewed, Typed
<1> DEFINE top == IF level = DraftLevel THEN Committed ELSE level
<1>2. top \in release .. Committed /\ top <= level /\ (level # DraftLevel => top = level)
  BY <1>0, <1>1
<1>3. \A m \in (release + 1) .. top : UpClean(m)
  <2>1. ASSUME NEW m \in (release + 1) .. top PROVE UpClean(m)
    <3>1. m \in (release + 1) .. level /\ m # DraftLevel
      BY <1>0, <1>1, <1>2
    <3> QED BY <3>1 DEF Unattended, UpClean
  <2> QED BY <2>1
<1>4. Keeps(At(top).has[T], RequiredAt(top), Columns(db)[T], Required(db))
  <2>1. CASE level = DraftLevel
    <3>1. Unattended(DraftLevel)
      BY <1>0, <1>1, <2>1
    <3> QED BY <2>1, <3>1 DEF Unattended, Reviewed, Landed
  <2>2. CASE level # DraftLevel
    <3>1. top = level /\ OfLevel(db, level)
      BY <1>0, <1>1, <1>2, <2>2
    <3> QED BY <3>1 DEF OfLevel, Keeps
  <2> QED BY <2>1, <2>2
<1> HIDE DEF top
<1>5. LevelKeeps(release, top)
  BY <1>1, <1>2, <1>3, LevelsKeep
<1>6. Keeps(At(release).has[T], RequiredAt(release), Columns(db)[T], Required(db))
  BY <1>4, <1>5 DEF LevelKeeps, Keeps
<1>7. /\ CodeTable.has = At(release).has[T] /\ CodeTable.required = RequiredAt(release)
      /\ Transactions.has = Columns(db)[T] /\ Transactions.required = Required(db)
  <2>1. release \in 0 .. Committed
    BY <1>0, <1>1
  <2>2. CodeTable.has = At(release).has[T] /\ CodeTable.required = RequiredAt(release)
    BY <2>1, SchemaLevels DEF CodeTable, T
  <2> QED BY <2>2 DEF Transactions, Columns, Required, T, Tables
<1> QED BY <1>6, <1>7 DEF Accepts, ReadsWork, Keeps

(* In every instance, for every set of drafts: between a deploy of code and *)
(* the migrations after it, and when the code is redeployed one release     *)
(* back, the running release's statements work, as long as no migration     *)
(* since was found destructive by the scanner.                              *)
THEOREM UnattendedWorks == Spec => []UnattendedKeepsRelease
<1>1. Init => Reviewed
  BY ReviewedInit
<1>2. Reviewed /\ [Next]_vars => Reviewed'
  BY ReviewedNext
<1>3. Reviewed => UnattendedKeepsRelease
  BY ReviewedKeeps
<1> QED BY <1>1, <1>2, <1>3, PTL DEF Spec

-----------------------------------------------------------------------------
(* The day of a cancellation.                                               *)

(* A statement that touches no attempt's status; and not the trigger.       *)
SparesStatus(s) ==
  /\ s.op = "update" => s.how \notin {"superseded", "cancel backlog", "restore"}
  /\ s.op = "alter" => \A k \in With(s, {"drop", "rename"}) : k.col # "transaction_status"
Spares(s) == s.op # "trigger" /\ SparesStatus(s)

(* The attempts of e are attempts of d, with the status they had.           *)
SameStatus(d, e) ==
  \A a \in DOMAIN e.row :
    /\ a \in DOMAIN d.row
    /\ "transaction_status" \in DOMAIN d.row[a].v =>
         /\ "transaction_status" \in DOMAIN e.row[a].v
         /\ e.row[a].v["transaction_status"] = d.row[a].v["transaction_status"]

(* Whoever is cancelled between d and e keeps its day.                      *)
DayHeld(d, e) ==
  \A a \in DOMAIN d.row \cap DOMAIN e.row :
    /\ "transaction_status" \in DOMAIN d.row[a].v
    /\ e.row[a].v["transaction_status"] = "cancelled"
    /\ d.row[a].v["transaction_status"] # "cancelled"
    => e.row[a].updated = d.row[a].updated

(* Nobody is cancelled where every status stays.                            *)
LEMMA SameStatusHolds ==
  ASSUME NEW d, NEW e, SameStatus(d, e)
  PROVE  DayHeld(d, e)
BY DEF SameStatus, DayHeld

(* An UPDATE, while the trigger holds a cancellation's day.                 *)
LEMMA UpdateHolds ==
  ASSUME NEW d, NEW how, Sound(d)
  PROVE  LET e == UpdateIn(d, how) IN
           /\ e.holds = d.holds
           /\ d.holds \/ how = "restore" => DayHeld(d, e)
           /\ how \notin {"superseded", "cancel backlog", "restore"} => SameStatus(d, e)
<1> DEFINE e == UpdateIn(d, how)
<1>0. \A a \in DOMAIN d.row : RowSound(d, d.row[a])
  BY DEF Sound
<1>1. /\ IsDatabase(e)
      /\ e.tables = d.tables /\ e.holds = d.holds /\ e.day = d.day
      /\ how = "fee_key = fee_id" =>
           /\ e.row = d.row /\ e.ok = d.ok
           /\ e.fees = [id \in DOMAIN d.fees |-> [d.fees[id] EXCEPT !.key = id]]
      /\ how # "fee_key = fee_id" =>
           /\ e.fees = d.fees /\ e.ok = Filled(e)
           /\ e.row = [a \in DOMAIN d.row |->
                IF Meets(how, d, a)
                THEN Touch(d, d.row[a], Written(how, d, d.row[a].v)) ELSE d.row[a]]
  BY UpdateFields DEF Sound
<1> DEFINE new(a) == Written(how, d, d.row[a].v)
<1> HIDE DEF e
<1>2. /\ DOMAIN e.row = DOMAIN d.row
      /\ \A a \in DOMAIN d.row :
           e.row[a] = d.row[a] \/ (Meets(how, d, a) /\ e.row[a] = Touch(d, d.row[a], new(a)))
  BY <1>1
<1>3. ASSUME NEW a \in DOMAIN d.row
      PROVE  /\ Touch(d, d.row[a], new(a)).v = new(a)
             /\ d.holds /\ new(a)["transaction_status"] = "cancelled"
                  /\ d.row[a].v["transaction_status"] # "cancelled"
                  => Touch(d, d.row[a], new(a)).updated = d.row[a].updated
  <2> DEFINE r == d.row[a]
             v == new(a)
             cancels == /\ v["transaction_status"] = "cancelled"
                        /\ r.v["transaction_status"] # "cancelled"
             stamp == IF d.holds /\ cancels THEN r.updated ELSE d.day
  <2>1. RowSound(d, r)
    BY <1>0
  <2> HIDE DEF r, v
  <2>2. Touch(d, r, v) = [r EXCEPT !.v = v, !.updated = stamp]
    BY <2>1 DEF Touch, RowSound
  <2> HIDE DEF stamp
  <2>3. Touch(d, r, v).v = v /\ Touch(d, r, v).updated = stamp
    BY <2>1, <2>2 DEF RowSound
  <2> QED BY <2>3 DEF r, v, stamp
<1>4. ASSUME d.holds PROVE DayHeld(d, e)
  BY <1>2, <1>3, <1>4 DEF DayHeld
<1>5. ASSUME how = "restore" PROVE DayHeld(d, e)
  <2>1. \A a \in DOMAIN d.row :
          "transaction_status" \in DOMAIN d.row[a].v => new(a)["transaction_status"] = "initiated"
    BY <1>5 DEF Written
  <2> QED BY <1>2, <1>3, <2>1 DEF DayHeld
<1>6. ASSUME how \notin {"superseded", "cancel backlog", "restore"} PROVE SameStatus(d, e)
  <2>1. ASSUME NEW a \in DOMAIN d.row, Meets(how, d, a)
        PROVE  /\ DOMAIN new(a) = DOMAIN d.row[a].v
               /\ "transaction_status" \in DOMAIN d.row[a].v =>
                    new(a)["transaction_status"] = d.row[a].v["transaction_status"]
    <3>1. how \in {"fee details", "fee amounts", "fee keys", "blank methods", "amounts",
                   "zero amounts", "amounts by fee"}
      BY <1>6, <2>1 DEF Meets
    <3>2. \A v : DOMAIN Written(how, d, v) = DOMAIN v
      BY DEF Written
    <3>3. \A v : "transaction_status" \in DOMAIN v =>
                   Written(how, d, v)["transaction_status"] = v["transaction_status"]
      BY <3>1 DEF Written
    <3> QED BY <3>2, <3>3
  <2> HIDE DEF new
  <2>2. ASSUME NEW a \in DOMAIN e.row
        PROVE  /\ a \in DOMAIN d.row
               /\ "transaction_status" \in DOMAIN d.row[a].v =>
                    /\ "transaction_status" \in DOMAIN e.row[a].v
                    /\ e.row[a].v["transaction_status"] = d.row[a].v["transaction_status"]
    <3>1. a \in DOMAIN d.row
      BY <1>2
    <3>2. CASE e.row[a] = d.row[a]
      BY <3>1, <3>2
    <3>3. CASE Meets(how, d, a) /\ e.row[a] = Touch(d, d.row[a], new(a))
      <4>1. e.row[a].v = new(a)
        BY <1>3, <3>1, <3>3
      <4> QED BY <2>1, <3>1, <3>3, <4>1
    <3> QED BY <1>2, <3>1, <3>2, <3>3
  <2> QED BY <2>2 DEF SameStatus
<1> QED BY <1>1, <1>4, <1>5, <1>6 DEF e

(* A statement that spares the status, as those of a draft.                 *)
LEMMA ApplySpares ==
  ASSUME NEW d, NEW s, Sound(d), IsStatement(s), SparesStatus(s)
  PROVE  /\ SameStatus(d, Apply(d, s))
         /\ s.op # "trigger" => Apply(d, s).holds = d.holds
<1> DEFINE e == Apply(d, s)
<1>0. IsDatabase(d) /\ \A a \in DOMAIN d.row : RowSound(d, d.row[a])
  BY DEF Sound
<1>1. CASE s.op = "alter"
  <2> DEFINE b == AlterIn(d, s)
             here == AfterAlter(d.tables[s.table], s)
  <2>1. s.table \in Tables
    BY <1>1 DEF IsStatement
  <2>2. /\ IsDatabase(b)
        /\ b.tables[s.table] = here
        /\ \A t \in Tables \ {s.table} : b.tables[t] = d.tables[t]
        /\ b.row = IF s.table # "transactions" THEN d.row
                   ELSE [a \in DOMAIN d.row |-> [d.row[a] EXCEPT !.v = Moved(@, here.has, s)]]
        /\ b.fees = d.fees /\ b.holds = d.holds /\ b.day = d.day
        /\ b.wide = IF With(s, {"widen", "narrow"}) = {} THEN d.wide
                    ELSE With(s, {"widen"}) # {}
        /\ b.ok = (Resolves(d.tables[s.table], s) /\ Filled(b) /\ Fits(b, s))
    BY <1>0, <2>1, AlterFields
  <2>3. e = b
    BY <1>1 DEF Apply
  <2> HIDE DEF b, e, here
  <2>4. CASE s.table # "transactions"
    <3>1. e.row = d.row /\ e.holds = d.holds
      BY <2>2, <2>3, <2>4
    <3> QED BY <3>1 DEF SameStatus, e
  <2>5. CASE s.table = "transactions"
    <3>1. /\ DOMAIN e.row = DOMAIN d.row /\ e.holds = d.holds
          /\ \A a \in DOMAIN d.row :
               e.row[a] = [d.row[a] EXCEPT !.v = Moved(d.row[a].v, here.has, s)]
      BY <2>2, <2>3, <2>5
    <3>2. ASSUME NEW a \in DOMAIN d.row, "transaction_status" \in DOMAIN d.row[a].v
          PROVE  /\ "transaction_status" \in DOMAIN e.row[a].v
                 /\ e.row[a].v["transaction_status"] = d.row[a].v["transaction_status"]
      <4> DEFINE v == d.row[a].v
      <4>1. RowSound(d, d.row[a]) /\ DOMAIN v = d.tables["transactions"].has
        BY <1>0 DEF RowSound
      <4>2. e.row[a].v = Moved(v, here.has, s)
        BY <3>1, <4>1 DEF RowSound
      <4>3. "transaction_status" \in here.has
        BY <1>1, <2>5, <3>2, <4>1 DEF here, AfterAlter, SparesStatus
      <4> HIDE DEF v
      <4>4. /\ DOMAIN Moved(v, here.has, s) = here.has
            /\ "transaction_status" \in DOMAIN v
                 => Moved(v, here.has, s)["transaction_status"] = v["transaction_status"]
        BY <4>3 DEF Moved
      <4> QED BY <3>2, <4>2, <4>3, <4>4 DEF v
    <3> QED BY <3>1, <3>2 DEF SameStatus, e
  <2> QED BY <2>4, <2>5
<1>2. CASE s.op = "update"
  <2> DEFINE b == UpdateIn(d, s.how)
             how == s.how
  <2>1. e = b /\ how \notin {"superseded", "cancel backlog", "restore"}
    BY <1>2 DEF Apply, SparesStatus
  <2>2. /\ b.holds = d.holds
        /\ d.holds \/ how = "restore" => DayHeld(d, b)
        /\ how \notin {"superseded", "cancel backlog", "restore"} => SameStatus(d, b)
    BY UpdateHolds
  <2> HIDE DEF b, e, how
  <2> QED BY <2>1, <2>2 DEF e
<1>3. CASE s.op = "other"
  <2>1. e = d
    BY <1>3 DEF Apply
  <2> QED BY <2>1 DEF SameStatus
<1>4. CASE s.op \in {"create", "drop"}
  <2> DEFINE has == IF s.op = "create" THEN s.has ELSE {}
             required == IF s.op = "create" THEN s.required ELSE {}
             new == Anew(d, s.table, has, required)
             free == d.tables[s.table].has = {}
  <2>1. e = new \/ e = [new EXCEPT !.ok = free]
    BY <1>4 DEF Apply
  <2>2. s.table \in Tables
    BY <1>4 DEF IsStatement
  <2> HIDE DEF has, required, free
  <2>3. /\ IsDatabase(new)
        /\ new.tables[s.table] = [has |-> has, required |-> required]
        /\ \A u \in Tables \ {s.table} : new.tables[u] = d.tables[u]
        /\ new.row = IF s.table = "transactions" THEN <<>> ELSE d.row
        /\ new.fees = IF s.table = "fees" THEN <<>> ELSE d.fees
        /\ new.holds = d.holds /\ new.day = d.day /\ new.wide = d.wide /\ new.ok = d.ok
    BY <1>0, <2>2, AnewFields
  <2> HIDE DEF new, e
  <2>4. e.row = new.row /\ e.holds = new.holds
    BY <2>1, <2>3 DEF IsDatabase
  <2>5. DOMAIN (<<>>) = {}
    OBVIOUS
  <2>6. DOMAIN e.row = {} \/ e.row = d.row
    BY <2>3, <2>4, <2>5
  <2>7. SameStatus(d, e)
    BY <2>6 DEF SameStatus
  <2> QED BY <2>3, <2>4, <2>7 DEF e
<1>5. CASE s.op = "trigger"
  <2>1. e = [d EXCEPT !.holds = s.holds]
    BY <1>5 DEF Apply
  <2> HIDE DEF e
  <2>2. e.row = d.row
    BY <1>0, <2>1 DEF IsDatabase
  <2> QED BY <1>5, <2>2 DEF SameStatus, e
<1>6. CASE s.op = "check"
  <2>1. e.row = d.row /\ e.holds = d.holds
    BY <1>0, <1>6, CheckFields
  <2> HIDE DEF e
  <2> QED BY <2>1 DEF SameStatus, e
<1> QED BY <1>1, <1>2, <1>3, <1>4, <1>5, <1>6 DEF IsStatement

(* A draft of such statements.                                              *)
LEMMA RunSpares ==
  ASSUME NEW d, NEW ss, Sound(d), AreStatements(ss),
         \A i \in 1 .. Len(ss) : SparesStatus(ss[i]), Run(d, ss).ok
  PROVE  /\ SameStatus(d, Run(d, ss))
         /\ (\A i \in 1 .. Len(ss) : Spares(ss[i])) => Run(d, ss).holds = d.holds
<1> DEFINE n == Len(ss)
<1>1. n \in Nat
  BY DEF AreStatements
<1>2. PICK f : /\ f[0] = d /\ f[n] = Run(d, ss)
               /\ \A i \in 0 .. n : f[i].ok
               /\ \A i \in 1 .. n : f[i] = Apply(f[i - 1], ss[i])
  BY <1>1, RunApplies
<1> DEFINE spares == \A i \in 1 .. Len(ss) : Spares(ss[i])
           Fit(i) == Sound(f[i]) /\ SameStatus(d, f[i]) /\ (spares => f[i].holds = d.holds)
           I == {i \in Nat : i <= n => Fit(i)}
<1>3. 0 \in I
  <2>1. SameStatus(d, d)
    BY DEF SameStatus
  <2>2. f[0] = d
    BY <1>2
  <2>3. Fit(0)
    BY <2>1, <2>2
  <2> QED BY <2>3
<1>4. ASSUME NEW i \in I PROVE i + 1 \in I
  <2>1. SUFFICES ASSUME i + 1 <= n PROVE Fit(i + 1)
    OBVIOUS
  <2>2. i + 1 \in 1 .. n /\ i + 1 \in 0 .. n /\ i + 1 - 1 = i /\ Fit(i)
    BY <1>1, <1>4, <2>1
  <2>3. /\ f[i + 1] = Apply(f[i], ss[i + 1]) /\ Apply(f[i], ss[i + 1]).ok
        /\ IsStatement(ss[i + 1]) /\ SparesStatus(ss[i + 1])
        /\ spares => ss[i + 1].op # "trigger"
    BY <1>2, <2>2 DEF AreStatements, Spares
  <2>4. Sound(f[i + 1])
    BY <2>2, <2>3, ApplySound
  <2>5. SameStatus(f[i], f[i + 1]) /\ (spares => f[i + 1].holds = f[i].holds)
    BY <2>2, <2>3, ApplySpares
  <2>6. SameStatus(d, f[i + 1])
    BY <2>2, <2>5 DEF SameStatus
  <2> QED BY <2>2, <2>4, <2>5, <2>6
<1>5. I = Nat
  BY <1>3, <1>4, Counting
<1>6. Fit(n)
  <2> HIDE DEF n
  <2> QED BY <1>1, <1>5
<1> HIDE DEF I
<1> QED BY <1>2, <1>6

-----------------------------------------------------------------------------
(* A migration of one statement.                                            *)
LEMMA RunOne ==
  ASSUME NEW d, NEW s, Run(d, <<s>>).ok
  PROVE  Run(d, <<s>>) = Apply(d, s)
<1> DEFINE ss == <<s>>
<1>1. Len(ss) = 1 /\ ss[1] = s
  OBVIOUS
<1> HIDE DEF ss
<1>2. PICK f : f[0] = d /\ f[1] = Run(d, ss) /\ \A i \in 1 .. 1 : f[i] = Apply(f[i - 1], ss[i])
  BY <1>1, RunApplies DEF ss
<1>3. f[1] = Apply(f[0], ss[1])
  BY <1>2
<1> QED BY <1>1, <1>2, <1>3 DEF ss

(* No draft touches the trigger or the status.                              *)
SparingDrafts == \A d \in Drafts : \A i \in 1 .. Len(d) : Spares(d[i])

(* The invariant: the trigger holds a cancellation's day from its migration *)
(* on.                                                                      *)
Holding ==
  /\ SparingDrafts /\ Typed
  /\ level >= Committed - 1 => db.holds

(* What a step does to the days of cancellations.                           *)
StepHolds == level' >= Committed - 1 => db'.holds /\ DayHeld(db, db')

(* A migration: the trigger itself, the backlog after it, a draft.          *)
LEMMA UpHolds == Holding /\ Up => StepHolds
<1> SUFFICES ASSUME Holding, Up, level' >= Committed - 1
             PROVE  db'.holds /\ DayHeld(db, db')
  BY DEF StepHolds
<1>0. DraftLevel = 14 /\ Committed = 13
  BY LevelsLead DEF DraftLevel
<1> DEFINE ss == Statements(level + 1)
           after == Run(db, ss)
<1>1. /\ Typed /\ Sound(db) /\ IsDatabase(db) /\ level \in Nat
      /\ level >= 12 => db.holds
      /\ level < 13 \/ (level = 13 /\ gate \in {"clean", "approved"})
  BY <1>0 DEF Holding, Typed, Sound, Up
<1>2. CASE ~Went(after, IndexUp(level + 1))
  <2>1. db' = db /\ level' = level
    BY <1>2 DEF Up, Migrated
  <2>2. SameStatus(db, db)
    BY DEF SameStatus
  <2> QED BY <1>0, <1>1, <2>1, <2>2, SameStatusHolds
<1>3. CASE Went(after, IndexUp(level + 1))
  <2>1. db' = after /\ level' = level + 1 /\ level >= 11
    BY <1>0, <1>1, <1>3 DEF Up, Migrated
  <2>2. CASE level = 11
    <3> DEFINE s == Trigger(TRUE)
    <3>0. level + 1 = 12 /\ 12 # DraftLevel
      BY <1>0, <2>2
    <3>1. ss = Migrations[12].up
      BY <3>0 DEF Statements
    <3>2. Migrations[12] = HoldDay
      BY DEF Migrations
    <3>3. HoldDay.up = <<s>>
      BY DEF HoldDay
    <3> HIDE DEF s, ss
    <3>4. ss = <<s>>
      BY <3>1, <3>2, <3>3
    <3>5. s.op = "trigger" /\ s.holds = TRUE
      BY DEF Trigger, s
    <3>6. after = Apply(db, s)
      BY <1>3, <3>4, RunOne DEF Went
    <3>7. Apply(db, s) = [db EXCEPT !.holds = TRUE]
      BY <3>5 DEF Apply
    <3>8. db'.holds /\ db'.row = db.row
      BY <1>1, <2>1, <3>6, <3>7 DEF IsDatabase
    <3>9. SameStatus(db, db')
      BY <3>8 DEF SameStatus
    <3> QED BY <3>8, <3>9, SameStatusHolds
  <2>3. CASE level = 12
    <3> DEFINE how == "cancel backlog"
               s == Update(how)
               e == UpdateIn(db, how)
    <3>0. level + 1 = 13 /\ 13 # DraftLevel
      BY <1>0, <2>3
    <3>1. ss = Migrations[13].up
      BY <3>0 DEF Statements
    <3>2. Migrations[13] = CancelBacklog
      BY DEF Migrations
    <3>3. CancelBacklog.up = <<s>>
      BY DEF CancelBacklog
    <3> HIDE DEF s, ss
    <3>4. ss = <<s>>
      BY <3>1, <3>2, <3>3
    <3>5. s.op = "update" /\ s.how = how
      BY DEF Update, s
    <3>6. after = Apply(db, s)
      BY <1>3, <3>4, RunOne DEF Went
    <3>7. Apply(db, s) = e
      BY <3>5 DEF Apply
    <3>8. /\ e.holds = db.holds
          /\ db.holds \/ how = "restore" => DayHeld(db, e)
          /\ how \notin {"superseded", "cancel backlog", "restore"} => SameStatus(db, e)
      BY <1>1, UpdateHolds
    <3> HIDE DEF e, how, after
    <3>9. db' = e
      BY <2>1, <3>6, <3>7
    <3>10. db.holds
      BY <1>1, <2>3
    <3>11. DayHeld(db, e)
      BY <3>8, <3>10
    <3> QED BY <3>8, <3>9, <3>10, <3>11
  <2>4. CASE level = 13
    <3>1. ss = draft /\ draft \in Drafts
      BY <1>0, <1>1, <2>4 DEF Statements, Typed
    <3>2. AreStatements(ss) /\ \A i \in 1 .. Len(ss) : Spares(ss[i])
      BY <3>1, DraftStatements DEF Holding, SparingDrafts
    <3> HIDE DEF ss
    <3>3. after.holds = db.holds /\ SameStatus(db, after)
      BY <1>1, <1>3, <3>2, RunSpares DEF Went, Spares
    <3> HIDE DEF after
    <3> QED BY <1>1, <2>1, <2>4, <3>3, SameStatusHolds
  <2> QED BY <1>1, <2>1, <2>2, <2>3, <2>4
<1> QED BY <1>2, <1>3

(* A rollback: the backlog gets its status back, and nobody is cancelled.   *)
LEMMA DownHolds == Holding /\ Down => StepHolds
<1> SUFFICES ASSUME Holding, Down, level' >= Committed - 1
             PROVE  db'.holds /\ DayHeld(db, db')
  BY DEF StepHolds
<1>0. Committed = 13
  BY LevelsLead
<1> DEFINE ss == Migrations[level].down
           after == Run(db, ss)
<1>1. /\ Sound(db) /\ IsDatabase(db) /\ level \in 1 .. 13
      /\ level >= 12 => db.holds
  BY <1>0 DEF Holding, Typed, Sound, Down
<1>2. CASE ~Went(after, IndexDown(level))
  <2>1. db' = db /\ level' = level
    BY <1>2 DEF Down, Migrated
  <2>2. SameStatus(db, db)
    BY DEF SameStatus
  <2> QED BY <1>0, <1>1, <2>1, <2>2, SameStatusHolds
<1>3. CASE Went(after, IndexDown(level))
  <2>1. db' = after /\ level' = level - 1 /\ level = 13
    BY <1>0, <1>1, <1>3 DEF Down, Migrated
  <2> DEFINE how == "restore"
             s == Update(how)
             e == UpdateIn(db, how)
  <2>2. ss = <<s>>
    BY <2>1 DEF Migrations, CancelBacklog
  <2>3. s.op = "update" /\ s.how = how
    BY DEF Update
  <2> HIDE DEF s, ss
  <2>4. after = Apply(db, s)
    BY <1>3, <2>2, RunOne DEF Went
  <2>5. Apply(db, s) = e
    BY <2>3 DEF Apply
  <2>6. /\ e.holds = db.holds
        /\ db.holds \/ how = "restore" => DayHeld(db, e)
        /\ how \notin {"superseded", "cancel backlog", "restore"} => SameStatus(db, e)
    BY <1>1, UpdateHolds
  <2> HIDE DEF e
  <2> QED BY <1>1, <2>1, <2>4, <2>5, <2>6
<1> QED BY <1>2, <1>3

(* One attempt's patch, while the trigger holds.                            *)
LEMMA PatchHolds ==
  ASSUME NEW a \in DOMAIN db.row, NEW v, Sound(db), DOMAIN v = DOMAIN db.row[a].v,
         \A c \in DOMAIN v : v[c] = db.row[a].v[c] \/ v[c] # NULL, Patch(a, v)
  PROVE  db'.holds = db.holds /\ level' = level /\ (db.holds => DayHeld(db, db'))
<1> DEFINE e == [db EXCEPT !.row[a] = Touch(db, @, v)]
           r == db.row[a]
<1>1. db' = e /\ level' = level
  BY DEF Patch, Writes
<1>2. /\ Sound(e) /\ SameTables(db, e) /\ e.holds = db.holds /\ e.day = db.day
      /\ DOMAIN e.row = DOMAIN db.row
      /\ e.row[a] = Touch(db, db.row[a], v) /\ e.row[a].v = v
      /\ \A b \in DOMAIN db.row \ {a} : e.row[b] = db.row[b]
  BY PatchSound
<1> HIDE DEF e
<1>3. RowSound(db, r)
  BY DEF Sound
<1> HIDE DEF r
<1>4. ( /\ db.holds /\ v["transaction_status"] = "cancelled"
        /\ r.v["transaction_status"] # "cancelled" )
        => Touch(db, r, v).updated = r.updated
  BY <1>3 DEF Touch, RowSound
<1>5. ASSUME db.holds PROVE DayHeld(db, e)
  <2>1. ASSUME NEW b \in DOMAIN db.row \cap DOMAIN e.row,
               e.row[b].v["transaction_status"] = "cancelled",
               db.row[b].v["transaction_status"] # "cancelled"
        PROVE  e.row[b].updated = db.row[b].updated
    <3>1. CASE b = a
      BY <1>2, <1>4, <1>5, <2>1, <3>1 DEF r
    <3>2. CASE b # a
      BY <1>2, <2>1, <3>2
    <3> QED BY <3>1, <3>2
  <2> QED BY <2>1 DEF DayHeld
<1> QED BY <1>1, <1>2, <1>5

(* Every other step.                                                        *)
LEMMA StepsHold == Holding /\ [Next]_vars => StepHolds
<1> SUFFICES ASSUME Holding, [Next]_vars PROVE StepHolds
  OBVIOUS
<1>0. /\ Sound(db) /\ IsDatabase(db) /\ (level >= Committed - 1 => db.holds)
  BY DEF Holding, Typed, Sound
<1>1. ASSUME db'.holds = db.holds, level' = level, SameStatus(db, db') PROVE StepHolds
  BY <1>0, <1>1, SameStatusHolds DEF StepHolds
<1>2. ASSUME db' = db, level' = level PROVE StepHolds
  BY <1>1, <1>2 DEF SameStatus
<1>3. ASSUME Seed \/ AddVersion \/ Pass PROVE StepHolds
  <2>1. db'.holds = db.holds /\ level' = level /\ db'.row = db.row
    BY <1>0, <1>3 DEF Seed, AddVersion, Pass, Writes, IsDatabase
  <2> QED BY <1>1, <2>1 DEF SameStatus
<1>4. ASSUME NEW a \in Attempts, NEW fee \in Keys \cup {Version}, CreateReceived(a, fee)
      PROVE  StepHolds
  <2> DEFINE rows == Inserted(db.row, a, [v |-> FirstValues(fee), created |-> db.day,
                                          updated |-> db.day])
  <2>1. db' = [db EXCEPT !.row = rows] /\ level' = level /\ a \notin DOMAIN db.row
    BY <1>0, <1>4 DEF CreateReceived, Writes, IsDatabase
  <2>2. \A b \in DOMAIN db.row : rows[b] = db.row[b]
    BY <2>1 DEF Inserted
  <2> HIDE DEF rows
  <2>3. db'.holds = db.holds /\ db'.row = rows
    BY <1>0, <2>1 DEF IsDatabase
  <2>4. DayHeld(db, db')
    BY <2>2, <2>3 DEF DayHeld
  <2> QED BY <1>0, <2>1, <2>3, <2>4 DEF StepHolds
<1>5. ASSUME NEW a \in DOMAIN db.row, NEW v, DOMAIN v = DOMAIN db.row[a].v,
             \A c \in DOMAIN v : v[c] = db.row[a].v[c] \/ v[c] # NULL, Patch(a, v)
      PROVE  StepHolds
  <2>1. db'.holds = db.holds /\ level' = level /\ (db.holds => DayHeld(db, db'))
    BY <1>0, <1>5, PatchHolds
  <2> QED BY <1>0, <2>1 DEF StepHolds
<1>6. ASSUME NEW a, NEW token \in Tokens, UpdateToInitiated(a, token) PROVE StepHolds
  <2> DEFINE v == [db.row[a].v EXCEPT !["transaction_status"] = "initiated",
                                      !["paygov_token"] = token]
  <2>1. a \in DOMAIN db.row /\ Patch(a, v)
    BY <1>6 DEF UpdateToInitiated
  <2>2. /\ DOMAIN v = DOMAIN db.row[a].v
        /\ \A c \in DOMAIN v : v[c] = db.row[a].v[c] \/ v[c] # NULL
    BY NotNull, FeeAssumption
  <2> HIDE DEF v
  <2> QED BY <1>5, <2>1, <2>2
<1>7. ASSUME NEW a, NEW outcome \in PAID \cup {"failed"}, UpdateAfterPayGovResponse(a, outcome)
      PROVE  StepHolds
  <2> DEFINE v == [db.row[a].v EXCEPT !["transaction_status"] = outcome,
                                      !["payment_method"] = "card"]
  <2>1. a \in DOMAIN db.row /\ Patch(a, v)
    BY <1>7 DEF UpdateAfterPayGovResponse
  <2>2. /\ DOMAIN v = DOMAIN db.row[a].v
        /\ \A c \in DOMAIN v : v[c] = db.row[a].v[c] \/ v[c] # NULL
    BY NotNull DEF PAID
  <2> HIDE DEF v
  <2> QED BY <1>5, <2>1, <2>2
<1>12. ASSUME NEW a, TryClaim(a) PROVE StepHolds
  <2> DEFINE v == [db.row[a].v EXCEPT !["transaction_status"] = "processing"]
  <2>1. a \in DOMAIN db.row /\ Patch(a, v)
    BY <1>12 DEF TryClaim
  <2>2. /\ DOMAIN v = DOMAIN db.row[a].v
        /\ \A c \in DOMAIN v : v[c] = db.row[a].v[c] \/ v[c] # NULL
    BY NotNull
  <2> HIDE DEF v
  <2> QED BY <1>5, <2>1, <2>2
<1>8. ASSUME NEW a, CancelExpired(a) PROVE StepHolds
  <2> DEFINE v == [db.row[a].v EXCEPT !["transaction_status"] = "cancelled"]
  <2>1. a \in DOMAIN db.row /\ Patch(a, v)
    BY <1>8 DEF CancelExpired
  <2>2. /\ DOMAIN v = DOMAIN db.row[a].v
        /\ \A c \in DOMAIN v : v[c] = db.row[a].v[c] \/ v[c] # NULL
    BY NotNull
  <2> HIDE DEF v
  <2> QED BY <1>5, <2>1, <2>2
<1>9. ASSUME NEW n \in 1 .. Committed, DeployCode(n) PROVE StepHolds
  BY <1>2, <1>9 DEF DeployCode
<1>10. ASSUME NEW d \in Drafts, NEW acknowledged \in BOOLEAN, CheckMigrationSafety(d, acknowledged)
       PROVE  StepHolds
  BY <1>2, <1>10 DEF CheckMigrationSafety
<1>11. ASSUME Approve \/ Done \/ UNCHANGED vars PROVE StepHolds
  BY <1>2, <1>11 DEF Approve, Done, vars
<1> QED BY <1>3, <1>4, <1>6, <1>7, <1>8, <1>9, <1>10, <1>11, <1>12, UpHolds, DownHolds DEF Next

(* In every instance whose drafts leave the trigger and the status alone:   *)
(* from the migration on that holds a cancellation's day, no attempt is     *)
(* cancelled and counted on another day, neither by the migration of the    *)
(* backlog, nor by a sweep, nor by a migration rolled back and run again.   *)
THEOREM CancellationsHeld == SparingDrafts /\ Spec => CancellationsKeepTheirDay
<1>1. SparingDrafts /\ Init => Holding
  <2>1. Init => level = 0 /\ Committed = 13
    BY LevelsLead DEF Init
  <2> QED BY <2>1, TypedInit DEF Holding
<1>2. Holding /\ [Next]_vars => Holding'
  <2> SUFFICES ASSUME Holding, [Next]_vars PROVE Holding'
    OBVIOUS
  <2>1. Typed'
    BY TypedNext DEF Holding
  <2>2. StepHolds
    BY StepsHold
  <2>3. Committed = 13 /\ Committed' = 13
    BY LevelsLead DEF Committed, Migrations
  <2> QED BY <2>1, <2>2, <2>3 DEF Holding, StepHolds, SparingDrafts, Spares, SparesStatus, With
<1>3. Holding /\ [Next]_vars =>
        [\A a \in DOMAIN db.row \cap DOMAIN db'.row :
           /\ level' >= Committed - 1
           /\ "transaction_status" \in DOMAIN db.row[a].v
           /\ db'.row[a].v["transaction_status"] = "cancelled" /\ Status(a) # "cancelled"
           => db'.row[a].updated = db.row[a].updated]_vars
  <2> SUFFICES ASSUME Holding, [Next]_vars
               PROVE  \A a \in DOMAIN db.row \cap DOMAIN db'.row :
                        /\ level' >= Committed - 1
                        /\ "transaction_status" \in DOMAIN db.row[a].v
                        /\ db'.row[a].v["transaction_status"] = "cancelled"
                        /\ Status(a) # "cancelled"
                        => db'.row[a].updated = db.row[a].updated
    OBVIOUS
  <2>1. StepHolds
    BY StepsHold
  <2> QED BY <2>1 DEF StepHolds, DayHeld, Status, StatusIn
<1> QED BY <1>1, <1>2, <1>3, PTL DEF Spec, CancellationsKeepTheirDay

-----------------------------------------------------------------------------
(* A database with the columns of x, and no others required.                *)
Good(d, x) == Sound(d) /\ Columns(d) = x.has /\ Required(d) \subseteq x.required

(* A statement that is not refused.                                         *)
LEMMA GoodStep ==
  ASSUME NEW d, NEW x, NEW s, NEW y, Good(d, x), Step(x, s, y), Apply(d, s).ok
  PROVE  Good(Apply(d, s), y)
<1> DEFINE e == Apply(d, s)
<1>1. /\ Sound(d) /\ IsDatabase(d) /\ Columns(d) = x.has /\ Required(d) \subseteq x.required
      /\ IsStatement(s) /\ ColumnsAfter(x.has, s) = y.has
      /\ RequiredAfter(x.required, s) = y.required
  BY DEF Good, Sound, Step
<1>2. Sound(e)
  BY <1>1, ApplySound
<1>3. Columns(e) = ColumnsAfter(Columns(d), s) /\ Required(e) = RequiredAfter(Required(d), s)
  BY <1>1, ApplyColumns, ApplyRequired
<1>4. RequiredAfter(Required(d), s) \subseteq RequiredAfter(x.required, s)
  BY <1>1, RequiredGrows
<1> QED BY <1>1, <1>2, <1>3, <1>4 DEF Good

(* The columns an UPDATE fills from fees or from what is known of them,     *)
(* where there may be nothing.                                              *)
Fills(how) ==
  CASE how = "fee details" -> {"fee_name", "fee_amount"}
    [] how \in {"fee amounts", "amounts", "amounts by fee"} -> {"transaction_amount"}
    [] how = "fee keys" -> {"fee_id"}
    [] OTHER -> {}

(* An UPDATE is refused only for a required column it fills so, and left    *)
(* without a value.                                                         *)
LEMMA UpdateGoes ==
  ASSUME NEW d, NEW how, Sound(d),
         \A a \in DOMAIN UpdateIn(d, how).row : \A c \in Fills(how) \cap Required(d) :
           UpdateIn(d, how).row[a].v[c] # NULL
  PROVE  UpdateIn(d, how).ok
<1> DEFINE e == UpdateIn(d, how)
<1>1. /\ IsDatabase(e) /\ e.tables = d.tables
      /\ how = "fee_key = fee_id" => e.ok = d.ok
      /\ how # "fee_key = fee_id" =>
           /\ e.ok = Filled(e)
           /\ e.row = [a \in DOMAIN d.row |->
                IF Meets(how, d, a)
                THEN Touch(d, d.row[a], Written(how, d, d.row[a].v)) ELSE d.row[a]]
  BY UpdateFields DEF Sound
<1> HIDE DEF e
<1>2. ASSUME how # "fee_key = fee_id", NEW a \in DOMAIN e.row, NEW c \in Required(d)
      PROVE  e.row[a].v[c] # NULL
  <2> DEFINE v == d.row[a].v
             new == Written(how, d, v)
  <2>. SUFFICES ASSUME c \notin Fills(how) PROVE e.row[a].v[c] # NULL
    BY <1>2 DEF e
  <2>0. a \in DOMAIN d.row
    BY <1>1, <1>2
  <2>1. /\ a \in DOMAIN d.row /\ RowSound(d, d.row[a]) /\ c \in DOMAIN v /\ v[c] # NULL
        /\ d.day \in Nat \ {0}
    BY <1>2, <2>0 DEF Sound, RowSound, Filled, Required
  <2>2. DOMAIN new = DOMAIN v
    BY DEF Written
  <2>3. c \notin Fills(how)
    OBVIOUS
  <2>4. /\ "cancelled" # NULL /\ "initiated" # NULL /\ "blank" # NULL /\ "zero" # NULL
        /\ "failed" # NULL /\ "value" # NULL
    BY NotNull
  <2>5. new[c] # NULL
    <3> HIDE DEF v
    <3>1. CASE how \in {"fee details", "fee amounts", "amounts", "amounts by fee", "fee keys"}
      <4>1. new[c] = v[c]
        BY <2>1, <2>3, <3>1 DEF Written, Fills
      <4> QED BY <2>1, <4>1
    <3>2. CASE how \in {"blank methods", "zero amounts"}
      BY <2>1, <2>4, <3>2 DEF Written
    <3>3. CASE how = "cancel backlog"
      BY <2>1, <2>4, <3>3 DEF Written
    <3>4. CASE how \notin {"fee details", "fee amounts", "amounts", "amounts by fee", "fee keys",
                          "blank methods", "zero amounts", "cancel backlog", "superseded"}
      <4>1. new = [v EXCEPT !["transaction_status"] = "initiated"]
        BY <3>4 DEF Written
      <4> QED BY <2>1, <2>4, <4>1
    <3>5. CASE how = "superseded"
      <4>1. new = [v EXCEPT !["transaction_status"] = "failed", !["return_code"] = "value",
                            !["return_detail"] = "value"]
        BY <3>5 DEF Written
      <4> QED BY <2>1, <2>4, <4>1
    <3> QED BY <3>1, <3>2, <3>3, <3>4, <3>5
  <2> HIDE DEF v, new
  <2>6. Touch(d, d.row[a], new).v = new
    BY <2>1, <2>2, TouchSound DEF v
  <2>7. e.row[a] = d.row[a] \/ e.row[a] = Touch(d, d.row[a], new)
    BY <1>1, <1>2, <2>1 DEF new, v
  <2> QED BY <2>1, <2>5, <2>6, <2>7 DEF v
<1>3. CASE how = "fee_key = fee_id"
  BY <1>1, <1>3 DEF Sound, e
<1>4. CASE how # "fee_key = fee_id"
  <2>1. Filled(e)
    BY <1>1, <1>2, <1>4 DEF Filled, Required
  <2> QED BY <1>1, <1>4, <2>1 DEF e
<1> QED BY <1>3, <1>4

(* The ALTERs that ask nothing of the rows: none that shortens a column or  *)
(* requires one, and renamings one at a time.                               *)
Loosens(clauses) ==
  \A k \in clauses : k.act # "rename" /\ (k.act \in {"add", "require"} => ~k.notNull \/ k.default)
GentleClauses(clauses) ==
  /\ \A k \in clauses : k.act # "narrow"
  /\ Loosens(clauses) \/ \E c, to : clauses = {Rename(c, to)}
(* The statements that do not depend on the rows.                           *)
Gentle(s) ==
  /\ s.op # "check"
  /\ s.op = "alter" => /\ \A k \in s.clauses : k.act # "narrow"
                       /\ s.table = T => GentleClauses(s.clauses)
  /\ s.op = "update" => Fills(s.how) = {}

(* Such an ALTER leaves no required column without a value.                 *)
LEMMA GentleMoved ==
  ASSUME NEW t, NEW s, t.required \subseteq t.has, GentleClauses(s.clauses), Resolves(t, s),
         NEW v, DOMAIN v = t.has, \A c \in t.required : v[c] # NULL,
         NEW c \in AfterAlter(t, s).required
  PROVE  Moved(v, AfterAlter(t, s).has, s)[c] # NULL
<1> DEFINE here == AfterAlter(t, s)
           new == Moved(v, here.has, s)
<1>0. /\ \A b \in here.has : b \in DOMAIN v => new[b] = v[b]
      /\ \A b \in here.has : b \notin DOMAIN v =>
           LET renamed == {k \in With(s, {"rename"}) : k.col \in DOMAIN v}
           IN  \A k : renamed = {k} /\ k.to = b => new[b] = v[k.col]
  <2>1. ASSUME NEW b \in here.has, b \in DOMAIN v PROVE new[b] = v[b]
    <3> HIDE DEF here
    <3> QED BY <2>1 DEF Moved
  <2>2. ASSUME NEW b \in here.has, b \notin DOMAIN v, NEW k,
               {l \in With(s, {"rename"}) : l.col \in DOMAIN v} = {k}, k.to = b
        PROVE  new[b] = v[k.col]
    <3> DEFINE renamed == {l \in With(s, {"rename"}) : l.col \in DOMAIN v}
               old == CHOOSE l \in renamed : l.to = b
    <3> HIDE DEF here
    <3>1. (\E l \in renamed : l.to = b) => new[b] = v[old.col]
      BY <2>2 DEF Moved
    <3>2. renamed = {k}
      BY <2>2
    <3> HIDE DEF renamed
    <3>3. \E l \in renamed : l.to = b
      BY <2>2, <3>2
    <3>4. old = k
      BY <3>2, <3>3
    <3> QED BY <3>1, <3>3, <3>4
  <2> QED BY <2>1, <2>2
<1> SUFFICES new[c] # NULL
  OBVIOUS
<1>1. c \in here.required
  OBVIOUS
<1> HIDE DEF new
<1>2. CASE Loosens(s.clauses)
  <2>1. With(s, {"rename"}) = {} /\ \A k \in With(s, {"add", "require"}) : ~k.notNull \/ k.default
    BY <1>2 DEF Loosens, With
  <2>2. {k.to : k \in {l \in With(s, {"add", "require"}) : l.notNull /\ ~l.default}} = {}
    BY <2>1
  <2>3. {k.to : k \in {l \in With(s, {"rename"}) : l.col \in t.required}} = {}
    BY <2>1
  <2> DEFINE gone == {k.col : k \in With(s, {"drop", "rename"})}
             relaxed == {k.to : k \in With(s, {"relax"})}
             named == {k.to : k \in With(s, {"add", "rename"})}
  <2>4. /\ here.required = ((t.required \ gone) \cup {} \cup {}) \ relaxed
        /\ here.has = (t.has \ gone) \cup named
    BY <2>2, <2>3 DEF AfterAlter
  <2> HIDE DEF gone, relaxed, named, here
  <2>5. c \in t.required /\ c \in here.has
    BY <1>1, <2>4
  <2> QED BY <1>0, <2>5
<1>3. CASE \E b, to : s.clauses = {Rename(b, to)}
  <2>1. PICK b, to : s.clauses = {Rename(b, to)}
    BY <1>3
  <2> DEFINE k == Rename(b, to)
  <2>2. k.act = "rename" /\ k.col = b /\ k.to = to
    BY DEF Rename, Clause
  <2> HIDE DEF k
  <2>3. /\ With(s, {"rename"}) = {k} /\ With(s, {"drop", "rename"}) = {k}
        /\ With(s, {"add", "rename"}) = {k} /\ With(s, {"add", "require"}) = {}
        /\ With(s, {"relax"}) = {}
    BY <2>1, <2>2 DEF With, k
  <2>4. /\ {l.to : l \in {l \in With(s, {"add", "require"}) : l.notNull /\ ~l.default}} = {}
        /\ {l.to : l \in With(s, {"relax"})} = {}
        /\ {l.col : l \in With(s, {"drop", "rename"})} = {b}
        /\ {l.to : l \in With(s, {"add", "rename"})} = {to}
        /\ {l.to : l \in {l \in With(s, {"rename"}) : l.col \in t.required}}
             = {x \in {to} : b \in t.required}
    BY <2>2, <2>3
  <2>5. /\ here.has = (t.has \ {b}) \cup {to}
        /\ here.required = ((t.required \ {b}) \cup {x \in {to} : b \in t.required} \cup {}) \ {}
    BY <2>4 DEF AfterAlter
  <2>6. b \in t.has /\ to \notin t.has \ {b}
    BY <2>2, <2>3 DEF Resolves
  <2> HIDE DEF here
  <2>7. (c \in t.required /\ c # b) \/ (c = to /\ b \in t.required)
    <3>1. c \in (t.required \ {b}) \cup {x \in {to} : b \in t.required}
      BY <1>1, <2>5
    <3> QED BY <3>1
  <2>8. CASE c \in t.required /\ c # b
    BY <1>0, <2>5, <2>8
  <2>9. CASE c = to /\ b \in t.required
    <3>1. CASE to \in t.has
      BY <1>0, <2>5, <2>6, <2>9, <3>1
    <3>2. CASE to \notin t.has
      <4>1. {l \in With(s, {"rename"}) : l.col \in DOMAIN v} = {k}
        BY <2>2, <2>3, <2>6
      <4>2. c \in here.has /\ c \notin DOMAIN v
        BY <2>5, <2>9, <3>2
      <4>3. new[c] = v[b]
        BY <1>0, <2>2, <2>9, <4>1, <4>2
      <4> QED BY <2>9, <4>3
    <3> QED BY <3>1, <3>2
  <2> QED BY <2>7, <2>8, <2>9
<1> QED BY <1>2, <1>3 DEF GentleClauses

(* It is not refused,                                                       *)
LEMMA AlterGoes ==
  ASSUME NEW d, NEW s, Sound(d), s.table \in Tables, s.op = "alter", Gentle(s),
         Resolves(d.tables[s.table], s)
  PROVE  AlterIn(d, s).ok
<1> DEFINE e == AlterIn(d, s)
           here == AfterAlter(d.tables[s.table], s)
           t == d.tables["transactions"]
<1>1. /\ IsDatabase(e)
      /\ e.tables[s.table] = here
      /\ \A u \in Tables \ {s.table} : e.tables[u] = d.tables[u]
      /\ e.row = IF s.table # "transactions" THEN d.row
                 ELSE [a \in DOMAIN d.row |-> [d.row[a] EXCEPT !.v = Moved(@, here.has, s)]]
      /\ e.fees = d.fees /\ e.day = d.day
      /\ e.ok = (Resolves(d.tables[s.table], s) /\ Filled(e) /\ Fits(e, s))
  BY AlterFields DEF Sound
<1>2. /\ Filled(d) /\ t.required \subseteq t.has
      /\ \A a \in DOMAIN d.row : RowSound(d, d.row[a])
  BY DEF Sound
<1> HIDE DEF e
<1>3. Fits(e, s)
  <2>1. With(s, {"narrow"}) = {}
    BY DEF Gentle, With
  <2> QED BY <2>1 DEF Fits
<1>4. CASE s.table # "transactions"
  <2>1. e.tables["transactions"] = t /\ e.row = d.row
    BY <1>1, <1>4 DEF Tables
  <2>2. Filled(e)
    BY <1>2, <2>1 DEF Filled
  <2> QED BY <1>1, <1>3, <2>2 DEF e
<1>5. CASE s.table = "transactions"
  <2>1. ASSUME NEW a \in DOMAIN e.row, NEW c \in here.required PROVE e.row[a].v[c] # NULL
    <3>1. /\ a \in DOMAIN d.row /\ e.row[a] = [d.row[a] EXCEPT !.v = Moved(@, here.has, s)]
          /\ RowSound(d, d.row[a])
      BY <1>1, <1>2, <1>5, <2>1
    <3> DEFINE v == d.row[a].v
    <3>2. DOMAIN v = t.has /\ \A b \in t.required : v[b] # NULL
      BY <1>2, <3>1 DEF RowSound, Filled
    <3>3. e.row[a].v = Moved(v, here.has, s)
      BY <3>1 DEF RowSound
    <3>4. GentleClauses(s.clauses) /\ Resolves(t, s) /\ c \in AfterAlter(t, s).required
          /\ here = AfterAlter(t, s)
      BY <1>5, <2>1 DEF Gentle, T
    <3> HIDE DEF v, here, t
    <3>5. Moved(v, AfterAlter(t, s).has, s)[c] # NULL
      BY <1>2, <3>2, <3>4, GentleMoved
    <3> QED BY <3>3, <3>4, <3>5
  <2>2. Filled(e)
    BY <1>1, <1>5, <2>1 DEF Filled
  <2> QED BY <1>1, <1>3, <2>2 DEF e
<1> QED BY <1>4, <1>5

(* nor is any gentle statement the columns accept.                          *)
LEMMA GentleStep ==
  ASSUME NEW d, NEW x, NEW s, NEW y, Good(d, x), Step(x, s, y), Gentle(s)
  PROVE  Good(Apply(d, s), y)
<1>1. /\ Sound(d) /\ d.ok /\ IsDatabase(d) /\ Columns(d) = x.has
      /\ IsStatement(s) /\ Works(Columns(d), s)
  BY DEF Good, Sound, Step
<1>2. CASE s.op = "alter"
  <2>1. s.table \in Tables /\ Apply(d, s) = AlterIn(d, s)
    BY <1>1, <1>2 DEF IsStatement, Apply
  <2>2. Resolved(d.tables[s.table].has, s.clauses)
    BY <1>1, <1>2, <2>1 DEF Works, Columns
  <2>3. Resolves(d.tables[s.table], s)
    BY <2>2 DEF Resolved, Resolves, With, Alter, AfterAlter
  <2>4. Apply(d, s).ok
    BY <1>1, <1>2, <2>1, <2>3, AlterGoes
  <2> QED BY <2>4, GoodStep
<1>3. CASE s.op = "update"
  <2>1. Apply(d, s) = UpdateIn(d, s.how) /\ Fills(s.how) = {}
    BY <1>3 DEF Apply, Gentle
  <2>2. Apply(d, s).ok
    BY <1>1, <2>1, UpdateGoes
  <2> QED BY <2>2, GoodStep
<1>4. CASE s.op \in {"trigger", "other"}
  <2>1. Apply(d, s) = d \/ Apply(d, s) = [d EXCEPT !.holds = s.holds]
    BY <1>4 DEF Apply
  <2>2. Apply(d, s).ok
    BY <1>1, <2>1 DEF IsDatabase
  <2> QED BY <2>2, GoodStep
<1>5. CASE s.op = "drop"
  <2> DEFINE new == Anew(d, s.table, {}, {})
  <2>1. s.table \in Tables
    BY <1>1, <1>5 DEF IsStatement
  <2>2. /\ IsDatabase(new)
        /\ new.tables[s.table] = [has |-> {}, required |-> {}]
        /\ \A u \in Tables \ {s.table} : new.tables[u] = d.tables[u]
        /\ new.row = IF s.table = "transactions" THEN <<>> ELSE d.row
        /\ new.fees = IF s.table = "fees" THEN <<>> ELSE d.fees
        /\ new.holds = d.holds /\ new.day = d.day /\ new.wide = d.wide /\ new.ok = d.ok
    BY <1>1, <2>1, AnewFields
  <2>3. Apply(d, s) = new
    BY <1>5 DEF Apply
  <2> HIDE DEF new
  <2>4. Apply(d, s).ok
    BY <1>1, <2>2, <2>3
  <2> QED BY <2>4, GoodStep
<1>6. CASE s.op = "create"
  <2> DEFINE new == Anew(d, s.table, s.has, s.required)
             free == d.tables[s.table].has = {}
  <2>1. s.table \in Tables
    BY <1>1, <1>6 DEF IsStatement
  <2>2. /\ IsDatabase(new)
        /\ new.tables[s.table] = [has |-> s.has, required |-> s.required]
        /\ \A u \in Tables \ {s.table} : new.tables[u] = d.tables[u]
        /\ new.row = IF s.table = "transactions" THEN <<>> ELSE d.row
        /\ new.fees = IF s.table = "fees" THEN <<>> ELSE d.fees
        /\ new.holds = d.holds /\ new.day = d.day /\ new.wide = d.wide /\ new.ok = d.ok
    BY <1>1, <2>1, AnewFields
  <2>3. Apply(d, s) = [new EXCEPT !.ok = free]
    BY <1>6 DEF Apply
  <2>4. free
    BY <1>1, <1>6, <2>1 DEF Works, Columns
  <2> HIDE DEF new, free
  <2>5. Apply(d, s).ok
    BY <2>2, <2>3, <2>4 DEF IsDatabase
  <2> QED BY <2>5, GoodStep
<1> QED BY <1>1, <1>2, <1>3, <1>4, <1>5, <1>6 DEF IsStatement, Gentle

-----------------------------------------------------------------------------
(* A migration of gentle statements.                                        *)
LEMMA GentleRun ==
  ASSUME NEW d, NEW x, NEW ss, NEW y, Good(d, x), Leads(x, ss, y),
         \A i \in 1 .. Len(ss) : Gentle(ss[i])
  PROVE  Good(Run(d, ss), y)
<1> DEFINE n == Len(ss)
<1>1. n \in Nat
  BY DEF Leads
<1>2. PICK H : /\ H[0] = x /\ H[n] = y
               /\ \A i \in 1 .. n : Step(H[i - 1], ss[i], H[i])
  BY DEF Leads
<1>3. PICK f : /\ f[0] = d /\ f[n] = Run(d, ss)
               /\ \A i \in 1 .. n :
                    f[i] = IF f[i - 1].ok THEN Apply(f[i - 1], ss[i]) ELSE f[i - 1]
  BY <1>1, RunSteps
<1> DEFINE Fit(i) == Good(f[i], H[i])
           I == {i \in Nat : i <= n => Fit(i)}
<1>4. 0 \in I
  BY <1>2, <1>3
<1>5. ASSUME NEW i \in I PROVE i + 1 \in I
  <2>1. SUFFICES ASSUME i + 1 <= n PROVE Fit(i + 1)
    OBVIOUS
  <2>2. i + 1 \in 1 .. n /\ i + 1 - 1 = i /\ Fit(i)
    BY <1>1, <1>5, <2>1
  <2>3. f[i].ok
    BY <2>2 DEF Good, Sound
  <2>4. /\ f[i + 1] = Apply(f[i], ss[i + 1]) /\ Gentle(ss[i + 1])
        /\ Step(H[i], ss[i + 1], H[i + 1])
    BY <1>2, <1>3, <2>2, <2>3
  <2> QED BY <2>2, <2>4, GentleStep
<1>6. I = Nat
  BY <1>4, <1>5, Counting
<1>7. Fit(n)
  <2> HIDE DEF n
  <2> QED BY <1>1, <1>6
<1> HIDE DEF I
<1> QED BY <1>2, <1>3, <1>7

(* A column is made to be required once every row has a value in it.        *)
LEMMA RequireStep ==
  ASSUME NEW d, NEW x, NEW c, NEW y, Good(d, x), Step(x, Alter(T, {SetNotNull(c)}), y),
         \A a \in DOMAIN d.row : d.row[a].v[c] # NULL
  PROVE  Good(Apply(d, Alter(T, {SetNotNull(c)})), y)
<1> DEFINE s == Alter(T, {SetNotNull(c)})
           k == SetNotNull(c)
           t == d.tables["transactions"]
           here == AfterAlter(t, s)
           e == AlterIn(d, s)
<1>1. /\ s.op = "alter" /\ s.table = "transactions" /\ s.clauses = {k}
      /\ k.act = "require" /\ k.to = c /\ k.notNull = TRUE /\ k.default = FALSE
  BY DEF Alter, SetNotNull, Clause, T
<1>2. /\ Sound(d) /\ IsDatabase(d) /\ Columns(d) = x.has /\ Filled(d)
      /\ t.required \subseteq t.has /\ \A a \in DOMAIN d.row : RowSound(d, d.row[a])
  BY DEF Good, Sound
<1>3. Step(x, s, y) /\ Works(Columns(d), s)
  BY <1>2 DEF Step
<1> HIDE DEF s, k
<1>4. /\ With(s, {"drop", "rename"}) = {} /\ With(s, {"rename"}) = {}
      /\ With(s, {"add", "rename"}) = {} /\ With(s, {"relax"}) = {}
      /\ With(s, {"add", "require"}) = {k} /\ With(s, {"narrow"}) = {}
  BY <1>1 DEF With
<1>5. here.has = t.has /\ here.required = t.required \cup {c}
  <2>1. {l \in With(s, {"add", "require"}) : l.notNull /\ ~l.default} = {k}
    BY <1>1, <1>4
  <2>2. /\ {l.to : l \in {l \in With(s, {"add", "require"}) : l.notNull /\ ~l.default}} = {c}
        /\ {l.col : l \in With(s, {"drop", "rename"})} = {}
        /\ {l.to : l \in With(s, {"add", "rename"})} = {}
        /\ {l.to : l \in {l \in With(s, {"rename"}) : l.col \in t.required}} = {}
        /\ {l.to : l \in With(s, {"relax"})} = {}
    BY <1>1, <1>4, <2>1
  <2>3. here.has = (t.has \ {}) \cup {} /\ here.required = ((t.required \ {}) \cup {} \cup {c}) \ {}
    BY <2>2 DEF AfterAlter
  <2> QED BY <2>3
<1>6. Resolves(t, s)
  <2>1. Columns(d)["transactions"] = t.has
    BY DEF Columns, Tables
  <2>2. Resolved(t.has, s.clauses)
    BY <1>1, <1>3, <2>1 DEF Works
  <2> QED BY <2>2 DEF Resolved, Resolves, With, Alter, AfterAlter
<1> HIDE DEF here
<1>7. /\ e.tables["transactions"] = here
      /\ e.row = [a \in DOMAIN d.row |-> [d.row[a] EXCEPT !.v = Moved(@, here.has, s)]]
      /\ e.ok = (Resolves(t, s) /\ Filled(e) /\ Fits(e, s))
  <2> DEFINE there == AfterAlter(d.tables[s.table], s)
  <2>1. /\ IsDatabase(e)
        /\ e.tables[s.table] = there
        /\ \A u \in Tables \ {s.table} : e.tables[u] = d.tables[u]
        /\ e.row = IF s.table # "transactions" THEN d.row
                   ELSE [a \in DOMAIN d.row |-> [d.row[a] EXCEPT !.v = Moved(@, there.has, s)]]
        /\ e.fees = d.fees /\ e.day = d.day
        /\ e.ok = (Resolves(d.tables[s.table], s) /\ Filled(e) /\ Fits(e, s))
    BY <1>1, <1>2, AlterFields DEF Tables
  <2>2. there = here
    BY <1>1 DEF here
  <2> HIDE DEF there, e
  <2> QED BY <1>1, <2>1, <2>2
<1> HIDE DEF e
<1>8. ASSUME NEW a \in DOMAIN e.row, NEW b \in here.required PROVE e.row[a].v[b] # NULL
  <2> DEFINE v == d.row[a].v
  <2>1. /\ a \in DOMAIN d.row /\ RowSound(d, d.row[a])
        /\ e.row[a] = [d.row[a] EXCEPT !.v = Moved(v, here.has, s)]
    BY <1>2, <1>7, <1>8
  <2>2. e.row[a].v = Moved(v, here.has, s) /\ DOMAIN v = t.has
    BY <2>1 DEF RowSound
  <2>3. v[b] # NULL
    BY <1>2, <1>5, <1>8, <2>1 DEF Filled
  <2>4. b \in t.has
    <3>1. c \in t.has
      BY <1>1, <1>5, <1>6 DEF Resolves, With, here
    <3> QED BY <1>2, <1>5, <1>8, <3>1
  <2> HIDE DEF v
  <2>5. Moved(v, here.has, s)[b] = v[b]
    BY <1>5, <2>2, <2>4 DEF Moved
  <2> QED BY <2>2, <2>3, <2>5
<1>9. Filled(e) /\ Fits(e, s)
  BY <1>4, <1>7, <1>8 DEF Filled, Fits
<1>10. Apply(d, s) = e
  BY <1>1 DEF Apply, e
<1>11. Apply(d, s).ok
  BY <1>6, <1>7, <1>9, <1>10
<1>12. Good(Apply(d, s), y)
  BY <1>3, <1>11, GoodStep
<1> QED BY <1>12 DEF s

-----------------------------------------------------------------------------
(* What went through on one database is accepted by its columns.            *)
SchemaOf(d) == [has |-> Columns(d), required |-> Required(d)]

(* A statement that went through is a step between the schemas,             *)
LEMMA WentThrough ==
  ASSUME NEW d, NEW s, IsDatabase(d), IsStatement(s), Apply(d, s).ok
  PROVE  Step(SchemaOf(d), s, SchemaOf(Apply(d, s)))
<1>1. /\ Columns(Apply(d, s)) = ColumnsAfter(Columns(d), s)
      /\ Required(Apply(d, s)) = RequiredAfter(Required(d), s)
  BY ApplyColumns, ApplyRequired
<1>2. Works(Columns(d), s)
  <2>1. ASSUME s.op = "alter" PROVE Resolved(Columns(d)[s.table], s.clauses)
    <3> DEFINE e == AlterIn(d, s)
               here == AfterAlter(d.tables[s.table], s)
    <3>1. s.table \in Tables /\ Apply(d, s) = e
      BY <2>1 DEF IsStatement, Apply
    <3>2. /\ IsDatabase(e)
          /\ e.tables[s.table] = here
          /\ \A u \in Tables \ {s.table} : e.tables[u] = d.tables[u]
          /\ e.row = IF s.table # "transactions" THEN d.row
                     ELSE [a \in DOMAIN d.row |-> [d.row[a] EXCEPT !.v = Moved(@, here.has, s)]]
          /\ e.fees = d.fees /\ e.day = d.day
          /\ e.ok = (Resolves(d.tables[s.table], s) /\ Filled(e) /\ Fits(e, s))
      BY <3>1, AlterFields
    <3> HIDE DEF e, here
    <3>3. Resolves(d.tables[s.table], s)
      BY <3>1, <3>2
    <3>4. Columns(d)[s.table] = d.tables[s.table].has
      BY <3>1 DEF Columns
    <3>5. Resolved(d.tables[s.table].has, s.clauses)
      BY <3>3 DEF Resolved, Resolves, With, Alter, AfterAlter
    <3> QED BY <3>4, <3>5
  <2>2. ASSUME s.op = "create" PROVE Columns(d)[s.table] = {}
    <3> DEFINE new == Anew(d, s.table, s.has, s.required)
               free == d.tables[s.table].has = {}
    <3>1. s.table \in Tables /\ Apply(d, s) = [new EXCEPT !.ok = free]
      BY <2>2 DEF IsStatement, Apply
    <3>2. /\ IsDatabase(new)
          /\ new.tables[s.table] = [has |-> s.has, required |-> s.required]
          /\ \A u \in Tables \ {s.table} : new.tables[u] = d.tables[u]
          /\ new.row = IF s.table = "transactions" THEN <<>> ELSE d.row
          /\ new.fees = IF s.table = "fees" THEN <<>> ELSE d.fees
          /\ new.holds = d.holds /\ new.day = d.day /\ new.wide = d.wide /\ new.ok = d.ok
      BY <3>1, AnewFields
    <3> HIDE DEF new, free
    <3>3. [new EXCEPT !.ok = free].ok = free
      BY <3>2 DEF IsDatabase
    <3>4. free
      BY <3>1, <3>3
    <3> QED BY <3>1, <3>4 DEF free, Columns
  <2> QED BY <2>1, <2>2 DEF Works
<1> QED BY <1>1, <1>2 DEF Step, SchemaOf

(* and a migration leads from the one to the other.                         *)
LEMMA RunWentThrough ==
  ASSUME NEW d, NEW ss, IsDatabase(d), AreStatements(ss), Run(d, ss).ok
  PROVE  Leads(SchemaOf(d), ss, SchemaOf(Run(d, ss)))
<1> DEFINE n == Len(ss)
<1>1. n \in Nat /\ DOMAIN ss = 1 .. n /\ \A i \in 1 .. n : IsStatement(ss[i])
  BY DEF AreStatements
<1>2. PICK f : /\ f[0] = d /\ f[n] = Run(d, ss)
               /\ \A i \in 0 .. n : f[i].ok
               /\ \A i \in 1 .. n : f[i] = Apply(f[i - 1], ss[i])
  BY <1>1, RunApplies
<1> DEFINE I == {i \in Nat : i <= n => IsDatabase(f[i])}
<1>3. 0 \in I
  BY <1>2
<1>4. ASSUME NEW i \in I PROVE i + 1 \in I
  <2>1. SUFFICES ASSUME i + 1 <= n PROVE IsDatabase(f[i + 1])
    OBVIOUS
  <2>2. i + 1 \in 1 .. n /\ i + 1 - 1 = i /\ IsDatabase(f[i])
    BY <1>1, <1>4, <2>1
  <2> QED BY <1>1, <1>2, <2>2, ApplyColumns
<1>5. I = Nat
  BY <1>3, <1>4, Counting
<1> HIDE DEF n
<1>6. \A i \in 0 .. n : IsDatabase(f[i])
  BY <1>1, <1>5
<1> DEFINE H == [i \in 0 .. n |-> SchemaOf(f[i])]
<1>7. ASSUME NEW i \in 1 .. n PROVE Step(H[i - 1], ss[i], H[i])
  <2>1. i - 1 \in 0 .. n /\ i \in 0 .. n
    BY <1>1
  <2>2. Step(SchemaOf(f[i - 1]), ss[i], SchemaOf(f[i]))
    <3>1. f[i] = Apply(f[i - 1], ss[i]) /\ Apply(f[i - 1], ss[i]).ok /\ IsDatabase(f[i - 1])
      BY <1>2, <1>6, <2>1
    <3> QED BY <1>1, <3>1, WentThrough
  <2> QED BY <2>1, <2>2
<1>8. H[0] = SchemaOf(d) /\ H[n] = SchemaOf(Run(d, ss))
  BY <1>1, <1>2
<1> HIDE DEF H
<1>9. \E G : /\ G[0] = SchemaOf(d) /\ G[n] = SchemaOf(Run(d, ss))
             /\ \A i \in 1 .. n : Step(G[i - 1], ss[i], G[i])
  BY <1>7, <1>8
<1> QED BY <1>1, <1>9 DEF Leads, n

(* A pull request's migrations ran in CI, on a database without rows; and   *)
(* those without a finding neither shorten a token nor fill a column from   *)
(* the fees, throw on no row, and leave every attempt the status it has.    *)
TriedDrafts ==
  \A d \in Drafts : ScanStatements(d) = {} =>
    /\ Run(Fresh[Committed], d).ok
    /\ \A i \in 1 .. Len(d) :
         /\ d[i].op # "check" /\ SparesStatus(d[i])
         /\ d[i].op = "alter" => \A k \in d[i].clauses : k.act # "narrow"
         /\ d[i].op = "update" => Fills(d[i].how) = {}

(* Such a draft goes through on whatever rows there are.                    *)
LEMMA CleanDraftGoes ==
  ASSUME TriedDrafts, NEW ss \in Drafts, ScanStatements(ss) = {},
         NEW d, Sound(d), OfLevel(d, Committed)
  PROVE  Run(d, ss).ok /\ SameStatus(d, Run(d, ss))
<1> DEFINE g == Fresh[Committed]
           x == SchemaOf(g)
           y == SchemaOf(Run(g, ss))
<1>1. Committed \in 0 .. Committed
  BY LevelsLead
<1>2. Bare(g) /\ Columns(g) = At(Committed).has /\ Required(g) = RequiredAt(Committed)
  BY <1>1, FreshLevels
<1>3. AreStatements(ss) /\ Run(g, ss).ok
  BY DraftStatements DEF TriedDrafts
<1>4. ASSUME NEW i \in 1 .. Len(ss) PROVE Gentle(ss[i])
  <2> DEFINE s == ss[i]
  <2>1. /\ s.op # "check"
        /\ s.op = "alter" => \A k \in s.clauses : k.act # "narrow"
        /\ s.op = "update" => Fills(s.how) = {}
    BY <1>4 DEF TriedDrafts
  <2>2. ScanSql(s) = {}
    <3>1. s \in Range(ss)
      BY <1>3 DEF AreStatements, Range
    <3> QED BY <3>1 DEF ScanStatements
  <2> HIDE DEF s
  <2>3. ASSUME s.op = "alter" PROVE Loosens(s.clauses)
    <3>1. /\ With(s, {"drop"}) = {} /\ With(s, {"rename"}) = {}
          /\ \A k \in With(s, {"add", "require"}) : ~(k.notNull /\ ~k.default)
      BY <2>2, <2>3, Unflagged
    <3> QED BY <3>1 DEF Loosens, With
  <2> QED BY <2>1, <2>3 DEF Gentle, GentleClauses, s
<1> HIDE DEF g
<1>5. Leads(x, ss, y)
  BY <1>2, <1>3, RunWentThrough DEF Bare
<1>6. Good(d, x)
  BY <1>2 DEF Good, OfLevel, SchemaOf
<1> HIDE DEF x, y
<1>7. Good(Run(d, ss), y)
  BY <1>4, <1>5, <1>6, GentleRun
<1>8. Run(d, ss).ok
  BY <1>7 DEF Good, Sound
<1>9. \A i \in 1 .. Len(ss) : SparesStatus(ss[i])
  BY DEF TriedDrafts
<1> QED BY <1>3, <1>8, <1>9, RunSpares

-----------------------------------------------------------------------------
(* The fee a row names, and the key a fee has, are keys the backfills know. *)
FeeNames == {"fee", "fee_id"}
KeysKnown(d) == \A id \in DOMAIN d.fees : "key" \in DOMAIN d.fees[id] /\ d.fees[id].key \in Keys
RowsKnown(d) ==
  \A a \in DOMAIN d.row : \A c \in FeeNames \cap DOMAIN d.row[a].v : d.row[a].v[c] \in Keys
FeesKnown(d)   == KeysKnown(d) /\ RowsKnown(d)
Unversioned(d) == Version \notin DOMAIN d.fees

(* A statement that puts nothing but the name of a fee in such a column.    *)
MildClauses(clauses) ==
  \A k \in clauses : /\ k.act = "add" => k.to \notin FeeNames
                     /\ k.act = "rename" /\ k.to \in FeeNames => k.col \in FeeNames
Mild(s) == s.op = "alter" /\ s.table = T => MildClauses(s.clauses)

(* An ALTER of the portal's table.                                          *)
LEMMA MovedKnown ==
  ASSUME NEW t, NEW s, MildClauses(s.clauses), Resolves(t, s), NEW v, DOMAIN v = t.has,
         \A c \in FeeNames \cap DOMAIN v : v[c] \in Keys,
         NEW c \in FeeNames \cap AfterAlter(t, s).has
  PROVE  Moved(v, AfterAlter(t, s).has, s)[c] \in Keys
<1> DEFINE here == AfterAlter(t, s)
           new == Moved(v, here.has, s)
           renamed == {l \in With(s, {"rename"}) : l.col \in DOMAIN v}
           old == CHOOSE l \in renamed : l.to = c
<1>1. c \in here.has /\ c \in FeeNames
  OBVIOUS
<1>2. CASE c \in DOMAIN v
  <2> HIDE DEF here
  <2>1. new[c] = v[c]
    BY <1>1, <1>2 DEF Moved
  <2> QED BY <1>1, <1>2, <2>1 DEF here
<1>3. CASE c \notin DOMAIN v
  <2>1. c \in {k.to : k \in With(s, {"add", "rename"})}
    BY <1>1, <1>3 DEF AfterAlter
  <2>2. PICK k \in With(s, {"add", "rename"}) : k.to = c
    BY <2>1
  <2>3. k \in s.clauses /\ k.act = "rename"
    BY <1>1, <2>2 DEF With, MildClauses
  <2>4. k \in renamed
    BY <2>3 DEF With, Resolves
  <2> HIDE DEF here
  <2>5. (\E l \in renamed : l.to = c) => new[c] = v[old.col]
    BY <1>1, <1>3 DEF Moved
  <2> HIDE DEF new
  <2>6. old \in renamed /\ old.to = c
    BY <2>2, <2>4
  <2>7. old \in s.clauses /\ old.act = "rename" /\ old.col \in DOMAIN v
    BY <2>6 DEF With
  <2> HIDE DEF old
  <2>8. old.col \in FeeNames
    BY <1>1, <2>6, <2>7 DEF MildClauses
  <2>9. new[c] = v[old.col]
    BY <2>2, <2>4, <2>5 DEF old
  <2> QED BY <2>7, <2>8, <2>9 DEF new, here
<1> QED BY <1>2, <1>3

(* An ALTER with such clauses keeps the fees known,                         *)
LEMMA AlterKnown ==
  ASSUME NEW d, NEW s, Sound(d), s.table \in Tables, s.op = "alter", Mild(s), FeesKnown(d),
         AlterIn(d, s).ok
  PROVE  FeesKnown(AlterIn(d, s)) /\ AlterIn(d, s).fees = d.fees
<1> DEFINE e == AlterIn(d, s)
           here == AfterAlter(d.tables[s.table], s)
           t == d.tables["transactions"]
<1>1. /\ IsDatabase(e)
      /\ e.tables[s.table] = here
      /\ \A u \in Tables \ {s.table} : e.tables[u] = d.tables[u]
      /\ e.row = IF s.table # "transactions" THEN d.row
                 ELSE [a \in DOMAIN d.row |-> [d.row[a] EXCEPT !.v = Moved(@, here.has, s)]]
      /\ e.fees = d.fees /\ e.day = d.day
      /\ e.ok = (Resolves(d.tables[s.table], s) /\ Filled(e) /\ Fits(e, s))
  BY AlterFields DEF Sound
<1>2. Resolves(d.tables[s.table], s)
  BY <1>1
<1>3. \A a \in DOMAIN d.row : RowSound(d, d.row[a])
  BY DEF Sound
<1> HIDE DEF e
<1>4. KeysKnown(e)
  BY <1>1 DEF FeesKnown, KeysKnown
<1>5. CASE s.table # "transactions"
  <2>1. RowsKnown(e)
    BY <1>1, <1>5 DEF FeesKnown, RowsKnown
  <2> QED BY <1>1, <1>4, <2>1 DEF FeesKnown, e
<1>6. CASE s.table = "transactions"
  <2>1. ASSUME NEW a \in DOMAIN e.row, NEW c \in FeeNames \cap DOMAIN e.row[a].v
        PROVE  e.row[a].v[c] \in Keys
    <3> DEFINE v == d.row[a].v
    <3>1. /\ a \in DOMAIN d.row /\ RowSound(d, d.row[a])
          /\ e.row[a] = [d.row[a] EXCEPT !.v = Moved(v, here.has, s)]
      BY <1>1, <1>3, <1>6, <2>1
    <3>2. e.row[a].v = Moved(v, here.has, s) /\ DOMAIN v = t.has
      BY <3>1 DEF RowSound
    <3>3. \A b \in FeeNames \cap DOMAIN v : v[b] \in Keys
      BY <3>1 DEF FeesKnown, RowsKnown
    <3>4. here = AfterAlter(t, s) /\ Resolves(t, s) /\ MildClauses(s.clauses)
      BY <1>2, <1>6 DEF Mild, T
    <3> HIDE DEF v, here, t
    <3>5. DOMAIN e.row[a].v = here.has
      BY <3>2 DEF Moved
    <3>6. c \in FeeNames \cap AfterAlter(t, s).has
      BY <2>1, <3>4, <3>5
    <3>7. Moved(v, AfterAlter(t, s).has, s)[c] \in Keys
      BY <3>2, <3>3, <3>4, <3>6, MovedKnown
    <3> QED BY <3>2, <3>4, <3>7
  <2>2. RowsKnown(e)
    BY <2>1 DEF RowsKnown
  <2> QED BY <1>1, <1>4, <2>2 DEF FeesKnown, e
<1> QED BY <1>5, <1>6

(* An UPDATE; the key of a fee becomes its id only before it has versions.  *)
LEMMA WrittenKnown ==
  ASSUME NEW how, NEW d, NEW v, KeysKnown(d), NEW c \in FeeNames \cap DOMAIN v,
         c = "fee_id" /\ how = "fee keys" => v["fee_id"] \in DOMAIN d.fees,
         (c = "fee_id" /\ how = "fee keys") \/ v[c] \in Keys
  PROVE  Written(how, d, v)[c] \in Keys
<1>1. "fee" # "fee_id"
  OBVIOUS
<1>2. CASE c = "fee_id" /\ how = "fee keys"
  <2>1. Written(how, d, v) = [v EXCEPT !["fee_id"] = d.fees[v["fee_id"]].key]
    BY <1>2 DEF Written
  <2> QED BY <1>2, <2>1 DEF KeysKnown
<1>3. CASE ~(c = "fee_id" /\ how = "fee keys")
  <2>1. Written(how, d, v)[c] = v[c]
    BY <1>3 DEF Written, FeeNames
  <2> QED BY <1>3, <2>1
<1> QED BY <1>2, <1>3

(* and so does any UPDATE that reads known fees.                            *)
LEMMA UpdateKnown ==
  ASSUME NEW d, NEW how, Sound(d), KeysKnown(d), how = "fee_key = fee_id" => Unversioned(d),
         how = "fee keys" \/ RowsKnown(d),
         \A a \in DOMAIN d.row : \A c \in FeeNames \cap DOMAIN d.row[a].v :
           d.row[a].v[c] \in Keys \/ (c = "fee_id" /\ d.row[a].v[c] \in DOMAIN d.fees)
  PROVE  FeesKnown(UpdateIn(d, how)) /\ DOMAIN UpdateIn(d, how).fees = DOMAIN d.fees
<1> DEFINE e == UpdateIn(d, how)
<1>1. /\ IsDatabase(e)
      /\ how = "fee_key = fee_id" =>
           /\ e.row = d.row /\ e.ok = d.ok
           /\ e.fees = [id \in DOMAIN d.fees |-> [d.fees[id] EXCEPT !.key = id]]
      /\ how # "fee_key = fee_id" =>
           /\ e.fees = d.fees /\ e.ok = Filled(e)
           /\ e.row = [a \in DOMAIN d.row |->
                IF Meets(how, d, a)
                THEN Touch(d, d.row[a], Written(how, d, d.row[a].v)) ELSE d.row[a]]
  BY UpdateFields DEF Sound
<1>2. /\ DOMAIN d.fees \subseteq Keys \cup {Version} /\ d.day \in Nat \ {0}
      /\ \A a \in DOMAIN d.row : RowSound(d, d.row[a])
  BY DEF Sound
<1> HIDE DEF e
<1>3. CASE how = "fee_key = fee_id"
  <2>1. ASSUME NEW id \in DOMAIN e.fees
        PROVE  "key" \in DOMAIN e.fees[id] /\ e.fees[id].key \in Keys
    <3>1. id \in DOMAIN d.fees /\ e.fees[id] = [d.fees[id] EXCEPT !.key = id]
      BY <1>1, <1>3, <2>1
    <3>2. id \in Keys /\ "key" \in DOMAIN d.fees[id]
      BY <1>2, <1>3, <3>1 DEF Unversioned, KeysKnown
    <3> QED BY <3>1, <3>2
  <2>2. RowsKnown(e) /\ DOMAIN e.fees = DOMAIN d.fees
    BY <1>1, <1>3 DEF RowsKnown
  <2> QED BY <2>1, <2>2 DEF FeesKnown, KeysKnown, e
<1>4. CASE how # "fee_key = fee_id"
  <2>1. e.fees = d.fees /\ KeysKnown(e)
    BY <1>1, <1>4 DEF KeysKnown
  <2>2. ASSUME NEW a \in DOMAIN e.row, NEW c \in FeeNames \cap DOMAIN e.row[a].v
        PROVE  e.row[a].v[c] \in Keys
    <3> DEFINE v == d.row[a].v
               new == Written(how, d, v)
    <3>0. a \in DOMAIN d.row
      BY <1>1, <1>4, <2>2
    <3>1. RowSound(d, d.row[a])
      BY <1>2, <3>0
    <3>2. DOMAIN new = DOMAIN v
      BY DEF Written
    <3>3. Touch(d, d.row[a], new).v = new
      BY <1>2, <3>1, <3>2, TouchSound
    <3>4. CASE Meets(how, d, a)
      <4>1. e.row[a] = Touch(d, d.row[a], new)
        BY <1>1, <1>4, <3>0, <3>4
      <4>2. c \in FeeNames \cap DOMAIN v
        BY <2>2, <3>2, <3>3, <4>1
      <4>3. how = "fee keys" => v["fee_id"] \in DOMAIN d.fees
        BY <3>4 DEF Meets
      <4>4. (c = "fee_id" /\ how = "fee keys") \/ v[c] \in Keys
        BY <3>0, <4>2 DEF RowsKnown
      <4> HIDE DEF v
      <4>5. new[c] \in Keys
        BY <4>2, <4>3, <4>4, WrittenKnown
      <4> QED BY <3>3, <4>1, <4>5
    <3>5. CASE ~Meets(how, d, a)
      <4>1. e.row[a] = d.row[a]
        BY <1>1, <1>4, <3>0, <3>5
      <4>2. v[c] \in Keys \/ (c = "fee_id" /\ v[c] \in DOMAIN d.fees)
        BY <2>2, <3>0, <4>1
      <4>3. how = "fee keys" => v["fee_id"] \notin DOMAIN d.fees
        BY <3>5 DEF Meets
      <4>4. how # "fee keys" => v[c] \in Keys
        BY <2>2, <3>0, <4>1 DEF RowsKnown
      <4> QED BY <4>1, <4>2, <4>3, <4>4
    <3> QED BY <3>4, <3>5
  <2>3. RowsKnown(e)
    BY <2>2 DEF RowsKnown
  <2> QED BY <2>1, <2>3 DEF FeesKnown, e
<1> QED BY <1>3, <1>4

(* A table anew has no rows, and no fees.                                   *)
LEMMA AnewKnown ==
  ASSUME NEW d, NEW t \in Tables, NEW has, NEW required, IsDatabase(d), FeesKnown(d)
  PROVE  /\ IsDatabase(Anew(d, t, has, required)) /\ FeesKnown(Anew(d, t, has, required))
         /\ DOMAIN Anew(d, t, has, required).fees \subseteq DOMAIN d.fees
<1> DEFINE e == Anew(d, t, has, required)
<1>1. /\ IsDatabase(e)
      /\ e.tables[t] = [has |-> has, required |-> required]
      /\ \A u \in Tables \ {t} : e.tables[u] = d.tables[u]
      /\ e.row = IF t = "transactions" THEN <<>> ELSE d.row
      /\ e.fees = IF t = "fees" THEN <<>> ELSE d.fees
      /\ e.holds = d.holds /\ e.day = d.day /\ e.wide = d.wide /\ e.ok = d.ok
  BY AnewFields
<1> HIDE DEF e
<1>2. DOMAIN (<<>>) = {}
  OBVIOUS
<1>3. /\ DOMAIN e.row = {} \/ e.row = d.row
      /\ DOMAIN e.fees = {} \/ e.fees = d.fees
  BY <1>1, <1>2
<1>4. FeesKnown(e) /\ DOMAIN e.fees \subseteq DOMAIN d.fees
  BY <1>3 DEF FeesKnown, KeysKnown, RowsKnown
<1> QED BY <1>1, <1>4 DEF e

(* Every statement of that kind, and every migration of them.               *)
LEMMA ApplyKnown ==
  ASSUME NEW d, NEW s, Sound(d), IsStatement(s), Mild(s), FeesKnown(d), Apply(d, s).ok,
         s.op = "update" /\ s.how = "fee_key = fee_id" => Unversioned(d)
  PROVE  FeesKnown(Apply(d, s)) /\ DOMAIN Apply(d, s).fees \subseteq DOMAIN d.fees
<1> DEFINE e == Apply(d, s)
<1>0. IsDatabase(d)
  BY DEF Sound
<1>1. CASE s.op = "alter"
  <2>1. s.table \in Tables /\ e = AlterIn(d, s)
    BY <1>1 DEF IsStatement, Apply
  <2> QED BY <1>1, <2>1, AlterKnown
<1>2. CASE s.op = "update"
  <2>1. e = UpdateIn(d, s.how)
    BY <1>2 DEF Apply
  <2>2. /\ KeysKnown(d) /\ RowsKnown(d)
        /\ s.how = "fee_key = fee_id" => Unversioned(d)
        /\ \A a \in DOMAIN d.row : \A c \in FeeNames \cap DOMAIN d.row[a].v :
             d.row[a].v[c] \in Keys \/ (c = "fee_id" /\ d.row[a].v[c] \in DOMAIN d.fees)
    BY <1>2 DEF FeesKnown, RowsKnown
  <2>3. FeesKnown(UpdateIn(d, s.how)) /\ DOMAIN UpdateIn(d, s.how).fees = DOMAIN d.fees
    BY <2>2, UpdateKnown
  <2> QED BY <2>1, <2>3
<1>3. CASE s.op \in {"trigger", "other"}
  <2>1. e = d \/ e = [d EXCEPT !.holds = s.holds]
    BY <1>3 DEF Apply
  <2> HIDE DEF e
  <2>2. e.row = d.row /\ e.fees = d.fees
    BY <1>0, <2>1 DEF IsDatabase
  <2>3. FeesKnown(e)
    BY <2>2 DEF FeesKnown, KeysKnown, RowsKnown
  <2> QED BY <2>2, <2>3 DEF e
<1>4. CASE s.op \in {"create", "drop"}
  <2> DEFINE has == IF s.op = "create" THEN s.has ELSE {}
             required == IF s.op = "create" THEN s.required ELSE {}
             new == Anew(d, s.table, has, required)
             free == d.tables[s.table].has = {}
  <2>1. e = new \/ e = [new EXCEPT !.ok = free]
    BY <1>4 DEF Apply
  <2>2. s.table \in Tables
    BY <1>4 DEF IsStatement
  <2> HIDE DEF has, required, free, e
  <2> HIDE DEF new
  <2>3. /\ IsDatabase(new)
        /\ FeesKnown(new) /\ DOMAIN new.fees \subseteq DOMAIN d.fees
    BY <1>0, <2>2, AnewKnown DEF new
  <2>4. e.row = new.row /\ e.fees = new.fees
    BY <2>1, <2>3 DEF IsDatabase
  <2>5. FeesKnown(e) /\ DOMAIN e.fees \subseteq DOMAIN d.fees
    BY <2>3, <2>4 DEF FeesKnown, KeysKnown, RowsKnown
  <2> QED BY <2>5 DEF e
<1>5. CASE s.op = "check"
  <2>1. e.row = d.row /\ e.fees = d.fees
    BY <1>0, <1>5, CheckFields
  <2> HIDE DEF e
  <2>2. FeesKnown(e)
    BY <2>1 DEF FeesKnown, KeysKnown, RowsKnown
  <2> QED BY <2>1, <2>2 DEF e
<1> QED BY <1>1, <1>2, <1>3, <1>4, <1>5 DEF IsStatement

(* A migration of such statements.                                          *)
LEMMA RunKnown ==
  ASSUME NEW d, NEW ss, Sound(d), AreStatements(ss), \A i \in 1 .. Len(ss) : Mild(ss[i]),
         FeesKnown(d), Unversioned(d), Run(d, ss).ok
  PROVE  FeesKnown(Run(d, ss)) /\ Unversioned(Run(d, ss))
<1> DEFINE n == Len(ss)
<1>1. n \in Nat
  BY DEF AreStatements
<1>2. PICK f : /\ f[0] = d /\ f[n] = Run(d, ss)
               /\ \A i \in 0 .. n : f[i].ok
               /\ \A i \in 1 .. n : f[i] = Apply(f[i - 1], ss[i])
  BY <1>1, RunApplies
<1> DEFINE Fit(i) == Sound(f[i]) /\ FeesKnown(f[i]) /\ Unversioned(f[i])
           I == {i \in Nat : i <= n => Fit(i)}
<1>3. 0 \in I
  <2>1. f[0] = d
    BY <1>2
  <2>2. Fit(0)
    BY <2>1
  <2> QED BY <2>2
<1>4. ASSUME NEW i \in I PROVE i + 1 \in I
  <2>1. SUFFICES ASSUME i + 1 <= n PROVE Fit(i + 1)
    OBVIOUS
  <2>2. i + 1 \in 1 .. n /\ i + 1 \in 0 .. n /\ i + 1 - 1 = i /\ Fit(i)
    BY <1>1, <1>4, <2>1
  <2>3. /\ f[i + 1] = Apply(f[i], ss[i + 1]) /\ Apply(f[i], ss[i + 1]).ok
        /\ IsStatement(ss[i + 1]) /\ Mild(ss[i + 1])
    BY <1>2, <2>2 DEF AreStatements
  <2>4. Sound(f[i + 1])
    BY <2>2, <2>3, ApplySound
  <2>5. FeesKnown(f[i + 1]) /\ DOMAIN f[i + 1].fees \subseteq DOMAIN f[i].fees
    BY <2>2, <2>3, ApplyKnown
  <2> QED BY <2>2, <2>4, <2>5 DEF Unversioned
<1>5. I = Nat
  BY <1>3, <1>4, Counting
<1>6. Fit(n)
  <2> HIDE DEF n
  <2> QED BY <1>1, <1>5
<1> HIDE DEF I
<1> QED BY <1>2, <1>6

-----------------------------------------------------------------------------
(* What kind of statements the migrations are made of.                      *)
LEMMA Kinds ==
  /\ \A b : Gentle(Trigger(b)) /\ Mild(Trigger(b))
  /\ Gentle(Other) /\ Mild(Other) /\ Mild(Check)
  /\ \A t, has, required : Gentle(Create(t, has, required)) /\ Mild(Create(t, has, required))
  /\ \A t : Gentle(DropTable(t)) /\ Mild(DropTable(t))
  /\ \A how : Mild(Update(how)) /\ (Fills(how) = {} => Gentle(Update(how)))
  /\ \A t, C : Gentle(Alter(t, Adds(C))) /\ (C \cap FeeNames = {} => Mild(Alter(t, Adds(C))))
  /\ \A t, C : Gentle(Alter(t, Drops(C))) /\ Mild(Alter(t, Drops(C)))
  /\ \A t, c : Gentle(Alter(t, {DropNotNull(c)})) /\ Mild(Alter(t, {DropNotNull(c)}))
  /\ \A c, to : /\ Gentle(Alter(T, {Rename(c, to)}))
                /\ c \in FeeNames => Mild(Alter(T, {Rename(c, to)}))
  /\ \A t, c : Mild(Alter(t, {SetNotNull(c)})) /\ (t # T => Gentle(Alter(t, {SetNotNull(c)})))
  /\ \A c : Gentle(Alter(T, {SetLength(c, 36)}))
  /\ \A c, n : Mild(Alter(T, {SetLength(c, n)}))
<1>1. \A b : Gentle(Trigger(b)) /\ Mild(Trigger(b))
  BY DEF Trigger, Gentle, Mild
<1>2. Gentle(Other) /\ Mild(Other) /\ Mild(Check)
  BY DEF Other, Check, Gentle, Mild
<1>3. \A t, has, required : Gentle(Create(t, has, required)) /\ Mild(Create(t, has, required))
  BY DEF Create, Gentle, Mild
<1>4. \A t : Gentle(DropTable(t)) /\ Mild(DropTable(t))
  BY DEF DropTable, Gentle, Mild
<1>5. \A how : Mild(Update(how)) /\ (Fills(how) = {} => Gentle(Update(how)))
  BY DEF Update, Gentle, Mild
<1>6. ASSUME NEW t, NEW C
      PROVE  /\ Gentle(Alter(t, Adds(C))) /\ (C \cap FeeNames = {} => Mild(Alter(t, Adds(C))))
             /\ Gentle(Alter(t, Drops(C))) /\ Mild(Alter(t, Drops(C)))
  <2>1. \A c : /\ Add(c).act = "add" /\ Add(c).to = c /\ Add(c).notNull = FALSE
               /\ DropColumn(c).act = "drop"
    BY DEF Add, DropColumn, Clause
  <2>2. \A k \in Adds(C) : k.act = "add" /\ k.to \in C /\ ~k.notNull
    BY <2>1 DEF Adds
  <2>3. \A k \in Drops(C) : k.act = "drop"
    BY <2>1 DEF Drops
  <2>4. GentleClauses(Adds(C)) /\ GentleClauses(Drops(C))
    BY <2>2, <2>3 DEF GentleClauses, Loosens
  <2>5. (C \cap FeeNames = {} => MildClauses(Adds(C))) /\ MildClauses(Drops(C))
    BY <2>2, <2>3 DEF MildClauses
  <2>6. \A S : Alter(t, S).op = "alter" /\ Alter(t, S).table = t /\ Alter(t, S).clauses = S
    BY DEF Alter
  <2> QED BY <2>4, <2>5, <2>6 DEF Gentle, Mild, GentleClauses
<1>7. ASSUME NEW t, NEW c, NEW n, NEW k \in {DropNotNull(c), SetNotNull(c), SetLength(c, n)}
      PROVE  Mild(Alter(t, {k}))
  <2>1. k.act \in {"relax", "require", "widen", "narrow"}
    BY DEF DropNotNull, SetNotNull, SetLength, Clause
  <2> QED BY <2>1 DEF Alter, Mild, MildClauses
<1>8. ASSUME NEW t, NEW c
      PROVE  /\ Gentle(Alter(t, {DropNotNull(c)})) /\ Gentle(Alter(T, {SetLength(c, 36)}))
             /\ t # T => Gentle(Alter(t, {SetNotNull(c)}))
  <2>1. /\ DropNotNull(c).act = "relax" /\ SetNotNull(c).act = "require"
        /\ SetLength(c, 36).act = "widen"
    BY DEF DropNotNull, SetNotNull, SetLength, Clause
  <2>2. /\ GentleClauses({DropNotNull(c)}) /\ GentleClauses({SetLength(c, 36)})
        /\ \A k \in {SetNotNull(c)} : k.act # "narrow"
    BY <2>1 DEF GentleClauses, Loosens
  <2>3. \A u, S : Alter(u, S).op = "alter" /\ Alter(u, S).table = u /\ Alter(u, S).clauses = S
    BY DEF Alter
  <2> QED BY <2>2, <2>3 DEF Gentle, GentleClauses
<1>9. ASSUME NEW c, NEW to
      PROVE  /\ Gentle(Alter(T, {Rename(c, to)}))
             /\ c \in FeeNames => Mild(Alter(T, {Rename(c, to)}))
  <2>1. Rename(c, to).act = "rename" /\ Rename(c, to).col = c
    BY DEF Rename, Clause
  <2>2. GentleClauses({Rename(c, to)}) /\ (c \in FeeNames => MildClauses({Rename(c, to)}))
    BY <2>1 DEF GentleClauses, MildClauses
  <2> QED BY <2>2 DEF Gentle, Mild, Alter, GentleClauses
<1> QED BY <1>1, <1>2, <1>3, <1>4, <1>5, <1>6, <1>7, <1>8, <1>9

(* Migrations of mild statements, of those the rows do not matter to, and   *)
(* of those no attempt's status is touched by.                              *)
Fine(s, kind) ==
  /\ Mild(s)
  /\ kind = "gentle" => Gentle(s)
  /\ kind = "sparing" => SparesStatus(s)
Finely(ss, kind) == \A i \in 1 .. Len(ss) : Fine(ss[i], kind)

(* A migration is as fine as its statements.                                *)
LEMMA FineSequences ==
  /\ \A k, a : Fine(a, k)
       => Finely(<<a>>, k)
  /\ \A k, a, b : Fine(a, k) /\ Fine(b, k)
       => Finely(<<a, b>>, k)
  /\ \A k, a, b, c : Fine(a, k) /\ Fine(b, k) /\ Fine(c, k)
       => Finely(<<a, b, c>>, k)
  /\ \A k, a, b, c, d : Fine(a, k) /\ Fine(b, k) /\ Fine(c, k) /\ Fine(d, k)
       => Finely(<<a, b, c, d>>, k)
  /\ \A k, a, b, c, d, e : Fine(a, k) /\ Fine(b, k) /\ Fine(c, k) /\ Fine(d, k) /\ Fine(e, k)
       => Finely(<<a, b, c, d, e>>, k)
  /\ \A k, a, b, c, d, e, f :
       Fine(a, k) /\ Fine(b, k) /\ Fine(c, k) /\ Fine(d, k)
         /\ Fine(e, k) /\ Fine(f, k) => Finely(<<a, b, c, d, e, f>>, k)
  /\ \A k, a, b, c, d, e, f, g, h :
       Fine(a, k) /\ Fine(b, k) /\ Fine(c, k) /\ Fine(d, k)
         /\ Fine(e, k) /\ Fine(f, k) /\ Fine(g, k) /\ Fine(h, k)
         => Finely(<<a, b, c, d, e, f, g, h>>, k)
<1>1. ASSUME NEW k, NEW a,
             Fine(a, k)
      PROVE  Finely(<<a>>, k)
  <2> DEFINE ss == <<a>>
  <2>1. Len(ss) = 1 /\ ss[1] = a
    OBVIOUS
  <2> HIDE DEF ss
  <2>2. \A i \in 1 .. 1 : i = 1
    OBVIOUS
  <2>3. Finely(ss, k)
    BY <1>1, <2>1, <2>2 DEF Finely
  <2> QED BY <2>3 DEF ss
<1>2. ASSUME NEW k, NEW a, NEW b,
             Fine(a, k), Fine(b, k)
      PROVE  Finely(<<a, b>>, k)
  <2> DEFINE ss == <<a, b>>
  <2>1. Len(ss) = 2 /\ ss[1] = a /\ ss[2] = b
    OBVIOUS
  <2> HIDE DEF ss
  <2>2. \A i \in 1 .. 2 : i = 1 \/ i = 2
    OBVIOUS
  <2>3. Finely(ss, k)
    BY <1>2, <2>1, <2>2 DEF Finely
  <2> QED BY <2>3 DEF ss
<1>3. ASSUME NEW k, NEW a, NEW b, NEW c,
             Fine(a, k), Fine(b, k), Fine(c, k)
      PROVE  Finely(<<a, b, c>>, k)
  <2> DEFINE ss == <<a, b, c>>
  <2>1. Len(ss) = 3 /\ ss[1] = a /\ ss[2] = b /\ ss[3] = c
    OBVIOUS
  <2> HIDE DEF ss
  <2>2. \A i \in 1 .. 3 : i = 1 \/ i = 2 \/ i = 3
    OBVIOUS
  <2>3. Finely(ss, k)
    BY <1>3, <2>1, <2>2 DEF Finely
  <2> QED BY <2>3 DEF ss
<1>4. ASSUME NEW k, NEW a, NEW b, NEW c, NEW d,
             Fine(a, k), Fine(b, k), Fine(c, k), Fine(d, k)
      PROVE  Finely(<<a, b, c, d>>, k)
  <2> DEFINE ss == <<a, b, c, d>>
  <2>1. Len(ss) = 4 /\ ss[1] = a /\ ss[2] = b /\ ss[3] = c /\ ss[4] = d
    OBVIOUS
  <2> HIDE DEF ss
  <2>2. \A i \in 1 .. 4 : i = 1 \/ i = 2 \/ i = 3 \/ i = 4
    OBVIOUS
  <2>3. Finely(ss, k)
    BY <1>4, <2>1, <2>2 DEF Finely
  <2> QED BY <2>3 DEF ss
<1>5. ASSUME NEW k, NEW a, NEW b, NEW c, NEW d, NEW e,
             Fine(a, k), Fine(b, k), Fine(c, k), Fine(d, k), Fine(e, k)
      PROVE  Finely(<<a, b, c, d, e>>, k)
  <2> DEFINE ss == <<a, b, c, d, e>>
  <2>1. Len(ss) = 5 /\ ss[1] = a /\ ss[2] = b /\ ss[3] = c /\ ss[4] = d /\ ss[5] = e
    OBVIOUS
  <2> HIDE DEF ss
  <2>2. \A i \in 1 .. 5 : i = 1 \/ i = 2 \/ i = 3 \/ i = 4 \/ i = 5
    OBVIOUS
  <2>3. Finely(ss, k)
    BY <1>5, <2>1, <2>2 DEF Finely
  <2> QED BY <2>3 DEF ss
<1>6. ASSUME NEW k, NEW a, NEW b, NEW c, NEW d, NEW e, NEW f,
             Fine(a, k), Fine(b, k), Fine(c, k), Fine(d, k), Fine(e, k), Fine(f, k)
      PROVE  Finely(<<a, b, c, d, e, f>>, k)
  <2> DEFINE ss == <<a, b, c, d, e, f>>
  <2>1. Len(ss) = 6 /\ ss[1] = a /\ ss[2] = b /\ ss[3] = c /\ ss[4] = d /\ ss[5] = e /\ ss[6] = f
    OBVIOUS
  <2> HIDE DEF ss
  <2>2. \A i \in 1 .. 6 : i = 1 \/ i = 2 \/ i = 3 \/ i = 4 \/ i = 5 \/ i = 6
    OBVIOUS
  <2>3. Finely(ss, k)
    BY <1>6, <2>1, <2>2 DEF Finely
  <2> QED BY <2>3 DEF ss
<1>7. ASSUME NEW k, NEW a, NEW b, NEW c, NEW d, NEW e, NEW f, NEW g, NEW h,
             Fine(a, k), Fine(b, k), Fine(c, k), Fine(d, k), Fine(e, k), Fine(f, k),
             Fine(g, k), Fine(h, k)
      PROVE  Finely(<<a, b, c, d, e, f, g, h>>, k)
  <2> DEFINE ss == <<a, b, c, d, e, f, g, h>>
  <2>1. /\ Len(ss) = 8 /\ ss[1] = a /\ ss[2] = b /\ ss[3] = c /\ ss[4] = d
        /\ ss[5] = e /\ ss[6] = f /\ ss[7] = g /\ ss[8] = h
    OBVIOUS
  <2> HIDE DEF ss
  <2>2. \A i \in 1 .. 8 : i = 1 \/ i = 2 \/ i = 3 \/ i = 4 \/ i = 5 \/ i = 6 \/ i = 7 \/ i = 8
    OBVIOUS
  <2>3. Finely(ss, k)
    BY <1>7, <2>1, <2>2 DEF Finely
  <2> QED BY <2>3 DEF ss
<1> QED BY <1>1, <1>2, <1>3, <1>4, <1>5, <1>6, <1>7

(* What kind each migration is of, up and down.                             *)
LEMMA MigrationsFine ==
  /\ Finely(InitDb.up, "gentle") /\ Finely(InitDb.down, "gentle")
  /\ Finely(CreateFees.up, "gentle") /\ Finely(CreateFees.down, "mild")
  /\ Finely(ExpandToken.up, "gentle") /\ Finely(ExpandToken.down, "mild")
  /\ Finely(AddAmount.up, "mild") /\ Finely(AddAmount.down, "gentle")
  /\ Finely(AddResponse.up, "gentle") /\ Finely(AddResponse.down, "gentle")
  /\ Finely(Reindex.up, "gentle") /\ Finely(Reindex.down, "gentle")
  /\ Finely(FeeVersioning.up, "gentle") /\ Finely(FeeVersioning.down, "mild")
  /\ Finely(DropFees.up, "mild") /\ Finely(DropFees.down, "gentle")
  /\ Finely(RestoreAmount.up, "mild") /\ Finely(RestoreAmount.down, "gentle")
  /\ Finely(AddProcessed.up, "mild") /\ Finely(AddProcessed.down, "gentle")
  /\ Finely(HoldDay.up, "gentle") /\ Finely(HoldDay.down, "gentle")
  /\ Finely(CancelBacklog.up, "gentle") /\ Finely(CancelBacklog.down, "gentle")
<1>1. /\ \A b : Fine(Trigger(b), "gentle")
      /\ \A k \in {"gentle", "mild"} : Fine(Other, k)
      /\ Fine(Check, "mild")
      /\ \A t, has, required : Fine(Create(t, has, required), "gentle")
      /\ \A t : \A k \in {"gentle", "mild"} : Fine(DropTable(t), k)
      /\ \A how : Fine(Update(how), "mild")
      /\ \A t, c : Fine(Alter(t, {DropNotNull(c)}), "gentle")
      /\ \A c : Fine(Alter(T, {SetNotNull(c)}), "mild")
      /\ \A c : Fine(Alter("fees", {SetNotNull(c)}), "gentle")
      /\ \A c : Fine(Alter(T, {SetLength(c, 36)}), "gentle")
      /\ \A c : Fine(Alter(T, {SetLength(c, 32)}), "mild")
  <2>1. "fees" # T /\ "gentle" # "mild"
    BY DEF T
  <2> QED BY <2>1, Kinds DEF Fine
<1>2. \A to : \A k \in {"gentle", "mild"} : /\ Fine(Alter(T, {Rename("fee_id", to)}), k)
                                           /\ Fine(Alter(T, {Rename("fee", to)}), k)
  <2>1. "fee_id" \in FeeNames /\ "fee" \in FeeNames
    BY DEF FeeNames
  <2> QED BY <2>1, Kinds DEF Fine
<1>3. \A t, C : \A k \in {"gentle", "mild"} :
        Fine(Alter(t, Drops(C)), k) /\ (C \cap FeeNames = {} => Fine(Alter(t, Adds(C)), k))
  BY Kinds DEF Fine
<1>4. ASSUME NEW t, NEW k \in {"gentle", "mild"}, NEW b, NEW c
      PROVE  /\ Fine(Alter(t, {DropColumn(c)}), k)
             /\ c \notin FeeNames => Fine(Alter(t, {Add(c)}), k)
             /\ Fine(Alter(t, {DropColumn(b), DropColumn(c)}), k)
             /\ {b, c} \cap FeeNames = {} => Fine(Alter(t, {Add(b), Add(c)}), k)
  <2>1. c \notin FeeNames => {c} \cap FeeNames = {}
    OBVIOUS
  <2>2. /\ Fine(Alter(t, Drops({c})), k) /\ Fine(Alter(t, Drops({b, c})), k)
        /\ c \notin FeeNames => Fine(Alter(t, Adds({c})), k)
        /\ {b, c} \cap FeeNames = {} => Fine(Alter(t, Adds({b, c})), k)
    BY <1>3, <2>1
  <2>3. /\ Alter(t, {DropColumn(c)}) = Alter(t, Drops({c}))
        /\ Alter(t, {DropColumn(b), DropColumn(c)}) = Alter(t, Drops({b, c}))
        /\ Alter(t, {Add(c)}) = Alter(t, Adds({c}))
        /\ Alter(t, {Add(b), Add(c)}) = Alter(t, Adds({b, c}))
    BY Clauses
  <2> QED BY <2>2, <2>3
<1>5. /\ "fee_name" \notin FeeNames /\ "fee_amount" \notin FeeNames
      /\ {"fee_name", "fee_amount"} \cap FeeNames = {}
      /\ "transaction_amount" \notin FeeNames /\ "fee_key" \notin FeeNames
      /\ "activation_date" \notin FeeNames /\ ResponseColumns \cap FeeNames = {}
  BY DEF FeeNames, ResponseColumns
<1>6. \A how \in {"fee_key = fee_id", "activation_date = created_at", "cancel backlog", "restore"} :
        Fine(Update(how), "gentle")
  BY Kinds DEF Fine, Fills
<1>7. Finely(InitDb.up, "gentle") /\ Finely(InitDb.down, "gentle")
  BY <1>1, FineSequences DEF InitDb
<1>8. Finely(CreateFees.up, "gentle")
  BY <1>1, <1>4, FineSequences DEF CreateFees
<1>9. Finely(CreateFees.down, "mild")
  BY <1>1, <1>4, <1>5, FineSequences DEF CreateFees
<1>10. Finely(ExpandToken.up, "gentle") /\ Finely(ExpandToken.down, "mild")
  BY <1>1, FineSequences DEF ExpandToken
<1>11. Finely(AddAmount.up, "mild") /\ Finely(RestoreAmount.up, "mild")
  BY <1>1, <1>4, <1>5, FineSequences DEF AddAmount, RestoreAmount
<1>12. Finely(AddAmount.down, "gentle") /\ Finely(RestoreAmount.down, "gentle")
  BY <1>1, <1>4, FineSequences DEF AddAmount, RestoreAmount
<1>13. Finely(AddResponse.up, "gentle") /\ Finely(AddResponse.down, "gentle")
  BY <1>3, <1>5, FineSequences DEF AddResponse, Adds, Drops
<1>14. /\ Finely(Reindex.up, "gentle") /\ Finely(Reindex.down, "gentle")
       /\ Finely(AddProcessed.up, "mild") /\ Finely(AddProcessed.down, "gentle")
       /\ Finely(HoldDay.up, "gentle") /\ Finely(HoldDay.down, "gentle")
       /\ Finely(CancelBacklog.up, "gentle") /\ Finely(CancelBacklog.down, "gentle")
  BY <1>1, <1>6, FineSequences DEF Reindex, AddProcessed, HoldDay, CancelBacklog
<1>15. Finely(FeeVersioning.up, "gentle")
  BY <1>1, <1>4, <1>5, <1>6, FineSequences DEF FeeVersioning
<1>16. Finely(FeeVersioning.down, "mild")
  BY <1>1, <1>4, <1>5, FineSequences DEF FeeVersioning
<1>17. Finely(DropFees.up, "mild")
  BY <1>1, <1>2, FineSequences DEF DropFees
<1>18. Finely(DropFees.down, "gentle")
  BY <1>1, <1>2, FineSequences DEF DropFees
<1> QED BY <1>7, <1>8, <1>9, <1>10, <1>11, <1>12, <1>13, <1>14, <1>15, <1>16, <1>17, <1>18

-----------------------------------------------------------------------------
(* The migrations that fill a column before they require it.                *)

(* A run of n statements, one after the other.                              *)
RunsAs(f, d, ss, n) ==
  /\ f[0] = d /\ f[n] = Run(d, ss)
  /\ \A i \in 1 .. n : f[i] = IF f[i - 1].ok THEN Apply(f[i - 1], ss[i]) ELSE f[i - 1]
Goes(d, s, e) == d.ok /\ e = Apply(d, s) /\ e.ok
LEMMA RunCounted ==
  ASSUME NEW d, NEW ss, NEW n \in Nat, Len(ss) = n
  PROVE  \E f : RunsAs(f, d, ss, n)
BY RunSteps DEF RunsAs

(* A run of four, the first three not refused.                                    *)
LEMMA RunFour ==
  ASSUME NEW d, NEW ss, Len(ss) = 4, NEW d1, NEW d2, NEW d3,
         Goes(d, ss[1], d1), Goes(d1, ss[2], d2), Goes(d2, ss[3], d3)
  PROVE  Run(d, ss) = Apply(d3, ss[4])
<1>1. PICK f : RunsAs(f, d, ss, 4)
  BY RunCounted
<1>2. f[0] = d /\ f[4] = Run(d, ss)
  BY <1>1 DEF RunsAs
<1>3. f[1] = IF f[0].ok THEN Apply(f[0], ss[1]) ELSE f[0]
  BY <1>1 DEF RunsAs
<1>4. f[2] = IF f[1].ok THEN Apply(f[1], ss[2]) ELSE f[1]
  BY <1>1 DEF RunsAs
<1>5. f[3] = IF f[2].ok THEN Apply(f[2], ss[3]) ELSE f[2]
  BY <1>1 DEF RunsAs
<1>6. f[4] = IF f[3].ok THEN Apply(f[3], ss[4]) ELSE f[3]
  BY <1>1 DEF RunsAs
<1>7. f[1] = d1
  BY <1>2, <1>3 DEF Goes
<1>8. f[2] = d2
  BY <1>7, <1>4 DEF Goes
<1>9. f[3] = d3
  BY <1>8, <1>5 DEF Goes
<1> QED BY <1>2, <1>6, <1>9 DEF Goes

(* A run of six, the first five not refused.                                      *)
LEMMA RunSix ==
  ASSUME NEW d, NEW ss, Len(ss) = 6, NEW d1, NEW d2, NEW d3, NEW d4, NEW d5,
         Goes(d, ss[1], d1), Goes(d1, ss[2], d2), Goes(d2, ss[3], d3),
         Goes(d3, ss[4], d4), Goes(d4, ss[5], d5)
  PROVE  Run(d, ss) = Apply(d5, ss[6])
<1>1. PICK f : RunsAs(f, d, ss, 6)
  BY RunCounted
<1>2. f[0] = d /\ f[6] = Run(d, ss)
  BY <1>1 DEF RunsAs
<1>3. f[1] = IF f[0].ok THEN Apply(f[0], ss[1]) ELSE f[0]
  BY <1>1 DEF RunsAs
<1>4. f[2] = IF f[1].ok THEN Apply(f[1], ss[2]) ELSE f[1]
  BY <1>1 DEF RunsAs
<1>5. f[3] = IF f[2].ok THEN Apply(f[2], ss[3]) ELSE f[2]
  BY <1>1 DEF RunsAs
<1>6. f[4] = IF f[3].ok THEN Apply(f[3], ss[4]) ELSE f[3]
  BY <1>1 DEF RunsAs
<1>7. f[5] = IF f[4].ok THEN Apply(f[4], ss[5]) ELSE f[4]
  BY <1>1 DEF RunsAs
<1>8. f[6] = IF f[5].ok THEN Apply(f[5], ss[6]) ELSE f[5]
  BY <1>1 DEF RunsAs
<1>9. f[1] = d1
  BY <1>2, <1>3 DEF Goes
<1>10. f[2] = d2
  BY <1>9, <1>4 DEF Goes
<1>11. f[3] = d3
  BY <1>10, <1>5 DEF Goes
<1>12. f[4] = d4
  BY <1>11, <1>6 DEF Goes
<1>13. f[5] = d5
  BY <1>12, <1>7 DEF Goes
<1> QED BY <1>2, <1>8, <1>13 DEF Goes

(* The rows of an UPDATE of the portal's table.                             *)
UpdatedRows(d, how) ==
  [a \in DOMAIN d.row |-> IF Meets(how, d, a)
                         THEN Touch(d, d.row[a], Written(how, d, d.row[a].v)) ELSE d.row[a]]
(* They are what the UPDATE leaves.                                         *)
LEMMA UpdateRows ==
  ASSUME NEW d, NEW how, IsDatabase(d), how # "fee_key = fee_id"
  PROVE  UpdateIn(d, how).row = UpdatedRows(d, how)
<1> DEFINE e == UpdateIn(d, how)
<1>1. /\ IsDatabase(e)
      /\ e.tables = d.tables /\ e.holds = d.holds /\ e.day = d.day /\ e.wide = d.wide
      /\ how = "fee_key = fee_id" =>
           /\ e.row = d.row /\ e.ok = d.ok
           /\ e.fees = [id \in DOMAIN d.fees |-> [d.fees[id] EXCEPT !.key = id]]
      /\ how # "fee_key = fee_id" =>
           /\ e.fees = d.fees /\ e.ok = Filled(e)
           /\ e.row = [a \in DOMAIN d.row |->
                IF Meets(how, d, a)
                THEN Touch(d, d.row[a], Written(how, d, d.row[a].v)) ELSE d.row[a]]
  BY UpdateFields
<1> QED BY <1>1 DEF UpdatedRows

(* An UPDATE leaves a value in a column where it writes one or finds one.   *)
LEMMA UpdateFills ==
  ASSUME NEW d, NEW how, Sound(d), how # "fee_key = fee_id", NEW c,
         \A a \in DOMAIN d.row :
           IF Meets(how, d, a) THEN Written(how, d, d.row[a].v)[c] # NULL
           ELSE d.row[a].v[c] # NULL
  PROVE  \A a \in DOMAIN UpdateIn(d, how).row : UpdateIn(d, how).row[a].v[c] # NULL
<1> DEFINE e == UpdateIn(d, how)
<1>1. e.row = UpdatedRows(d, how)
  BY UpdateRows DEF Sound
<1>2. d.day \in Nat \ {0} /\ \A a \in DOMAIN d.row : RowSound(d, d.row[a])
  BY DEF Sound
<1> HIDE DEF e
<1>3. ASSUME NEW a \in DOMAIN e.row PROVE e.row[a].v[c] # NULL
  <2> DEFINE new == Written(how, d, d.row[a].v)
  <2>1. a \in DOMAIN d.row
    BY <1>1, <1>3 DEF UpdatedRows
  <2>2. DOMAIN new = DOMAIN d.row[a].v
    BY DEF Written
  <2>3. Touch(d, d.row[a], new).v = new
    BY <1>2, <2>1, <2>2, TouchSound
  <2>4. CASE Meets(how, d, a)
    <3>1. e.row[a] = Touch(d, d.row[a], new) /\ new[c] # NULL
      BY <1>1, <2>1, <2>4 DEF UpdatedRows
    <3> QED BY <2>3, <3>1
  <2>5. CASE ~Meets(how, d, a)
    BY <1>1, <2>1, <2>5 DEF UpdatedRows
  <2> QED BY <2>4, <2>5
<1> QED BY <1>3 DEF e

(* A database with the columns of x, whose UPDATE is not refused.           *)
LEMMA UpdateStep ==
  ASSUME NEW d, NEW x, NEW how, Good(d, x), Fills(how) \cap x.required = {}
  PROVE  Apply(d, Update(how)) = UpdateIn(d, how) /\ Good(UpdateIn(d, how), x)
<1>1. Apply(d, Update(how)) = UpdateIn(d, how)
  BY DEF Apply, Update
<1>2. UpdateIn(d, how).ok
  BY UpdateGoes DEF Good
<1>3. Step(x, Update(how), x)
  BY QuietStep
<1> QED BY <1>1, <1>2, <1>3, GoodStep

(* Amounts from the fees a row names, and every row names one known.        *)
LEMMA AmountRun ==
  ASSUME NEW d, NEW x, NEW y, NEW z, NEW name, NEW how, Good(d, x), FeesKnown(d),
         <<name, how>> \in {<<"fee_id", "amounts">>, <<"fee", "amounts by fee">>},
         name \in y.has[T], "transaction_amount" \in y.has[T],
         "transaction_amount" \notin y.required,
         Step(x, Alter(T, {Add("transaction_amount")}), y),
         Step(y, Alter(T, {SetNotNull("transaction_amount")}), z)
  PROVE  Run(d, <<Alter(T, {Add("transaction_amount")}), Update(how),
                  Alter(T, {SetNotNull("transaction_amount")}), Other>>).ok
<1> DEFINE c == "transaction_amount"
           s1 == Alter(T, {Add(c)})
           s3 == Alter(T, {SetNotNull(c)})
           d1 == Apply(d, s1)
           d2 == UpdateIn(d1, how)
           d3 == Apply(d2, s3)
<1>1. Fine(s1, "gentle") /\ IsStatement(s1) /\ Step(x, s1, y) /\ Step(y, s3, z)
  <2>1. {c} \cap FeeNames = {}
    BY DEF FeeNames
  <2>2. s1 = Alter(T, Adds({c}))
    BY Clauses
  <2>3. Fine(Alter(T, Adds({c})), "gentle")
    BY <2>1, Kinds DEF Fine
  <2>4. Step(x, s1, y) /\ Step(y, s3, z)
    OBVIOUS
  <2>5. IsStatement(s1)
    BY <2>4 DEF Step
  <2> QED BY <2>2, <2>3, <2>4, <2>5
<1>2. s1.op # "update" /\ s3 = Alter(T, {SetNotNull(c)}) /\ c = "transaction_amount"
  BY DEF Alter
<1> HIDE DEF s1
<1>3. Good(d1, y)
  BY <1>1, GentleStep DEF Fine
<1>4. FeesKnown(d1)
  <2>1. Sound(d) /\ d1.ok
    BY <1>3 DEF Good, Sound
  <2>2. IsStatement(s1) /\ Mild(s1) /\ s1.op # "update"
    BY <1>1, <1>2 DEF Fine
  <2>3. FeesKnown(d)
    OBVIOUS
  <2> QED BY <2>1, <2>2, <2>3, ApplyKnown
<1> HIDE DEF d1
<1>5. Apply(d1, Update(how)) = d2 /\ Good(d2, y)
  <2>1. Fills(how) = {"transaction_amount"}
    BY DEF Fills
  <2> QED BY <1>3, <2>1, UpdateStep
<1>6. \A a \in DOMAIN d2.row : d2.row[a].v[c] # NULL
  <2>1. Sound(d1) /\ how # "fee_key = fee_id" /\ Columns(d1) = y.has
    BY <1>3 DEF Good
  <2>2. ASSUME NEW a \in DOMAIN d1.row
        PROVE  IF Meets(how, d1, a) THEN Written(how, d1, d1.row[a].v)[c] # NULL
               ELSE d1.row[a].v[c] # NULL
    <3> DEFINE v == d1.row[a].v
    <3>1. DOMAIN v = y.has[T]
      BY <2>1, <2>2 DEF Sound, RowSound, Columns, Tables, T
    <3>2. v[name] \in Keys
      <4>1. name \in FeeNames \cap DOMAIN v
        BY <3>1 DEF FeeNames
      <4> QED BY <1>4, <2>2, <4>1 DEF FeesKnown, RowsKnown
    <3>3. \A k \in Keys : Known(k) # NULL
      BY FeeAssumption DEF Known
    <3>4. how = "amounts" => Meets(how, d1, a) = (v[c] = NULL)
      BY <1>2 DEF Meets
    <3>5. how = "amounts by fee" => Meets(how, d1, a)
      BY DEF Meets
    <3>6. Written(how, d1, v) = [v EXCEPT ![c] = Known(v[name])]
      BY <1>2 DEF Written
    <3>7. Written(how, d1, v)[c] # NULL
      BY <1>2, <3>1, <3>2, <3>3, <3>6
    <3> QED BY <3>4, <3>5, <3>7
  <2> QED BY <2>1, <2>2, UpdateFills
<1> HIDE DEF d2
<1>7. Good(d3, z)
  BY <1>1, <1>2, <1>5, <1>6, RequireStep
<1> HIDE DEF d3, s3
<1>8. Run(d, <<s1, Update(how), s3, Other>>) = Apply(d3, Other)
  <2> DEFINE ss == <<s1, Update(how), s3, Other>>
  <2>1. Len(ss) = 4 /\ ss[1] = s1 /\ ss[2] = Update(how) /\ ss[3] = s3 /\ ss[4] = Other
    OBVIOUS
  <2>2. d.ok /\ d1.ok /\ d2.ok /\ d3.ok
    BY <1>3, <1>5, <1>7 DEF Good, Sound
  <2>3. Goes(d, s1, d1) /\ Goes(d1, Update(how), d2) /\ Goes(d2, s3, d3)
    BY <1>5, <2>2 DEF d1, d3, Goes
  <2> HIDE DEF ss
  <2>4. Run(d, ss) = Apply(d3, Other)
    BY <2>1, <2>3, RunFour
  <2> QED BY <2>4 DEF ss
<1>9. Apply(d3, Other) = d3
  BY DEF Apply, Other
<1>10. Run(d, <<s1, Update(how), s3, Other>>).ok
  BY <1>7, <1>8, <1>9 DEF Good, Sound
<1> QED BY <1>10 DEF s1, s3

(* An UPDATE that fills what is missing leaves nothing missing.             *)
LEMMA Refilled ==
  ASSUME NEW d, NEW how, NEW c, Sound(d), c \in Columns(d)[T],
         <<how, c>> \in {<<"blank methods", "payment_method">>,
                         <<"zero amounts", "transaction_amount">>}
  PROVE  \A a \in DOMAIN UpdateIn(d, how).row : UpdateIn(d, how).row[a].v[c] # NULL
<1>1. how # "fee_key = fee_id"
  OBVIOUS
<1>2. ASSUME NEW a \in DOMAIN d.row
      PROVE  IF Meets(how, d, a) THEN Written(how, d, d.row[a].v)[c] # NULL
             ELSE d.row[a].v[c] # NULL
  <2> DEFINE v == d.row[a].v
  <2>1. c \in DOMAIN v
    BY <1>2 DEF Sound, RowSound, Columns, Tables, T
  <2>2. "blank" # NULL /\ "zero" # NULL
    BY FeeAssumption DEF Values, Statuses
  <2>3. Meets(how, d, a) = (v[c] = NULL)
    BY DEF Meets
  <2>4. CASE how = "blank methods"
    <3>1. Written(how, d, v) = [v EXCEPT !["payment_method"] = "blank"] /\ c = "payment_method"
      BY <2>4 DEF Written
    <3> QED BY <2>1, <2>2, <2>3, <3>1
  <2>5. CASE how = "zero amounts"
    <3>1. /\ Written(how, d, v) = [v EXCEPT !["transaction_amount"] = "zero"]
          /\ c = "transaction_amount"
      BY <2>5 DEF Written
    <3> QED BY <2>1, <2>2, <2>3, <3>1
  <2> QED BY <2>4, <2>5
<1> QED BY <1>1, <1>2, UpdateFills

(* A rollback that brings columns back, refills one and requires it.        *)
LEMMA RefillRun ==
  ASSUME NEW d, NEW x, NEW y, NEW z, NEW w, NEW C, NEW how1, NEW how2, NEW c, NEW s6, Good(d, x),
         Step(x, Alter(T, Adds(C)), y), Fills(how1) \cap y.required = {},
         <<how2, c>> \in {<<"blank methods", "payment_method">>,
                         <<"zero amounts", "transaction_amount">>},
         c \in y.has[T], Step(y, Alter(T, {SetNotNull(c)}), z), Step(z, s6, w), Gentle(s6)
  PROVE  Run(d, <<Alter(T, Adds(C)), Update(how1), Update(how2), Alter(T, {SetNotNull(c)}), Other,
                  s6>>).ok
<1> DEFINE s1 == Alter(T, Adds(C))
           s4 == Alter(T, {SetNotNull(c)})
           d1 == Apply(d, s1)
           d2 == UpdateIn(d1, how1)
           d3 == UpdateIn(d2, how2)
           d4 == Apply(d3, s4)
           d5 == Apply(d4, Other)
           d6 == Apply(d5, s6)
<1>1. Good(d1, y)
  <2>1. Gentle(s1) /\ Step(x, s1, y)
    BY Kinds
  <2> QED BY <2>1, GentleStep
<1> HIDE DEF d1
<1>2. Apply(d1, Update(how1)) = d2 /\ Good(d2, y)
  BY <1>1, UpdateStep
<1> HIDE DEF d2
<1>3. Apply(d2, Update(how2)) = d3 /\ Good(d3, y)
  <2>1. Fills(how2) \cap y.required = {}
    BY DEF Fills
  <2> QED BY <1>2, <2>1, UpdateStep
<1>4. \A a \in DOMAIN d3.row : d3.row[a].v[c] # NULL
  <2>1. Sound(d2) /\ c \in Columns(d2)[T]
    BY <1>2 DEF Good
  <2> QED BY <2>1, Refilled
<1> HIDE DEF d3
<1>5. Good(d4, z)
  BY <1>3, <1>4, RequireStep
<1> HIDE DEF d4
<1>6. d5 = d4
  BY DEF Apply, Other
<1>7. Good(d6, w)
  BY <1>5, <1>6, GentleStep
<1> DEFINE ss == <<s1, Update(how1), Update(how2), s4, Other, s6>>
<1>8. /\ Len(ss) = 6 /\ ss[1] = s1 /\ ss[2] = Update(how1) /\ ss[3] = Update(how2)
      /\ ss[4] = s4 /\ ss[5] = Other /\ ss[6] = s6
  OBVIOUS
<1>9. d.ok /\ d1.ok /\ d2.ok /\ d3.ok /\ d4.ok /\ d6.ok
  BY <1>1, <1>2, <1>3, <1>5, <1>7 DEF Good, Sound
<1>10. /\ Goes(d, s1, d1) /\ Goes(d1, Update(how1), d2) /\ Goes(d2, Update(how2), d3)
       /\ Goes(d3, s4, d4) /\ Goes(d4, Other, d5)
  BY <1>2, <1>3, <1>6, <1>9 DEF d1, d4, Goes
<1> HIDE DEF ss, d5, s1, s4
<1>11. Run(d, ss) = Apply(d5, s6)
  BY <1>8, <1>10, RunSix
<1>12. Run(d, ss).ok
  BY <1>9, <1>11 DEF d6
<1> QED BY <1>12 DEF ss, s1, s4

(* Every fee has a key, if only the id it has.                              *)
KeyedFees(d) ==
  \A id \in DOMAIN d.fees : "key" \in DOMAIN d.fees[id] /\ d.fees[id].key \in Keys \cup {Version}

(* No statement takes it away,                                              *)
LEMMA ApplyKeyed ==
  ASSUME NEW d, NEW s, Sound(d), IsStatement(s), KeyedFees(d)
  PROVE  KeyedFees(Apply(d, s))
<1> DEFINE e == Apply(d, s)
<1>0. IsDatabase(d) /\ DOMAIN d.fees \subseteq Keys \cup {Version}
  BY DEF Sound
<1>1. CASE s.op = "alter"
  <2>1. s.table \in Tables /\ e = AlterIn(d, s)
    BY <1>1 DEF IsStatement, Apply
  <2>2. e.fees = d.fees
    BY <1>0, <2>1, AlterTables
  <2> HIDE DEF e
  <2> QED BY <2>2 DEF KeyedFees, e
<1>2. CASE s.op = "update"
  <2>1. e = UpdateIn(d, s.how)
    BY <1>2 DEF Apply
  <2> HIDE DEF e
  <2>2. \/ e.fees = d.fees
        \/ e.fees = [id \in DOMAIN d.fees |-> [d.fees[id] EXCEPT !.key = id]]
    BY <1>0, <2>1, UpdateFields
  <2>3. CASE e.fees = [id \in DOMAIN d.fees |-> [d.fees[id] EXCEPT !.key = id]]
    <3>1. ASSUME NEW id \in DOMAIN e.fees
          PROVE  "key" \in DOMAIN e.fees[id] /\ e.fees[id].key \in Keys \cup {Version}
      <4>1. id \in DOMAIN d.fees /\ e.fees[id] = [d.fees[id] EXCEPT !.key = id]
        BY <2>3, <3>1
      <4>2. "key" \in DOMAIN d.fees[id] /\ id \in Keys \cup {Version}
        BY <1>0, <4>1 DEF KeyedFees
      <4> QED BY <4>1, <4>2
    <3> QED BY <3>1 DEF KeyedFees, e
  <2>4. CASE e.fees = d.fees
    BY <2>4 DEF KeyedFees, e
  <2> QED BY <2>2, <2>3, <2>4
<1>3. CASE s.op \in {"trigger", "other", "check"}
  <2>1. e = d \/ e = [d EXCEPT !.holds = s.holds] \/ (s.op = "check" /\ e.fees = d.fees)
    BY <1>0, <1>3, CheckFields DEF Apply
  <2> HIDE DEF e
  <2>2. e.fees = d.fees
    BY <1>0, <2>1 DEF IsDatabase
  <2> QED BY <2>2 DEF KeyedFees, e
<1>4. CASE s.op \in {"create", "drop"}
  <2> DEFINE has == IF s.op = "create" THEN s.has ELSE {}
             required == IF s.op = "create" THEN s.required ELSE {}
             new == Anew(d, s.table, has, required)
             free == d.tables[s.table].has = {}
  <2>1. e = new \/ e = [new EXCEPT !.ok = free]
    BY <1>4 DEF Apply
  <2>2. s.table \in Tables
    BY <1>4 DEF IsStatement
  <2> HIDE DEF has, required, free, e
  <2>3. /\ IsDatabase(new)
        /\ new.tables[s.table] = [has |-> has, required |-> required]
        /\ \A u \in Tables \ {s.table} : new.tables[u] = d.tables[u]
        /\ new.row = IF s.table = "transactions" THEN <<>> ELSE d.row
        /\ new.fees = IF s.table = "fees" THEN <<>> ELSE d.fees
        /\ new.holds = d.holds /\ new.day = d.day /\ new.wide = d.wide /\ new.ok = d.ok
    BY <1>0, <2>2, AnewFields
  <2> HIDE DEF new
  <2>4. e.fees = new.fees
    BY <2>1, <2>3 DEF IsDatabase
  <2>5. DOMAIN (<<>>) = {}
    OBVIOUS
  <2>6. DOMAIN e.fees = {} \/ e.fees = d.fees
    BY <2>3, <2>4, <2>5
  <2> QED BY <2>6 DEF KeyedFees, e
<1> QED BY <1>1, <1>2, <1>3, <1>4 DEF IsStatement

(* and no migration.                                                        *)
LEMMA RunKeyed ==
  ASSUME NEW d, NEW ss, Sound(d), AreStatements(ss), KeyedFees(d), Run(d, ss).ok
  PROVE  KeyedFees(Run(d, ss))
<1> DEFINE n == Len(ss)
<1>1. n \in Nat
  BY DEF AreStatements
<1>2. PICK f : /\ f[0] = d /\ f[n] = Run(d, ss)
               /\ \A i \in 0 .. n : f[i].ok
               /\ \A i \in 1 .. n : f[i] = Apply(f[i - 1], ss[i])
  BY <1>1, RunApplies
<1> DEFINE Fit(i) == Sound(f[i]) /\ KeyedFees(f[i])
           I == {i \in Nat : i <= n => Fit(i)}
<1>3. 0 \in I
  <2>1. f[0] = d
    BY <1>2
  <2>2. Fit(0)
    BY <2>1
  <2> QED BY <2>2
<1>4. ASSUME NEW i \in I PROVE i + 1 \in I
  <2>1. SUFFICES ASSUME i + 1 <= n PROVE Fit(i + 1)
    OBVIOUS
  <2>2. i + 1 \in 1 .. n /\ i + 1 \in 0 .. n /\ i + 1 - 1 = i /\ Fit(i)
    BY <1>1, <1>4, <2>1
  <2>3. /\ f[i + 1] = Apply(f[i], ss[i + 1]) /\ Apply(f[i], ss[i + 1]).ok
        /\ IsStatement(ss[i + 1])
    BY <1>2, <2>2 DEF AreStatements
  <2>4. Sound(f[i + 1])
    BY <2>2, <2>3, ApplySound
  <2>5. KeyedFees(f[i + 1])
    BY <2>2, <2>3, ApplyKeyed
  <2> QED BY <2>4, <2>5
<1>5. I = Nat
  BY <1>3, <1>4, Counting
<1>6. Fit(n)
  <2> HIDE DEF n
  <2> QED BY <1>1, <1>5
<1> HIDE DEF I
<1> QED BY <1>2, <1>6

(* A fee is known by a key or by an id of the table, whose keys are known.  *)
Named(d) ==
  \A a \in DOMAIN d.row : \A c \in FeeNames \cap DOMAIN d.row[a].v :
    d.row[a].v[c] \in Keys \cup DOMAIN d.fees

(* The ids of fees give way to their keys, and none is missing.             *)
LEMMA KeyedUpdate ==
  ASSUME NEW d, Good(d, State(P7, F7, R2)), KeyedFees(d)
  PROVE  /\ Apply(d, Update("fee keys")) = UpdateIn(d, "fee keys")
         /\ Good(UpdateIn(d, "fee keys"), State(P7, F7, R2))
         /\ KeysKnown(d) /\ Named(d) => FeesKnown(UpdateIn(d, "fee keys"))
<1> DEFINE x == State(P7, F7, R2)
           e == UpdateIn(d, "fee keys")
<1>1. Apply(d, Update("fee keys")) = e
  BY DEF Apply, Update
<1>2. /\ Sound(d) /\ Columns(d)[T] = P7 /\ Columns(d) = x.has
      /\ Filled(d) /\ \A a \in DOMAIN d.row : RowSound(d, d.row[a])
  BY DEF Good, State, Sets, T, Tables, Sound
<1>3. \A a \in DOMAIN d.row : DOMAIN d.row[a].v = P7
  BY <1>2 DEF Sound, RowSound, Columns, Tables, T
<1>4. "fee" \notin P7 /\ "fee_id" \in P7
  BY DEF P7, P2, ResponseColumns
<1>5. ASSUME KeysKnown(d), Named(d) PROVE FeesKnown(e)
  <2>1. \A a \in DOMAIN d.row : \A c \in FeeNames \cap DOMAIN d.row[a].v :
          d.row[a].v[c] \in Keys \/ (c = "fee_id" /\ d.row[a].v[c] \in DOMAIN d.fees)
    BY <1>3, <1>4, <1>5 DEF Named, FeeNames
  <2> QED BY <1>2, <1>5, <2>1, UpdateKnown
<1>6. e.ok
  <2>1. ASSUME "fee_id" \in Required(d)
        PROVE  \A a \in DOMAIN e.row : e.row[a].v["fee_id"] # NULL
    <3>1. ASSUME NEW a \in DOMAIN d.row
          PROVE  IF Meets("fee keys", d, a)
                 THEN Written("fee keys", d, d.row[a].v)["fee_id"] # NULL
                 ELSE d.row[a].v["fee_id"] # NULL
      <4> DEFINE v == d.row[a].v
      <4>1. v["fee_id"] # NULL /\ "fee_id" \in DOMAIN v
        BY <1>2, <1>3, <1>4, <2>1, <3>1 DEF Filled, Required
      <4>2. CASE Meets("fee keys", d, a)
        <5>1. v["fee_id"] \in DOMAIN d.fees
          BY <4>2 DEF Meets
        <5>2. Written("fee keys", d, v) = [v EXCEPT !["fee_id"] = d.fees[v["fee_id"]].key]
          BY DEF Written
        <5>3. d.fees[v["fee_id"]].key \in Keys \cup {Version}
          BY <5>1 DEF KeyedFees
        <5>4. Written("fee keys", d, v)["fee_id"] \in Keys \cup {Version}
          BY <4>1, <5>2, <5>3
        <5> QED BY <4>2, <5>4, FeeAssumption
      <4> QED BY <4>1, <4>2
    <3> QED BY <1>2, <3>1, UpdateFills
  <2>2. Fills("fee keys") = {"fee_id"}
    BY DEF Fills
  <2> QED BY <1>2, <2>1, <2>2, UpdateGoes
<1>7. Good(e, x)
  <2>1. Step(x, Update("fee keys"), x)
    BY QuietStep
  <2>2. Good(Apply(d, Update("fee keys")), x)
    BY <1>1, <1>6, <2>1, GoodStep
  <2> QED BY <1>1, <2>2
<1> QED BY <1>1, <1>5, <1>7

(* 20260408120000: every fee a row names is known.                          *)
LEMMA AddAmountGoes ==
  ASSUME NEW d, Good(d, State(P2, FeeColumns, R2)), FeesKnown(d)
  PROVE  Run(d, AddAmount.up).ok
<1> DEFINE x == State(P2, FeeColumns, R2)
           y == State(P4, FeeColumns, R2)
           z == State(P4, FeeColumns, R4)
<1>1. Grown(P2, {"transaction_amount"}, P4) /\ "transaction_amount" \in P4 /\ "fee_id" \in P4
  BY Growth DEF P4, P2
<1>2. Step(x, Alter(T, {Add("transaction_amount")}), y)
  BY <1>1, AddStep, Clauses
<1>3. Step(y, Alter(T, {SetNotNull("transaction_amount")}), z)
  BY <1>1, RequiredGrowth, ChangeStep DEF Changes
<1>4. y.has[T] = P4 /\ y.required = R2
  BY DEF State, Sets, T, Tables
<1>5. "transaction_amount" \notin R2
  BY DEF R2
<1>6. "fee_id" \in y.has[T] /\ "transaction_amount" \in y.has[T]
      /\ "transaction_amount" \notin y.required
  BY <1>1, <1>4, <1>5
<1> HIDE DEF x, y, z
<1>7. Good(d, x)
  BY DEF x
<1>8. Run(d, <<Alter(T, {Add("transaction_amount")}), Update("amounts"),
               Alter(T, {SetNotNull("transaction_amount")}), Other>>).ok
  BY <1>2, <1>3, <1>6, <1>7, AmountRun
<1> QED BY <1>8 DEF AddAmount

(* 20260721000000: likewise, by its key.                                    *)
LEMMA RestoreAmountGoes ==
  ASSUME NEW d, Good(d, State(P9, {}, R9)), FeesKnown(d)
  PROVE  Run(d, RestoreAmount.up).ok
<1> DEFINE x == State(P9, {}, R9)
           y == State(P10, {}, R9)
           z == State(P10, {}, R10)
<1>1. Grown(P9, {"transaction_amount"}, P10) /\ "transaction_amount" \in P10 /\ "fee" \in P10
  BY Growth DEF P10, P9
<1>2. Step(x, Alter(T, {Add("transaction_amount")}), y)
  BY <1>1, AddStep, Clauses
<1>3. Step(y, Alter(T, {SetNotNull("transaction_amount")}), z)
  BY <1>1, RequiredGrowth, ChangeStep DEF Changes
<1>4. y.has[T] = P10 /\ y.required = R9
  BY DEF State, Sets, T, Tables
<1>5. "transaction_amount" \notin R9
  BY DEF R9
<1>6. "fee" \in y.has[T] /\ "transaction_amount" \in y.has[T]
      /\ "transaction_amount" \notin y.required
  BY <1>1, <1>4, <1>5
<1> HIDE DEF x, y, z
<1>7. Good(d, x)
  BY DEF x
<1>8. Run(d, <<Alter(T, {Add("transaction_amount")}), Update("amounts by fee"),
               Alter(T, {SetNotNull("transaction_amount")}), Other>>).ok
  BY <1>2, <1>3, <1>6, <1>7, AmountRun
<1> QED BY <1>8 DEF RestoreAmount

(* The rollback of 20260327161546 fills the names and amounts it brings     *)
(* back, which need no value, and the methods, which do.                    *)
LEMMA CreateFeesBack ==
  ASSUME NEW d, Good(d, State(P2, FeeColumns, R2))
  PROVE  Run(d, CreateFees.down).ok
<1> DEFINE C == {"fee_name", "fee_amount"}
           x == State(P2, FeeColumns, R2)
           y == State(P1, FeeColumns, R2)
           z == State(P1, FeeColumns, R5)
           w == State(P1, {}, R5)
<1>1. Grown(P2, C, P1) /\ "payment_method" \in P1
  BY Growth DEF P1
<1>2. Alter(T, Adds(C)) = Alter(T, {Add("fee_name"), Add("fee_amount")})
  BY Clauses
<1>3. Step(x, Alter(T, Adds(C)), y)
  BY <1>1, AddStep
<1>4. Step(y, Alter(T, {SetNotNull("payment_method")}), z)
  BY <1>1, RequiredGrowth, ChangeStep DEF Changes
<1>5. Step(z, DropTable("fees"), w) /\ Gentle(DropTable("fees"))
  BY TableStep, Kinds
<1>6. y.has[T] = P1 /\ y.required = R2 /\ Fills("fee details") \cap R2 = {}
  <2>1. y.has[T] = P1 /\ y.required = R2
    BY DEF State, Sets, T, Tables
  <2>2. Fills("fee details") = {"fee_name", "fee_amount"}
    BY DEF Fills
  <2>3. {"fee_name", "fee_amount"} \cap R2 = {}
    BY DEF R2
  <2> QED BY <2>1, <2>2, <2>3
<1>7. "payment_method" \in y.has[T] /\ Fills("fee details") \cap y.required = {}
  BY <1>1, <1>6
<1> HIDE DEF C, x, y, z, w
<1>8. Good(d, x)
  BY DEF x
<1>9. Run(d, <<Alter(T, Adds(C)), Update("fee details"), Update("blank methods"),
               Alter(T, {SetNotNull("payment_method")}), Other, DropTable("fees")>>).ok
  BY <1>3, <1>4, <1>5, <1>7, <1>8, RefillRun
<1> QED BY <1>2, <1>9 DEF CreateFees

(* The rollback of 20260515000001 fills the amounts it brings back and      *)
(* requires, with zero where no fee says.                                   *)
LEMMA FeeVersioningBack ==
  ASSUME NEW d, Good(d, State(P7, F7, R2))
  PROVE  Run(d, FeeVersioning.down).ok
<1> DEFINE C == {"transaction_amount"}
           D == {"activation_date", "fee_key"}
           x == State(P7, F7, R2)
           y == State(P5, F7, R2)
           z == State(P5, F7, R4)
           w == State(P5, FeeColumns, R4)
<1>1. Grown(P7, C, P5) /\ Shrunk(F7, D, FeeColumns) /\ "transaction_amount" \in P5
  <2>1. Grown(P7, C, P5) /\ "transaction_amount" \in P5
    BY Growth DEF P4, P5
  <2>2. /\ Grown(FeeColumns, {"fee_key"}, FeeColumns \cup {"fee_key"})
        /\ Grown(FeeColumns \cup {"fee_key"}, {"activation_date"}, F7)
        /\ Shrunk(F7, D, FeeColumns)
    BY FeesGrowth
  <2> QED BY <2>1, <2>2
<1>2. /\ Alter(T, Adds(C)) = Alter(T, {Add("transaction_amount")})
      /\ Alter("fees", Drops(D))
           = Alter("fees", {DropColumn("activation_date"), DropColumn("fee_key")})
  BY Clauses
<1>3. Step(x, Alter(T, Adds(C)), y)
  BY <1>1, AddStep
<1>4. Step(y, Alter(T, {SetNotNull("transaction_amount")}), z)
  BY <1>1, RequiredGrowth, ChangeStep DEF Changes
<1>5. Step(z, Alter("fees", Drops(D)), w) /\ Gentle(Alter("fees", Drops(D)))
  BY <1>1, RequiredGrowth, DropStep, Kinds
<1>6. y.has[T] = P5 /\ y.required = R2 /\ Fills("fee amounts") \cap R2 = {}
  <2>1. y.has[T] = P5 /\ y.required = R2
    BY DEF State, Sets, T, Tables
  <2>2. Fills("fee amounts") = {"transaction_amount"}
    BY DEF Fills
  <2>3. {"transaction_amount"} \cap R2 = {}
    BY DEF R2
  <2> QED BY <2>1, <2>2, <2>3
<1>7. "transaction_amount" \in y.has[T] /\ Fills("fee amounts") \cap y.required = {}
  BY <1>1, <1>6
<1> HIDE DEF C, D, x, y, z, w
<1>8. Good(d, x)
  BY DEF x
<1>9. Run(d, <<Alter(T, Adds(C)), Update("fee amounts"), Update("zero amounts"),
               Alter(T, {SetNotNull("transaction_amount")}), Other, Alter("fees", Drops(D))>>).ok
  BY <1>3, <1>4, <1>5, <1>7, <1>8, RefillRun
<1> QED BY <1>2, <1>9 DEF FeeVersioning

(* 20260714000000 leaves keys of fees in the rows, and no fee.              *)
LEMMA DropFeesGoes ==
  ASSUME NEW d, Good(d, State(P7, F7, R2)), KeyedFees(d)
  PROVE  /\ Run(d, DropFees.up).ok /\ Unversioned(Run(d, DropFees.up))
         /\ KeysKnown(d) /\ Named(d) => FeesKnown(Run(d, DropFees.up))
<1> DEFINE s2 == Update("fee keys")
           s3 == Alter(T, {Rename("fee_id", "fee")})
           s4 == DropTable("fees")
           d2 == UpdateIn(d, "fee keys")
           d3 == Apply(d2, s3)
           d4 == Apply(d3, s4)
           y == State(P9, F7, R9)
           z == State(P9, {}, R9)
           known == KeysKnown(d) /\ Named(d)
<1>1. Apply(d, s2) = d2 /\ Good(d2, State(P7, F7, R2)) /\ (known => FeesKnown(d2))
  BY KeyedUpdate
<1>2. Step(State(P7, F7, R2), s3, y) /\ Gentle(s3) /\ Mild(s3)
  <2>1. Swapped(P7, "fee_id", "fee", P9) /\ "fee_id" \in FeeNames
    BY Growth DEF FeeNames
  <2>2. Step(State(P7, F7, R2), Alter(T, {Rename("fee_id", "fee")}), y)
    BY <2>1, RequiredGrowth, RenameStep DEF Renames
  <2> QED BY <2>1, <2>2, Kinds
<1>3. Step(y, s4, z) /\ Gentle(s4) /\ Mild(s4)
  BY TableStep, Kinds
<1>4. s3.op = "alter" /\ s4.op = "drop" /\ IsStatement(s3) /\ IsStatement(s4)
  BY <1>2, <1>3 DEF Step, Alter, DropTable
<1> HIDE DEF d2, s3, s4, y, z
<1>5. Good(d3, y)
  BY <1>1, <1>2, GentleStep
<1>6. known => FeesKnown(d3)
  <2>1. Sound(d2) /\ d3.ok /\ s3.op # "update"
    BY <1>1, <1>4, <1>5 DEF Good, Sound
  <2> QED BY <1>1, <1>2, <1>4, <2>1, ApplyKnown
<1> HIDE DEF d3
<1>7. Good(d4, z)
  BY <1>3, <1>5, GentleStep
<1>8. known => FeesKnown(d4)
  <2>1. Sound(d3) /\ d4.ok /\ s4.op # "update"
    BY <1>4, <1>5, <1>7 DEF Good, Sound
  <2> QED BY <1>3, <1>4, <1>6, <2>1, ApplyKnown
<1>9. Unversioned(d4)
  <2>1. IsDatabase(d3)
    BY <1>5 DEF Good, Sound
  <2>2. d4 = Anew(d3, "fees", {}, {})
    BY DEF s4, d4, Apply, DropTable
  <2>3. d4.fees = <<>>
    BY <2>1, <2>2 DEF Anew, IsDatabase
  <2> QED BY <2>3 DEF Unversioned
<1>10. Run(d, DropFees.up) = d4
  <2> DEFINE ss == <<Other, s2, s3, s4>>
  <2>1. Len(ss) = 4 /\ ss[1] = Other /\ ss[2] = s2 /\ ss[3] = s3 /\ ss[4] = s4
    OBVIOUS
  <2>2. Apply(d, Other) = d /\ d.ok /\ d2.ok /\ d3.ok
    BY <1>1, <1>5 DEF Good, Sound, Apply, Other
  <2>3. Goes(d, Other, d) /\ Goes(d, s2, d2) /\ Goes(d2, s3, d3)
    BY <1>1, <2>2 DEF Goes, d3
  <2>4. DropFees.up = ss
    BY DEF DropFees, s3, s4
  <2> HIDE DEF ss, s2
  <2>5. Run(d, ss) = Apply(d3, s4)
    BY <2>1, <2>3, RunFour
  <2> QED BY <2>4, <2>5
<1> QED BY <1>7, <1>8, <1>9, <1>10 DEF Good, Sound

(* A later version of a fee is there only while fees have keys.             *)
FeesHeld(d) == /\ KeysKnown(d) /\ Named(d)
               /\ Version \in DOMAIN d.fees => "fee_key" \in Columns(d)["fees"]

(* Fees that are known, and none of them a later version, are held.         *)
LEMMA KnownHeld ==
  ASSUME NEW d, FeesKnown(d), Unversioned(d)
  PROVE  FeesHeld(d)
BY DEF FeesHeld, FeesKnown, KeysKnown, RowsKnown, Named, Unversioned

(* The other way round, where there is no version or no room for one.       *)
LEMMA HeldKnown ==
  ASSUME NEW d, Sound(d), FeesHeld(d), Unversioned(d) \/ "fee_key" \notin Columns(d)["fees"]
  PROVE  FeesKnown(d) /\ Unversioned(d)
<1>1. Unversioned(d)
  BY DEF FeesHeld, Unversioned
<1>2. DOMAIN d.fees \subseteq Keys
  BY <1>1 DEF Sound, Unversioned
<1> QED BY <1>1, <1>2 DEF FeesHeld, FeesKnown, Named, RowsKnown

(* Levels by their columns.                                                 *)
LEMMA LevelGood ==
  ASSUME NEW d, NEW n
  PROVE  /\ Sound(d) /\ OfLevel(d, n) => Good(d, At(n))
         /\ Good(d, At(n)) => Columns(d)["fees"] = FeesAt(n)
<1>1. At(n).has["fees"] = FeesAt(n) /\ At(n).required = RequiredAt(n)
  BY DEF At, State, Sets, Tables
<1> QED BY <1>1 DEF OfLevel, Good

(* The fees have keys of their own at two levels only.                      *)
LEMMA KeylessLevels == \A n \in 0 .. 13 : n \notin 7 .. 8 => "fee_key" \notin FeesAt(n)
<1>1. "fee_key" \notin FeeColumns
  BY DEF FeeColumns
<1> QED BY <1>1 DEF FeesAt

(* Which migrations depend on the rows: 20260408120000, 20260714000000,     *)
(* 20260721000000 and 20260805000000, and the rollbacks of 20260327161546,  *)
(* 20260407143000 and 20260515000001.                                       *)
LEMMA LevelsFine ==
  /\ \A m \in 1 .. 13 : Finely(Migrations[m].up, IF m \in {4, 9, 10, 11} THEN "mild" ELSE "gentle")
  /\ \A m \in 1 .. 13 : Finely(Migrations[m].down, IF m \in {2, 3, 7} THEN "mild" ELSE "gentle")
<1> DEFINE U(m) == Finely(Migrations[m].up, IF m \in {4, 9, 10, 11} THEN "mild" ELSE "gentle")
           D(m) == Finely(Migrations[m].down, IF m \in {2, 3, 7} THEN "mild" ELSE "gentle")
<1>1. U(1) /\ D(1) /\ U(2) /\ D(2) /\ U(3) /\ D(3) /\ U(4) /\ D(4)
  BY MigrationList, MigrationsFine
<1>2. U(5) /\ D(5) /\ U(6) /\ D(6) /\ U(7) /\ D(7) /\ U(8) /\ D(8) /\ U(9) /\ D(9)
  BY MigrationList, MigrationsFine
<1>3. U(10) /\ D(10) /\ U(11) /\ D(11) /\ U(12) /\ D(12) /\ U(13) /\ D(13)
  BY MigrationList, MigrationsFine
<1> HIDE DEF U, D
<1>4. \A m \in 1 .. 13 : U(m) /\ D(m)
  BY <1>1, <1>2, <1>3
<1> QED BY <1>4 DEF U, D

(* What a level's migration leads to.                                       *)
LEMMA LevelLeads ==
  ASSUME NEW m \in 1 .. 13
  PROVE  /\ Leads(At(m - 1), Migrations[m].up, At(m))
         /\ \E R \in SUBSET RequiredAt(m - 1) : Leads(At(m), Migrations[m].down, BackTo(m - 1, R))
         /\ AreStatements(Migrations[m].up) /\ AreStatements(Migrations[m].down)
<1>1. /\ Leads(At(m - 1), Migrations[m].up, At(m))
      /\ \E R \in SUBSET RequiredAt(m - 1) :
           Leads(At(m), Migrations[m].down, BackTo(m - 1, R))
  BY LevelsLead
<1> QED BY <1>1, LeadsStatements

(* A migration that never reads a row, run.                                 *)
LEMMA FineRun ==
  ASSUME NEW d, NEW x, NEW y, NEW ss, Good(d, x), Leads(x, ss, y), Finely(ss, "gentle")
  PROVE  Run(d, ss).ok
<1>1. \A i \in 1 .. Len(ss) : Gentle(ss[i])
  BY DEF Finely, Fine
<1>2. Good(Run(d, ss), y)
  BY <1>1, GentleRun
<1> QED BY <1>2 DEF Good, Sound

(* An index changes nothing here.                                           *)
LEMMA RunOther ==
  ASSUME NEW d, Run(d, <<Other>>).ok
  PROVE  Run(d, <<Other>>) = d
<1>1. Run(d, <<Other>>) = Apply(d, Other)
  BY RunOne
<1>2. Apply(d, Other) = d
  BY DEF Apply, Other
<1> QED BY <1>1, <1>2

(* A migration up is refused for an amount that is not known, or a payment  *)
(* made twice, and else keeps the fees known.                               *)
LEMMA UpGoes ==
  ASSUME NEW m \in 1 .. 13, NEW d, Good(d, At(m - 1)), KeyedFees(d)
  PROVE  /\ m \notin {4, 10, 11} => Run(d, Migrations[m].up).ok
         /\ FeesHeld(d) /\ m # 11 => Run(d, Migrations[m].up).ok
         /\ FeesHeld(d) /\ Run(d, Migrations[m].up).ok => FeesHeld(Run(d, Migrations[m].up))
<1> DEFINE ss == Migrations[m].up
<1>1. Leads(At(m - 1), ss, At(m)) /\ AreStatements(ss) /\ Sound(d)
  BY LevelLeads DEF Good
<1>2. m \notin {4, 9, 10, 11} => Run(d, ss).ok
  <2>1. m \notin {4, 9, 10, 11} => Finely(ss, "gentle")
    BY LevelsFine
  <2> QED BY <1>1, <2>1, FineRun
<1>3. m = 9 => Run(d, ss).ok /\ (FeesHeld(d) => FeesHeld(Run(d, ss)))
  <2> SUFFICES ASSUME m = 9 PROVE Run(d, ss).ok /\ (FeesHeld(d) => FeesHeld(Run(d, ss)))
    OBVIOUS
  <2>1. At(m - 1) = State(P7, F7, R2) /\ ss = DropFees.up
    BY LevelStates, MigrationList
  <2> HIDE DEF ss
  <2>2. /\ Run(d, ss).ok /\ Unversioned(Run(d, ss))
        /\ KeysKnown(d) /\ Named(d) => FeesKnown(Run(d, ss))
    BY <2>1, DropFeesGoes
  <2> QED BY <2>2, KnownHeld DEF FeesHeld
<1>4. ASSUME FeesHeld(d), m \notin {8, 9}
      PROVE  /\ m # 11 => Run(d, ss).ok
             /\ Run(d, ss).ok => FeesHeld(Run(d, ss))
  <2>1. "fee_key" \notin Columns(d)["fees"]
    <3>1. m - 1 \in 0 .. 13 /\ m - 1 \notin 7 .. 8
      BY <1>4
    <3>2. "fee_key" \notin FeesAt(m - 1)
      BY <3>1, KeylessLevels
    <3> QED BY <3>2, LevelGood
  <2>2. FeesKnown(d) /\ Unversioned(d)
    BY <1>1, <1>4, <2>1, HeldKnown
  <2>3. m # 11 => Run(d, ss).ok
    <3>1. CASE m = 4
      <4>1. At(m - 1) = State(P2, FeeColumns, R2) /\ ss = AddAmount.up
        BY <3>1, LevelStates, MigrationList
      <4> QED BY <2>2, <4>1, AddAmountGoes
    <3>2. CASE m = 10
      <4>1. At(m - 1) = State(P9, {}, R9) /\ ss = RestoreAmount.up
        BY <3>2, LevelStates, MigrationList
      <4> QED BY <2>2, <4>1, RestoreAmountGoes
    <3> QED BY <1>2, <1>4, <3>1, <3>2
  <2>4. \A i \in 1 .. Len(ss) : Mild(ss[i])
    BY LevelsFine DEF Finely, Fine
  <2> HIDE DEF ss
  <2>5. ASSUME Run(d, ss).ok PROVE FeesKnown(Run(d, ss)) /\ Unversioned(Run(d, ss))
    BY <1>1, <2>2, <2>4, <2>5, RunKnown
  <2> QED BY <2>3, <2>5, KnownHeld DEF ss
<1>5. m = 8 => Run(d, ss).ok /\ (FeesHeld(d) => FeesHeld(Run(d, ss)))
  <2> SUFFICES ASSUME m = 8 PROVE Run(d, ss).ok /\ (FeesHeld(d) => FeesHeld(Run(d, ss)))
    OBVIOUS
  <2>1. ss = <<Other>> /\ Run(d, ss).ok
    BY <1>2, MigrationList DEF Reindex
  <2>2. Run(d, ss) = d
    BY <2>1, RunOther
  <2> QED BY <2>1, <2>2
<1> QED BY <1>2, <1>3, <1>4, <1>5

(* No rollback is refused, but that of 20260407143000.                      *)
LEMMA DownGoes ==
  ASSUME NEW m \in 1 .. 13, m # 3, NEW d, Good(d, At(m))
  PROVE  Run(d, Migrations[m].down).ok
<1> DEFINE ss == Migrations[m].down
<1>1. CASE m = 2
  <2>1. At(m) = State(P2, FeeColumns, R2) /\ ss = CreateFees.down
    BY <1>1, LevelStates, MigrationList
  <2> QED BY <2>1, CreateFeesBack
<1>2. CASE m = 7
  <2>1. At(m) = State(P7, F7, R2) /\ ss = FeeVersioning.down
    BY <1>2, LevelStates, MigrationList
  <2> QED BY <2>1, FeeVersioningBack
<1>3. CASE m \notin {2, 7}
  <2>1. Finely(ss, "gentle")
    BY <1>3, LevelsFine
  <2>2. PICK R \in SUBSET RequiredAt(m - 1) : Leads(At(m), ss, BackTo(m - 1, R))
    BY LevelLeads
  <2> QED BY <2>1, <2>2, FineRun
<1> QED BY <1>1, <1>2, <1>3

(* A rollback keeps the fees known, unless it drops the key of a version.   *)
LEMMA DownHeld ==
  ASSUME NEW m \in 1 .. 13, NEW d, Good(d, At(m)), FeesHeld(d), m = 7 => Unversioned(d),
         Run(d, Migrations[m].down).ok
  PROVE  FeesHeld(Run(d, Migrations[m].down))
<1> DEFINE ss == Migrations[m].down
<1>1. AreStatements(ss) /\ Sound(d)
  BY LevelLeads DEF Good
<1>2. CASE m # 8
  <2>1. Unversioned(d) \/ "fee_key" \notin Columns(d)["fees"]
    <3>1. m # 7 => "fee_key" \notin FeesAt(m)
      BY <1>2, KeylessLevels
    <3> QED BY <3>1, LevelGood
  <2>2. FeesKnown(d) /\ Unversioned(d)
    BY <1>1, <2>1, HeldKnown
  <2>3. \A i \in 1 .. Len(ss) : Mild(ss[i])
    BY LevelsFine DEF Finely, Fine
  <2> HIDE DEF ss
  <2>4. Run(d, ss).ok
    BY DEF ss
  <2>5. FeesKnown(Run(d, ss)) /\ Unversioned(Run(d, ss))
    BY <1>1, <2>2, <2>3, <2>4, RunKnown
  <2> QED BY <2>5, KnownHeld DEF ss
<1>3. CASE m = 8
  <2>1. ss = <<Other>> /\ Run(d, ss).ok
    BY <1>3, MigrationList DEF Reindex
  <2>2. Run(d, ss) = d
    BY <2>1, RunOther
  <2> QED BY <2>1, <2>2
<1> QED BY <1>2, <1>3

-----------------------------------------------------------------------------
(* The portal and the seeds keep the fees known.                            *)
LEMMA SeedHeld ==
  ASSUME NEW d, NEW fees, Sound(d), FeesHeld(d), DOMAIN d.fees = {},
         fees = [k \in Keys |-> [key |-> k, amount |-> KnownAmount[k]]]
  PROVE  FeesHeld([d EXCEPT !.fees = fees])
<1> DEFINE e == [d EXCEPT !.fees = fees]
<1>1. e.row = d.row /\ e.fees = fees
  BY DEF Sound, IsDatabase
<1> HIDE DEF e
<1>2. DOMAIN fees = Keys /\ \A k \in Keys : "key" \in DOMAIN fees[k] /\ fees[k].key = k
  OBVIOUS
<1>3. KeysKnown(e) /\ Version \notin DOMAIN e.fees
  BY <1>1, <1>2, FeeAssumption DEF KeysKnown
<1>4. Named(e)
  BY <1>1, <1>2 DEF FeesHeld, Named
<1> QED BY <1>3, <1>4 DEF FeesHeld, e

(* A version of a fee, whose key is that of the fee,                        *)
LEMMA AddVersionHeld ==
  ASSUME NEW d, NEW fees, Sound(d), FeesHeld(d), "fee_key" \in Columns(d)["fees"],
         fees = Inserted(d.fees, Version, [key |-> FirstKey, amount |-> "raised"])
  PROVE  FeesHeld([d EXCEPT !.fees = fees])
<1> DEFINE e == [d EXCEPT !.fees = fees]
           new == [key |-> FirstKey, amount |-> "raised"]
<1>1. e.row = d.row /\ e.fees = fees /\ e.tables = d.tables
  BY DEF Sound, IsDatabase
<1> HIDE DEF e
<1>2. "key" \in DOMAIN new /\ new.key \in Keys
  BY FeeAssumption
<1> HIDE DEF new
<1>3. /\ DOMAIN fees = {Version} \cup DOMAIN d.fees
      /\ \A id \in DOMAIN fees : fees[id] = IF id = Version THEN new ELSE d.fees[id]
  BY DEF Inserted, new
<1>4. KeysKnown(e)
  BY <1>1, <1>2, <1>3 DEF FeesHeld, KeysKnown
<1>5. Named(e)
  BY <1>1, <1>3 DEF FeesHeld, Named
<1> QED BY <1>1, <1>4, <1>5 DEF FeesHeld, Columns, e

(* and rows that name no other fee.                                         *)
LEMMA RowsHeld ==
  ASSUME NEW d, NEW e, FeesHeld(d), e.fees = d.fees, e.tables = d.tables,
         \A a \in DOMAIN e.row : \A c \in FeeNames \cap DOMAIN e.row[a].v :
           \/ e.row[a].v[c] \in Keys \cup DOMAIN d.fees
           \/ a \in DOMAIN d.row /\ c \in DOMAIN d.row[a].v /\ e.row[a].v[c] = d.row[a].v[c]
  PROVE  FeesHeld(e)
<1>1. KeysKnown(e) /\ Named(e)
  BY DEF FeesHeld, KeysKnown, Named
<1> QED BY <1>1 DEF FeesHeld, Columns

-----------------------------------------------------------------------------
(* The unique index.                                                        *)

(* What an UPDATE of the status makes of it.                                *)
Rewrites(how, to, d, e) ==
  \A a \in DOMAIN e.row :
    /\ a \in DOMAIN d.row
    /\ StatusIn(e, a) = IF Meets(how, d, a) THEN to ELSE StatusIn(d, a)

(* Every attempt has a status.                                              *)
HasStatus(d) == \A a \in DOMAIN d.row : "transaction_status" \in DOMAIN d.row[a].v

(* It has, from the first migration on.                                     *)
LEMMA LevelStatus ==
  ASSUME NEW n \in 1 .. 13, NEW d, Good(d, At(n))
  PROVE  HasStatus(d)
<1>1. At(n).has[T] = PortalAt(n)
  BY DEF At, State, Sets, Tables, T
<1>2. "transaction_status" \in PortalAt(n)
  BY DEF PortalAt, P1, P2, P4, P5, P7, P9, P10
<1>3. \A a \in DOMAIN d.row : DOMAIN d.row[a].v = PortalAt(n)
  BY <1>1 DEF Good, Sound, RowSound, Columns, Tables, T
<1> QED BY <1>2, <1>3 DEF HasStatus

(* The three UPDATEs of it.                                                 *)
LEMMA UpdateRewrites ==
  ASSUME NEW d, NEW how, NEW to, Sound(d), HasStatus(d),
         <<how, to>> \in {<<"superseded", "failed">>, <<"cancel backlog", "cancelled">>,
                         <<"restore", "initiated">>}
  PROVE  Rewrites(how, to, d, UpdateIn(d, how))
<1> DEFINE e == UpdateIn(d, how)
<1>1. e.row = UpdatedRows(d, how)
  BY UpdateRows DEF Sound
<1>2. d.day \in Nat \ {0} /\ \A a \in DOMAIN d.row : RowSound(d, d.row[a])
  BY DEF Sound
<1> HIDE DEF e
<1>3. ASSUME NEW a \in DOMAIN e.row
      PROVE  a \in DOMAIN d.row /\ StatusIn(e, a) = IF Meets(how, d, a) THEN to ELSE StatusIn(d, a)
  <2> DEFINE v == d.row[a].v
             new == Written(how, d, v)
  <2>1. a \in DOMAIN d.row
    BY <1>1, <1>3 DEF UpdatedRows
  <2>2. DOMAIN new = DOMAIN v
    BY DEF Written
  <2>3. Touch(d, d.row[a], new).v = new
    BY <1>2, <2>1, <2>2, TouchSound
  <2>4. new["transaction_status"] = to
    <3>1. "transaction_status" \in DOMAIN v
      BY <2>1 DEF HasStatus
    <3> HIDE DEF v
    <3>2. CASE how = "superseded"
      BY <3>1, <3>2 DEF Written
    <3>3. CASE how = "cancel backlog"
      BY <3>1, <3>3 DEF Written
    <3>4. CASE how = "restore"
      BY <3>1, <3>4 DEF Written
    <3> QED BY <3>2, <3>3, <3>4
  <2> HIDE DEF new
  <2>5. CASE Meets(how, d, a)
    <3>1. e.row[a] = Touch(d, d.row[a], new)
      BY <1>1, <2>1, <2>5 DEF UpdatedRows, new
    <3> QED BY <2>1, <2>3, <2>4, <2>5, <3>1 DEF StatusIn
  <2>6. CASE ~Meets(how, d, a)
    <3>1. e.row[a] = d.row[a]
      BY <1>1, <2>1, <2>6 DEF UpdatedRows
    <3> QED BY <2>1, <2>6, <3>1 DEF StatusIn
  <2> QED BY <2>5, <2>6
<1> QED BY <1>3 DEF Rewrites, e

(* Of two attempts that were superseded neither is left; and two that were  *)
(* not were both paid.                                                      *)
LEMMA SupersededOnce ==
  ASSUME NEW d, NEW e, Rewrites("superseded", "failed", d, e), ~Twice(d, PAID)
  PROVE  ~Twice(e, COVERED_STATUSES)
<1> SUFFICES ASSUME NEW a \in DOMAIN e.row, NEW b \in DOMAIN e.row, Siblings(a, b),
                    StatusIn(e, a) \in COVERED_STATUSES, StatusIn(e, b) \in COVERED_STATUSES
             PROVE  FALSE
  BY DEF Twice
<1>1. "failed" \notin COVERED_STATUSES
  BY DEF COVERED_STATUSES, UNSETTLED, PAID
<1>2. \A c \in {a, b} : /\ c \in DOMAIN d.row /\ StatusIn(d, c) = StatusIn(e, c)
                       /\ ~Meets("superseded", d, c)
  BY <1>1 DEF Rewrites
<1>3. Another(d, a) /\ Another(d, b)
  BY <1>2 DEF Another, Siblings
<1>4. \A c : Meets("superseded", d, c) = (StatusIn(d, c) \in UNSETTLED /\ Another(d, c))
  BY DEF Meets
<1>5. StatusIn(d, a) \in PAID /\ StatusIn(d, b) \in PAID
  BY <1>2, <1>3, <1>4 DEF COVERED_STATUSES
<1> QED BY <1>2, <1>5 DEF Twice

(* A cancellation is not covered.                                           *)
LEMMA BacklogOnce ==
  ASSUME NEW d, NEW e, Rewrites("cancel backlog", "cancelled", d, e), ~Twice(d, COVERED_STATUSES)
  PROVE  ~Twice(e, COVERED_STATUSES)
<1> SUFFICES ASSUME NEW a \in DOMAIN e.row, NEW b \in DOMAIN e.row, Siblings(a, b),
                    StatusIn(e, a) \in COVERED_STATUSES, StatusIn(e, b) \in COVERED_STATUSES
             PROVE  FALSE
  BY DEF Twice
<1>1. "cancelled" \notin COVERED_STATUSES
  BY DEF COVERED_STATUSES, UNSETTLED, PAID
<1>2. \A c \in {a, b} : c \in DOMAIN d.row /\ StatusIn(d, c) = StatusIn(e, c)
  BY <1>1 DEF Rewrites
<1> QED BY <1>2 DEF Twice

(* Whoever is restored beside another attempt, that one was restored too.   *)
LEMMA RestoredOnce ==
  ASSUME NEW d, NEW e, Rewrites("restore", "initiated", d, e), ~Twice(d, COVERED_STATUSES),
         ~Twice(d, {"cancelled"})
  PROVE  ~Twice(e, COVERED_STATUSES)
<1> SUFFICES ASSUME NEW a \in DOMAIN e.row, NEW b \in DOMAIN e.row, Siblings(a, b),
                    StatusIn(e, a) \in COVERED_STATUSES, StatusIn(e, b) \in COVERED_STATUSES
             PROVE  FALSE
  BY DEF Twice
<1>1. \A c : Meets("restore", d, c) = Restorable(d, c)
  BY DEF Meets
<1>2. /\ a \in DOMAIN d.row /\ b \in DOMAIN d.row
      /\ ~Restorable(d, a) => StatusIn(d, a) \in COVERED_STATUSES
      /\ ~Restorable(d, b) => StatusIn(d, b) \in COVERED_STATUSES
  BY <1>1 DEF Rewrites
<1>3. Siblings(b, a)
  BY DEF Siblings
<1>4. \A c : Restorable(d, c) => StatusIn(d, c) = "cancelled" /\ ~Another(d, c)
  BY DEF Restorable
<1>5. CASE Restorable(d, a)
  <2>1. Restorable(d, b)
    BY <1>2, <1>4, <1>5 DEF Another
  <2> QED BY <1>2, <1>4, <1>5, <2>1 DEF Twice
<1>6. CASE ~Restorable(d, a)
  <2>1. ~Restorable(d, b)
    BY <1>2, <1>3, <1>4, <1>6 DEF Another
  <2> QED BY <1>2, <1>6, <2>1 DEF Twice
<1> QED BY <1>5, <1>6

(* The statements that touch no attempt's status,                           *)
LEMMA KindsSparing ==
  /\ Fine(Other, "sparing") /\ \A b : Fine(Trigger(b), "sparing")
  /\ \A t, has, required : Fine(Create(t, has, required), "sparing")
  /\ \A t : Fine(DropTable(t), "sparing")
  /\ \A how : how \notin {"superseded", "cancel backlog", "restore"}
               => Fine(Update(how), "sparing")
  /\ \A t, C : C \cap FeeNames = {} => Fine(Alter(t, Adds(C)), "sparing")
  /\ \A t, C : "transaction_status" \notin C => Fine(Alter(t, Drops(C)), "sparing")
  /\ \A t, c : /\ Fine(Alter(t, {DropNotNull(c)}), "sparing")
               /\ Fine(Alter(t, {SetNotNull(c)}), "sparing")
  /\ \A c, n : Fine(Alter(T, {SetLength(c, n)}), "sparing")
  /\ \A c, to : c \in FeeNames => Fine(Alter(T, {Rename(c, to)}), "sparing")
<1>1. /\ Fine(Other, "sparing") /\ \A b : Fine(Trigger(b), "sparing")
      /\ \A t, has, required : Fine(Create(t, has, required), "sparing")
      /\ \A t : Fine(DropTable(t), "sparing")
  BY Kinds DEF Fine, SparesStatus, Other, Trigger, Create, DropTable
<1>2. \A how : how \notin {"superseded", "cancel backlog", "restore"}
               => Fine(Update(how), "sparing")
  BY Kinds DEF Fine, SparesStatus, Update
<1>3. \A t, S : SparesStatus(Alter(t, S))
               <=> \A k \in S : k.act \in {"drop", "rename"} => k.col # "transaction_status"
  BY DEF SparesStatus, Alter, With
<1>4. ASSUME NEW t, NEW C
      PROVE  /\ C \cap FeeNames = {} => Fine(Alter(t, Adds(C)), "sparing")
             /\ "transaction_status" \notin C => Fine(Alter(t, Drops(C)), "sparing")
  <2>1. \A k \in Adds(C) : k.act = "add"
    BY DEF Adds, Add, Clause
  <2>2. \A k \in Drops(C) : k.col \in C
    BY DEF Drops, DropColumn, Clause
  <2>3. SparesStatus(Alter(t, Adds(C)))
    BY <1>3, <2>1
  <2>4. "transaction_status" \notin C => SparesStatus(Alter(t, Drops(C)))
    BY <1>3, <2>2
  <2> QED BY <2>3, <2>4, Kinds DEF Fine
<1>5. ASSUME NEW t, NEW c, NEW n, NEW k \in {DropNotNull(c), SetNotNull(c), SetLength(c, n)}
      PROVE  SparesStatus(Alter(t, {k}))
  <2>1. k.act \in {"relax", "require", "widen", "narrow"}
    BY DEF DropNotNull, SetNotNull, SetLength, Clause
  <2> QED BY <1>3, <2>1
<1>6. ASSUME NEW c \in FeeNames, NEW to PROVE Fine(Alter(T, {Rename(c, to)}), "sparing")
  <2>1. Rename(c, to).col # "transaction_status"
    BY DEF Rename, Clause, FeeNames
  <2>2. SparesStatus(Alter(T, {Rename(c, to)}))
    BY <1>3, <2>1
  <2> QED BY <2>2, Kinds DEF Fine
<1>7. /\ \A t, c : /\ Fine(Alter(t, {DropNotNull(c)}), "sparing")
                   /\ Fine(Alter(t, {SetNotNull(c)}), "sparing")
      /\ \A c, n : Fine(Alter(T, {SetLength(c, n)}), "sparing")
  BY <1>5, Kinds DEF Fine
<1> QED BY <1>1, <1>2, <1>4, <1>6, <1>7

(* and the migrations made of them.                                         *)
LEMMA MigrationsSparing ==
  /\ Finely(CreateFees.up, "sparing") /\ Finely(CreateFees.down, "sparing")
  /\ Finely(ExpandToken.up, "sparing") /\ Finely(ExpandToken.down, "sparing")
  /\ Finely(AddAmount.up, "sparing") /\ Finely(AddAmount.down, "sparing")
  /\ Finely(AddResponse.up, "sparing") /\ Finely(AddResponse.down, "sparing")
  /\ Finely(FeeVersioning.up, "sparing") /\ Finely(FeeVersioning.down, "sparing")
  /\ Finely(DropFees.up, "sparing") /\ Finely(DropFees.down, "sparing")
  /\ Finely(RestoreAmount.up, "sparing") /\ Finely(RestoreAmount.down, "sparing")
  /\ Finely(HoldDay.up, "sparing") /\ Finely(HoldDay.down, "sparing")
<1>1. \A how \in {"fee details", "blank methods", "amounts", "fee_key = fee_id", "fee amounts",
                  "activation_date = created_at", "zero amounts", "fee keys", "amounts by fee"} :
        Fine(Update(how), "sparing")
  BY KindsSparing
<1>2. ASSUME NEW t, NEW b, NEW c, {b, c} \cap FeeNames = {}, "transaction_status" \notin {b, c}
      PROVE  /\ Fine(Alter(t, {DropColumn(c)}), "sparing")
             /\ Fine(Alter(t, {Add(c)}), "sparing")
             /\ Fine(Alter(t, {DropColumn(b), DropColumn(c)}), "sparing")
             /\ Fine(Alter(t, {Add(b), Add(c)}), "sparing")
  <2>1. {c} \cap FeeNames = {} /\ "transaction_status" \notin {c}
    BY <1>2
  <2>2. /\ Fine(Alter(t, Drops({c})), "sparing") /\ Fine(Alter(t, Drops({b, c})), "sparing")
        /\ Fine(Alter(t, Adds({c})), "sparing") /\ Fine(Alter(t, Adds({b, c})), "sparing")
    BY <1>2, <2>1, KindsSparing
  <2> QED BY <2>2, Clauses
<1>3. /\ ResponseColumns \cap FeeNames = {} /\ "transaction_status" \notin ResponseColumns
      /\ \A c \in {"fee_name", "fee_amount", "fee_key", "activation_date", "transaction_amount"} :
           c \notin FeeNames /\ c # "transaction_status"
  BY DEF FeeNames, ResponseColumns
<1>4. \A t : /\ Fine(Alter(t, {DropColumn("fee_name"), DropColumn("fee_amount")}), "sparing")
             /\ Fine(Alter(t, {Add("fee_name"), Add("fee_amount")}), "sparing")
             /\ Fine(Alter(t, {Add("transaction_amount")}), "sparing")
             /\ Fine(Alter(t, {DropColumn("transaction_amount")}), "sparing")
             /\ Fine(Alter(t, {Add("fee_key")}), "sparing")
             /\ Fine(Alter(t, {Add("activation_date")}), "sparing")
             /\ Fine(Alter(t, {DropColumn("activation_date"), DropColumn("fee_key")}), "sparing")
  <2> TAKE t
  <2>1. ASSUME NEW b \in {"fee_name", "fee_amount", "fee_key", "activation_date", "transaction_amount"},
               NEW c \in {"fee_name", "fee_amount", "fee_key", "activation_date", "transaction_amount"}
        PROVE  /\ Fine(Alter(t, {DropColumn(c)}), "sparing")
               /\ Fine(Alter(t, {Add(c)}), "sparing")
               /\ Fine(Alter(t, {DropColumn(b), DropColumn(c)}), "sparing")
               /\ Fine(Alter(t, {Add(b), Add(c)}), "sparing")
    <3>1. {b, c} \cap FeeNames = {} /\ "transaction_status" \notin {b, c}
      BY <1>3
    <3> QED BY <1>2, <3>1
  <2> QED BY <2>1
<1>5. \A to : /\ Fine(Alter(T, {Rename("fee_id", to)}), "sparing")
              /\ Fine(Alter(T, {Rename("fee", to)}), "sparing")
  <2>1. "fee_id" \in FeeNames /\ "fee" \in FeeNames
    BY DEF FeeNames
  <2> QED BY <2>1, KindsSparing
<1>6. Finely(CreateFees.up, "sparing") /\ Finely(CreateFees.down, "sparing")
  BY <1>1, <1>4, KindsSparing, FineSequences DEF CreateFees
<1>7. Finely(ExpandToken.up, "sparing") /\ Finely(ExpandToken.down, "sparing")
  BY KindsSparing, FineSequences DEF ExpandToken
<1>8. /\ Finely(AddAmount.up, "sparing") /\ Finely(AddAmount.down, "sparing")
      /\ Finely(RestoreAmount.up, "sparing") /\ Finely(RestoreAmount.down, "sparing")
  BY <1>1, <1>4, KindsSparing, FineSequences DEF AddAmount, RestoreAmount
<1>9. Finely(AddResponse.up, "sparing") /\ Finely(AddResponse.down, "sparing")
  BY <1>3, KindsSparing, FineSequences DEF AddResponse, Adds, Drops
<1>10. Finely(FeeVersioning.up, "sparing") /\ Finely(FeeVersioning.down, "sparing")
  BY <1>1, <1>4, KindsSparing, FineSequences DEF FeeVersioning
<1>11. Finely(DropFees.up, "sparing") /\ Finely(DropFees.down, "sparing")
  BY <1>1, <1>5, KindsSparing, FineSequences DEF DropFees
<1>12. Finely(HoldDay.up, "sparing") /\ Finely(HoldDay.down, "sparing")
  BY KindsSparing, FineSequences DEF HoldDay
<1> QED BY <1>6, <1>7, <1>8, <1>9, <1>10, <1>11, <1>12

(* Between the index's own migrations every status stays as it was.         *)
LEMMA LevelSpares ==
  ASSUME NEW m \in {2, 3, 4, 5, 7, 9, 10, 12}, NEW d, Sound(d)
  PROVE  /\ Run(d, Migrations[m].up).ok => SameStatus(d, Run(d, Migrations[m].up))
         /\ Run(d, Migrations[m].down).ok => SameStatus(d, Run(d, Migrations[m].down))
<1>1. Finely(Migrations[m].up, "sparing") /\ Finely(Migrations[m].down, "sparing")
  BY MigrationList, MigrationsSparing
<1>2. AreStatements(Migrations[m].up) /\ AreStatements(Migrations[m].down)
  BY LevelLeads
<1> QED BY <1>1, <1>2, RunSpares DEF Finely, Fine

(* Where every status stays, no attempt becomes another one's double.       *)
LEMMA TwiceSame ==
  ASSUME NEW d, NEW e, NEW S, HasStatus(d), SameStatus(d, e), Twice(e, S)
  PROVE  Twice(d, S)
<1>1. \A a \in DOMAIN e.row : a \in DOMAIN d.row /\ StatusIn(e, a) = StatusIn(d, a)
  BY DEF HasStatus, SameStatus, StatusIn
<1> QED BY <1>1 DEF Twice

(* More statuses, more doubles.                                             *)
LEMMA TwiceMore ==
  ASSUME NEW d, NEW S, NEW U, S \subseteq U, Twice(d, S)
  PROVE  Twice(d, U)
BY DEF Twice

(* 20260805000000 is refused for a payment made twice, and else supersedes. *)
LEMMA ProcessedGoes ==
  ASSUME NEW d, NEW x, Good(d, x), HasStatus(d)
  PROVE  /\ ~Twice(d, PAID) => Run(d, AddProcessed.up).ok
         /\ Run(d, AddProcessed.up).ok =>
              ~Twice(d, PAID) /\ Rewrites("superseded", "failed", d, Run(d, AddProcessed.up))
<1> DEFINE ss == AddProcessed.up
           d1 == Apply(d, Check)
           d2 == UpdateIn(d1, "superseded")
<1>1. Len(ss) = 3 /\ ss[1] = Check /\ ss[2] = Update("superseded") /\ ss[3] = Other
  BY DEF AddProcessed
<1> HIDE DEF ss
<1>2. PICK f : RunsAs(f, d, ss, 3)
  BY <1>1, RunCounted
<1>3. /\ f[0] = d /\ f[3] = Run(d, ss)
      /\ f[1] = IF f[0].ok THEN Apply(f[0], ss[1]) ELSE f[0]
      /\ f[2] = IF f[1].ok THEN Apply(f[1], ss[2]) ELSE f[1]
      /\ f[3] = IF f[2].ok THEN Apply(f[2], ss[3]) ELSE f[2]
  BY <1>2 DEF RunsAs
<1>4. Sound(d) /\ IsDatabase(d) /\ d.ok
  BY DEF Good, Sound
<1>5. f[1] = d1
  BY <1>1, <1>3, <1>4
<1>6. /\ IsDatabase(d1) /\ d1.tables = d.tables /\ d1.row = d.row /\ d1.fees = d.fees
      /\ d1.ok = ~Twice(d, PAID)
  <2>1. Check.op = "check"
    BY DEF Check
  <2> QED BY <1>4, <2>1, CheckFields
<1> HIDE DEF d1
<1>7. ASSUME d1.ok
      PROVE  Run(d, ss) = d2 /\ d2.ok /\ Rewrites("superseded", "failed", d, d2)
  <2>1. Good(d1, x)
    <3>1. Step(x, Check, x)
      BY QuietStep
    <3> QED BY <1>7, <3>1, GoodStep DEF d1
  <2>2. Fills("superseded") = {}
    BY DEF Fills
  <2>3. Apply(d1, Update("superseded")) = d2 /\ Good(d2, x)
    BY <2>1, <2>2, UpdateStep
  <2>4. HasStatus(d1) /\ Sound(d1)
    BY <1>6, <2>1 DEF HasStatus, Good
  <2>5. Rewrites("superseded", "failed", d1, d2)
    BY <2>4, UpdateRewrites
  <2>6. \A a : /\ StatusIn(d1, a) = StatusIn(d, a)
               /\ Meets("superseded", d1, a) = Meets("superseded", d, a)
    BY <1>6 DEF StatusIn, Meets, Another
  <2> HIDE DEF d2
  <2>7. Rewrites("superseded", "failed", d, d2)
    BY <1>6, <2>5, <2>6 DEF Rewrites
  <2>8. d2.ok
    BY <2>3 DEF Good, Sound
  <2>9. f[3] = Apply(d2, Other)
    BY <1>1, <1>3, <1>5, <1>7, <2>3, <2>8
  <2>10. Apply(d2, Other) = d2
    BY DEF Apply, Other
  <2> QED BY <1>3, <2>7, <2>8, <2>9, <2>10
<1>8. ~d1.ok => ~Run(d, ss).ok
  BY <1>3, <1>5
<1> HIDE DEF d2
<1>9. d1.ok <=> ~Twice(d, PAID)
  BY <1>6
<1> QED BY <1>7, <1>8, <1>9 DEF ss

(* The first migration begins without rows.                                 *)
LEMMA InitDbRows ==
  ASSUME NEW d, Sound(d), Run(d, InitDb.up).ok
  PROVE  DOMAIN Run(d, InitDb.up).row = {}
<1> DEFINE ss == InitDb.up
           s == ss[1]
<1>1. /\ Len(ss) = 3 /\ s.op = "create" /\ s.table = T
      /\ ss[2] = Other /\ ss[3] = Trigger(FALSE)
  BY DEF InitDb, Create
<1>0. Run(d, ss).ok
  OBVIOUS
<1> HIDE DEF ss
<1>2. PICK f : /\ f[0] = d /\ f[3] = Run(d, ss)
               /\ \A i \in 1 .. 3 : f[i] = Apply(f[i - 1], ss[i])
  <2>1. 3 \in Nat /\ Len(ss) = 3
    BY <1>1
  <2>2. PICK f : /\ f[0] = d /\ f[Len(ss)] = Run(d, ss)
                 /\ \A i \in 0 .. Len(ss) : f[i].ok
                 /\ \A i \in 1 .. Len(ss) : f[i] = Apply(f[i - 1], ss[i])
    <3> HIDE DEF s
    <3> QED BY <1>0, <2>1, RunApplies
  <2> QED BY <2>1, <2>2
<1>3. f[1] = Apply(d, s) /\ f[2] = Apply(f[1], Other) /\ f[3] = Apply(f[2], Trigger(FALSE))
  <2>1. f[1] = Apply(f[0], ss[1])
    BY <1>2
  <2>2. f[2] = Apply(f[1], ss[2])
    BY <1>2
  <2>3. f[3] = Apply(f[2], ss[3])
    BY <1>2
  <2> QED BY <1>1, <1>2, <2>1, <2>2, <2>3
<1> HIDE DEF s
<1>4. IsDatabase(f[1]) /\ DOMAIN f[1].row = {}
  <2> DEFINE new == Anew(d, s.table, s.has, s.required)
             free == d.tables[s.table].has = {}
  <2>1. /\ IsDatabase(new)
        /\ new.tables[s.table] = [has |-> s.has, required |-> s.required]
        /\ \A u \in Tables \ {s.table} : new.tables[u] = d.tables[u]
        /\ new.row = IF s.table = "transactions" THEN <<>> ELSE d.row
        /\ new.fees = IF s.table = "fees" THEN <<>> ELSE d.fees
        /\ new.holds = d.holds /\ new.day = d.day /\ new.wide = d.wide /\ new.ok = d.ok
    <3>1. IsDatabase(d) /\ s.table \in Tables
      BY <1>1 DEF Sound, Tables, T
    <3> QED BY <3>1, AnewFields
  <2>2. f[1] = [new EXCEPT !.ok = free]
    BY <1>1, <1>3 DEF Apply
  <2>3. DOMAIN (<<>>) = {}
    OBVIOUS
  <2> HIDE DEF new, free
  <2>4. IsDatabase(f[1]) /\ f[1].row = new.row
    BY <2>1, <2>2 DEF IsDatabase
  <2> QED BY <1>1, <2>1, <2>3, <2>4 DEF T
<1>5. f[2] = f[1] /\ f[3] = [f[2] EXCEPT !.holds = FALSE]
  BY <1>3 DEF Apply, Other, Trigger
<1>6. f[3].row = f[1].row
  BY <1>4, <1>5 DEF IsDatabase
<1> QED BY <1>2, <1>4, <1>6 DEF ss

(* No migration leaves an index doubles it kept apart before; two of the    *)
(* indexes are new to rows that none kept apart.                            *)
LEMMA UpOnce ==
  ASSUME NEW m \in 1 .. 13, NEW d, Good(d, At(m - 1)), covered \in CoveredAt(m - 1),
         ~Twice(d, covered), Run(d, Migrations[m].up).ok,
         Twice(Run(d, Migrations[m].up), IndexUp(m))
  PROVE  \/ m = 6 /\ covered = {} /\ Twice(d, FIRST_COVERED)
         \/ m = 8 /\ \E a, b \in DOMAIN d.row : Siblings(a, b) /\ StatusIn(d, a) = "processing"
<1> DEFINE ss == Migrations[m].up
           e == Run(d, ss)
<1>1. Sound(d) /\ Twice(e, IndexUp(m)) /\ (m # 1 => HasStatus(d))
  BY LevelStatus DEF Good
<1>2. CASE m = 1
  <2>1. ss = InitDb.up
    BY <1>2, MigrationList
  <2>2. DOMAIN e.row = {}
    BY <1>1, <2>1, InitDbRows
  <2> HIDE DEF e
  <2> QED BY <1>1, <2>2 DEF Twice
<1>3. CASE m \in {2, 3, 4, 5, 7, 9, 10, 12}
  <2>1. SameStatus(d, e) /\ IndexUp(m) = covered
    BY <1>1, <1>3, LevelSpares DEF IndexUp
  <2> HIDE DEF e
  <2> QED BY <1>1, <1>3, <2>1, TwiceSame
<1>4. CASE m \in {6, 8}
  <2>1. ss = <<Other>> /\ Run(d, ss).ok
    BY <1>4, MigrationList DEF Reindex
  <2>2. e = d
    BY <2>1, RunOther
  <2> HIDE DEF e, ss
  <2>3. CASE m = 6
    <3>1. covered \in {Statuses, {}} /\ Twice(d, FIRST_COVERED)
      BY <1>1, <2>2, <2>3 DEF IndexUp, CoveredAt
    <3>2. FIRST_COVERED \subseteq Statuses
      BY DEF FIRST_COVERED, Statuses
    <3>3. covered # Statuses
      BY <3>1, <3>2, TwiceMore
    <3> QED BY <2>3, <3>1, <3>3
  <2>4. CASE m = 8
    <3>1. covered = FIRST_COVERED /\ Twice(d, FIRST_COVERED \cup {"processing"})
      BY <1>1, <2>2, <2>4 DEF IndexUp, CoveredAt
    <3>2. PICK a \in DOMAIN d.row, b \in DOMAIN d.row :
            /\ Siblings(a, b)
            /\ StatusIn(d, a) \in FIRST_COVERED \cup {"processing"}
            /\ StatusIn(d, b) \in FIRST_COVERED \cup {"processing"}
      BY <3>1 DEF Twice
    <3>3. StatusIn(d, a) = "processing" \/ StatusIn(d, b) = "processing"
      BY <3>1, <3>2 DEF Twice
    <3>4. Siblings(b, a)
      BY <3>2 DEF Siblings
    <3> QED BY <2>4, <3>2, <3>3, <3>4
  <2> QED BY <1>4, <2>3, <2>4
<1>5. CASE m = 11
  <2>1. ss = AddProcessed.up /\ IndexUp(m) = COVERED_STATUSES
    BY <1>5, MigrationList DEF IndexUp
  <2>2. ~Twice(d, PAID) /\ Rewrites("superseded", "failed", d, e)
    BY <1>1, <1>5, <2>1, ProcessedGoes
  <2> HIDE DEF e
  <2> QED BY <1>1, <2>1, <2>2, SupersededOnce
<1>6. CASE m = 13
  <2>0. IndexUp(m) = covered /\ covered = COVERED_STATUSES
    <3>1. IndexUp(13) = covered
      BY DEF IndexUp
    <3>2. CoveredAt(12) = {COVERED_STATUSES}
      BY DEF CoveredAt
    <3>3. m = 13 /\ m - 1 = 12
      BY <1>6
    <3> HIDE DEF ss, e
    <3> QED BY <3>1, <3>2, <3>3
  <2>1. ss = <<Update("cancel backlog")>>
    <3>1. CancelBacklog.up = <<Update("cancel backlog")>>
      BY DEF CancelBacklog
    <3>2. ss = CancelBacklog.up
      BY <1>6, MigrationList
    <3> QED BY <3>1, <3>2
  <2>2. e = UpdateIn(d, "cancel backlog")
    <3>1. Update("cancel backlog").op = "update" /\ Update("cancel backlog").how = "cancel backlog"
      BY DEF Update
    <3> QED BY <1>1, <2>1, <3>1, RunOne DEF Apply, Sound
  <2> HIDE DEF e
  <2>3. Rewrites("cancel backlog", "cancelled", d, e)
    <3>1. HasStatus(d)
      BY <1>1, <1>6
    <3> QED BY <1>1, <2>2, <3>1, UpdateRewrites
  <2> QED BY <1>1, <2>0, <2>3, BacklogOnce
<1> QED BY <1>2, <1>3, <1>4, <1>5, <1>6

(* A rollback leaves doubles of what was cancelled only.                    *)
LEMMA DownOnce ==
  ASSUME NEW m \in 1 .. 13, NEW d, Good(d, At(m)), covered \in CoveredAt(m),
         ~Twice(d, covered), Run(d, Migrations[m].down).ok,
         Twice(Run(d, Migrations[m].down), IndexDown(m))
  PROVE  m = 13 /\ Twice(d, {"cancelled"})
<1> DEFINE ss == Migrations[m].down
           e == Run(d, ss)
<1>1. Sound(d) /\ Twice(e, IndexDown(m)) /\ HasStatus(d)
  BY LevelStatus DEF Good
<1>2. m \notin {1, 6}
  <2>1. ~Twice(e, {})
    BY DEF Twice
  <2> HIDE DEF e
  <2> QED BY <1>1, <2>1 DEF IndexDown
<1>3. m \notin {2, 3, 4, 5, 7, 9, 10, 12}
  <2> SUFFICES ASSUME m \in {2, 3, 4, 5, 7, 9, 10, 12} PROVE FALSE
    OBVIOUS
  <2>1. SameStatus(d, e) /\ IndexDown(m) = covered
    BY <1>1, LevelSpares DEF IndexDown
  <2> HIDE DEF e
  <2> QED BY <1>1, <2>1, TwiceSame
<1>4. m \notin {8, 11}
  <2> SUFFICES ASSUME m \in {8, 11} PROVE FALSE
    OBVIOUS
  <2>1. ss = <<Other>> /\ Run(d, ss).ok
    BY MigrationList DEF Reindex, AddProcessed
  <2>2. e = d
    BY <2>1, RunOther
  <2>3. IndexDown(m) \subseteq covered
    BY DEF IndexDown, CoveredAt, FIRST_COVERED, COVERED_STATUSES, UNSETTLED, PAID
  <2> HIDE DEF e, ss
  <2> QED BY <1>1, <2>2, <2>3, TwiceMore
<1>5. m = 13
  BY <1>2, <1>3, <1>4
<1>6. /\ ss = <<Update("restore")>>
      /\ covered = COVERED_STATUSES /\ IndexDown(m) = COVERED_STATUSES
  <2>1. IndexDown(m) = covered /\ covered = COVERED_STATUSES
    <3>1. IndexDown(13) = covered
      BY DEF IndexDown
    <3>2. CoveredAt(13) = {COVERED_STATUSES}
      BY DEF CoveredAt
    <3> HIDE DEF ss, e
    <3> QED BY <1>5, <3>1, <3>2
  <2>2. ss = <<Update("restore")>>
    <3>1. CancelBacklog.down = <<Update("restore")>>
      BY DEF CancelBacklog
    <3>2. ss = CancelBacklog.down
      BY <1>5, MigrationList
    <3> QED BY <3>1, <3>2
  <2> QED BY <2>1, <2>2
<1>7. e = UpdateIn(d, "restore")
  <2>1. Update("restore").op = "update" /\ Update("restore").how = "restore"
    BY DEF Update
  <2> QED BY <1>1, <1>6, <2>1, RunOne DEF Apply, Sound
<1>8. Rewrites("restore", "initiated", d, e)
  BY <1>1, <1>7, UpdateRewrites
<1> HIDE DEF e
<1>9. Twice(d, {"cancelled"})
  BY <1>1, <1>6, <1>8, RestoredOnce
<1> QED BY <1>5, <1>9

(* What the steps keep: the drafts were tried, the levels keep to their     *)
(* columns, the fees have keys, and known ones while no rollback dropped    *)
(* the key of a version, the unique index has kept doubles apart, and the   *)
(* last run was refused for a known reason at most.                         *)
Held    == level <= Committed /\ ~lostKey => FeesHeld(db)
Unique  == ~Twice(db, covered)
Kept    == Held /\ KeyedFees(db) /\ Unique
Settled == TriedDrafts /\ Reviewed /\ Kept /\ OnlyKnownRefusals

(* They hold at first.                                                      *)
LEMMA SettledInit == TriedDrafts /\ Init => Settled
<1> SUFFICES ASSUME TriedDrafts, Init PROVE Settled
  OBVIOUS
<1>1. DOMAIN db.row = {} /\ DOMAIN db.fees = {}
  BY DEF Init, Empty
<1>2. FeesHeld(db) /\ KeyedFees(db) /\ Unique
  BY <1>1 DEF FeesHeld, KeysKnown, Named, KeyedFees, Unique, Twice
<1>3. OnlyKnownRefusals
  BY DEF Init, OnlyKnownRefusals
<1> QED BY <1>2, <1>3, ReviewedInit DEF Settled, Kept, Held

(* What is known of the database a step leaves is known after the step.     *)
LEMMA KeptAfter ==
  ASSUME NEW e, db' = e
  PROVE  /\ FeesHeld(e) => FeesHeld(db)'
         /\ KeyedFees(e) => KeyedFees(db)'
<1>1. FeesHeld(e) => FeesHeld(db)'
  BY DEF FeesHeld, KeysKnown, Named, Columns, FeeNames
<1>2. KeyedFees(e) => KeyedFees(db)'
  BY DEF KeyedFees
<1> QED BY <1>1, <1>2

(* and nothing changes with it.                                             *)
LEMMA KeptSame ==
  ASSUME Kept, db' = db, level' = level, lostKey' = lostKey, covered' = covered
  PROVE  Kept'
<1>1. Committed' = Committed
  BY LevelsLead
<1>2. /\ FeesHeld(db) => FeesHeld(db)'
      /\ KeyedFees(db) => KeyedFees(db)'
  BY KeptAfter
<1>3. Held' /\ KeyedFees(db)'
  BY <1>1, <1>2 DEF Kept, Held
<1>4. Unique'
  BY DEF Kept, Unique, Twice, StatusIn, Siblings
<1> QED BY <1>3, <1>4 DEF Kept

(* A migration, or the draft.                                               *)
LEMMA HeldUp == Settled /\ Up => Kept' /\ OnlyKnownRefusals'
<1> SUFFICES ASSUME Settled, Up PROVE Kept' /\ OnlyKnownRefusals'
  OBVIOUS
<1>0. /\ DraftLevel = 14 /\ Committed = 13
      /\ DraftLevel' = 14 /\ Committed' = 13
  BY LevelsLead DEF DraftLevel
<1>1. PICK n, ss, after, covers :
        /\ n = level + 1 /\ ss = Statements(n) /\ after = Run(db, ss) /\ covers = IndexUp(n)
        /\ level < 13 \/ (level = 13 /\ gate \in {"clean", "approved"})
        /\ Migrated(after, n, covers) /\ (~Went(after, covers) => refused' = <<"up", n>>)
        /\ UNCHANGED <<draft, gate, lostKey>>
  BY <1>0 DEF Up
<1>2. /\ Typed /\ TriedDrafts /\ Held /\ KeyedFees(db) /\ Unique /\ covered \in CoveredAt(level)
      /\ level \in Nat /\ OfLevel(db, level) /\ Sound(db)
  BY <1>0, <1>1 DEF Settled, Kept, Reviewed, Typed
<1>3. level < 13 => /\ n \in 1 .. 13 /\ n - 1 = level /\ ss = Migrations[n].up
                    /\ Good(db, At(n - 1))
  <2> SUFFICES ASSUME level < 13
               PROVE  n \in 1 .. 13 /\ n - 1 = level /\ ss = Migrations[n].up /\ Good(db, At(n - 1))
    OBVIOUS
  <2>1. n \in 1 .. 13 /\ n - 1 = level
    BY <1>1, <1>2
  <2>2. ss = Migrations[n].up
    BY <1>0, <1>1, <2>1 DEF Statements
  <2> QED BY <1>2, <2>1, <2>2, LevelGood
<1>4. level < 13 /\ ~lostKey /\ after.ok => FeesHeld(after)
  BY <1>0, <1>1, <1>2, <1>3, UpGoes DEF Held
<1>5. level < 13 /\ ~after.ok => (n \in {4, 10} /\ lostKey) \/ (n = 11 /\ Twice(db, PAID))
  <2> SUFFICES ASSUME level < 13, ~after.ok
               PROVE  (n \in {4, 10} /\ lostKey) \/ (n = 11 /\ Twice(db, PAID))
    OBVIOUS
  <2>1. n \in {4, 10, 11} /\ (FeesHeld(db) => n = 11)
    BY <1>1, <1>2, <1>3, UpGoes
  <2>2. ~lostKey => FeesHeld(db)
    BY <1>0, <1>2 DEF Held
  <2>3. n = 11 => Twice(db, PAID)
    <3> SUFFICES ASSUME n = 11 PROVE Twice(db, PAID)
      OBVIOUS
    <3>1. after = Run(db, AddProcessed.up)
      BY <1>1, <1>3, MigrationList
    <3>2. HasStatus(db)
      <4>1. 10 \in 1 .. 13 /\ Good(db, At(10))
        BY <1>3
      <4> QED BY <4>1, LevelStatus
    <3> QED BY <1>3, <3>1, <3>2, ProcessedGoes
  <2> QED BY <2>1, <2>2, <2>3
<1>6. level < 13 /\ after.ok /\ Twice(after, covers) =>
        \/ n = 6 /\ covered = {} /\ Twice(db, FIRST_COVERED)
        \/ n = 8 /\ \E a, b \in DOMAIN db.row : Siblings(a, b) /\ Status(a) = "processing"
  <2> SUFFICES ASSUME level < 13, after.ok, Twice(after, covers)
               PROVE  \/ n = 6 /\ covered = {} /\ Twice(db, FIRST_COVERED)
                      \/ n = 8 /\ \E a, b \in DOMAIN db.row :
                                    Siblings(a, b) /\ StatusIn(db, a) = "processing"
    BY DEF Status
  <2>1. ~Twice(db, covered) /\ covered \in CoveredAt(n - 1)
    BY <1>2, <1>3 DEF Unique
  <2>2. Run(db, Migrations[n].up).ok /\ Twice(Run(db, Migrations[n].up), IndexUp(n))
    BY <1>1, <1>3
  <2> QED BY <1>3, <2>1, <2>2, UpOnce
<1>7. level = 13 /\ gate = "clean" => Went(after, covers)
  <2> SUFFICES ASSUME level = 13, gate = "clean" PROVE Went(after, covers)
    OBVIOUS
  <2>1. ss = draft /\ draft \in Drafts /\ ScanStatements(draft) = {}
    BY <1>0, <1>1 DEF Statements, Settled, Reviewed, Typed
  <2>2. OfLevel(db, Committed)
    BY <1>0, <1>2
  <2>3. after.ok /\ SameStatus(db, after)
    BY <1>1, <1>2, <2>1, <2>2, CleanDraftGoes
  <2>4. covers = covered
    BY <1>1 DEF IndexUp
  <2>5. HasStatus(db)
    <3>1. 13 \in 1 .. 13 /\ Good(db, At(13))
      BY <1>2, LevelGood
    <3> QED BY <3>1, LevelStatus
  <2>6. ~Twice(after, covers)
    BY <1>2, <2>3, <2>4, <2>5, TwiceSame DEF Unique
  <2> QED BY <2>3, <2>6 DEF Went
<1>8. CASE Went(after, covers)
  <2>1. db' = after /\ level' = n /\ refused' = <<>> /\ covered' = covers
    BY <1>1, <1>8 DEF Migrated
  <2>2. after.ok /\ ~Twice(after, covers)
    BY <1>8 DEF Went
  <2>3. KeyedFees(after)
    <3>1. AreStatements(ss)
      <4>1. CASE level < 13
        BY <1>3, <4>1, LevelLeads
      <4>2. CASE level = 13
        BY <1>0, <1>1, <1>2, <4>2, DraftStatements DEF Statements, Typed
      <4> QED BY <1>1, <4>1, <4>2
    <3> QED BY <1>1, <1>2, <2>2, <3>1, RunKeyed
  <2>4. level' <= 13 /\ ~lostKey' => FeesHeld(after)
    BY <1>1, <1>2, <1>4, <2>1, <2>2
  <2>5. Held' /\ KeyedFees(db)'
    BY <1>0, <2>1, <2>3, <2>4, KeptAfter DEF Held
  <2>6. Unique'
    BY <2>1, <2>2 DEF Unique, Twice, StatusIn, Siblings
  <2>7. OnlyKnownRefusals'
    BY <2>1 DEF OnlyKnownRefusals
  <2> QED BY <2>5, <2>6, <2>7 DEF Kept
<1>9. CASE ~Went(after, covers)
  <2>1. db' = db /\ level' = level /\ covered' = covered /\ refused' = <<"up", n>>
    BY <1>1, <1>9 DEF Migrated
  <2>2. Kept'
    BY <1>1, <2>1, KeptSame DEF Settled
  <2>3. refused'[1] # "down" /\ refused'[2] = n
    BY <2>1
  <2>4. \/ n = 14 /\ gate = "approved"
        \/ n \in {4, 10} /\ lostKey
        \/ n = 6 /\ covered = {} /\ Twice(db, FIRST_COVERED)
        \/ n = 8 /\ \E a, b \in DOMAIN db.row : Siblings(a, b) /\ Status(a) = "processing"
        \/ n = 11 /\ Twice(db, PAID)
    <3>1. CASE level < 13
      BY <1>5, <1>6, <1>9, <3>1 DEF Went
    <3>2. CASE level = 13
      BY <1>1, <1>7, <1>9, <3>2
    <3> QED BY <1>1, <3>1, <3>2
  <2>5. n \in {4, 10} => Migrations[n] \in {AddAmount, RestoreAmount}
    BY MigrationList
  <2>6. CASE n = 8 /\ \E a, b \in DOMAIN db.row : Siblings(a, b) /\ Status(a) = "processing"
    <3>1. (\E a, b \in DOMAIN db.row : Siblings(a, b) /\ Status(a) = "processing")'
      BY <2>1, <2>6 DEF Siblings, Status, StatusIn
    <3> QED BY <2>2, <2>3, <2>6, <3>1 DEF OnlyKnownRefusals
  <2>7. CASE n = 14 /\ gate = "approved"
    BY <1>0, <1>1, <2>2, <2>3, <2>7 DEF OnlyKnownRefusals
  <2>8. CASE n \in {4, 10} /\ lostKey
    BY <1>0, <1>1, <2>2, <2>3, <2>5, <2>8 DEF OnlyKnownRefusals
  <2>9. CASE n = 6 /\ covered = {} /\ Twice(db, FIRST_COVERED)
    <3>1. Twice(db, FIRST_COVERED)'
      BY <2>1, <2>9 DEF Twice, StatusIn, Siblings, FIRST_COVERED
    <3> QED BY <2>1, <2>2, <2>3, <2>9, <3>1 DEF OnlyKnownRefusals
  <2>10. CASE n = 11 /\ Twice(db, PAID)
    <3>1. Twice(db, PAID)'
      BY <2>1, <2>10 DEF Twice, StatusIn, Siblings, PAID
    <3> QED BY <2>2, <2>3, <2>10, <3>1 DEF OnlyKnownRefusals
  <2> QED BY <2>4, <2>6, <2>7, <2>8, <2>9, <2>10
<1> QED BY <1>8, <1>9

(* A rollback.                                                              *)
LEMMA HeldDown == Settled /\ Down => Kept' /\ OnlyKnownRefusals'
<1> SUFFICES ASSUME Settled, Down PROVE Kept' /\ OnlyKnownRefusals'
  OBVIOUS
<1>0. Committed = 13 /\ Committed' = 13
  BY LevelsLead
<1>1. PICK ss, after, covers :
        /\ ss = Migrations[level].down /\ after = Run(db, ss) /\ covers = IndexDown(level)
        /\ level \in 1 .. 13
        /\ lostKey' = (lostKey \/ (Migrations[level] = FeeVersioning /\ Version \in DOMAIN db.fees))
        /\ Migrated(after, level - 1, covers)
        /\ ~Went(after, covers) => refused' = <<"down", level>>
  BY <1>0 DEF Down
<1>2. /\ Held /\ KeyedFees(db) /\ Unique /\ covered \in CoveredAt(level)
      /\ OfLevel(db, level) /\ Sound(db)
  BY <1>0, <1>1 DEF Settled, Kept, Reviewed, Typed
<1>3. Good(db, At(level))
  BY <1>2, LevelGood
<1>4. level # 3 => after.ok
  BY <1>1, <1>3, DownGoes
<1>5. ~lostKey' /\ after.ok => FeesHeld(after)
  <2> SUFFICES ASSUME ~lostKey', after.ok PROVE FeesHeld(after)
    OBVIOUS
  <2>1. ~lostKey /\ ~(Migrations[level] = FeeVersioning /\ Version \in DOMAIN db.fees)
    BY <1>1, Zenon
  <2>2. FeesHeld(db)
    BY <1>0, <1>1, <1>2, <2>1 DEF Held
  <2>3. level = 7 => Unversioned(db)
    BY <2>1, MigrationList DEF Unversioned
  <2> QED BY <1>1, <1>3, <2>2, <2>3, DownHeld
<1>6. after.ok /\ Twice(after, covers) => level = 13 /\ Twice(db, {"cancelled"})
  BY <1>1, <1>2, <1>3, DownOnce DEF Unique
<1>7. CASE Went(after, covers)
  <2>1. db' = after /\ level' = level - 1 /\ refused' = <<>> /\ covered' = covers
    BY <1>1, <1>7 DEF Migrated
  <2>2. after.ok /\ ~Twice(after, covers)
    BY <1>7 DEF Went
  <2>3. AreStatements(ss)
    BY <1>1, LevelLeads
  <2>4. KeyedFees(after)
    BY <1>1, <1>2, <2>2, <2>3, RunKeyed
  <2>5. Held' /\ KeyedFees(db)'
    BY <1>5, <2>1, <2>2, <2>4, KeptAfter DEF Held
  <2>6. Unique'
    BY <2>1, <2>2 DEF Unique, Twice, StatusIn, Siblings
  <2>7. OnlyKnownRefusals'
    BY <2>1 DEF OnlyKnownRefusals
  <2> QED BY <2>5, <2>6, <2>7 DEF Kept
<1>8. CASE ~Went(after, covers)
  <2>1. db' = db /\ level' = level /\ covered' = covered /\ refused' = <<"down", level>>
    BY <1>1, <1>8 DEF Migrated
  <2>2. Kept'
    <3>1. Held'
      BY <1>0, <1>1, <1>2, <2>1, KeptAfter DEF Held
    <3>2. KeyedFees(db)'
      BY <1>2, <2>1, KeptAfter
    <3>3. Unique'
      BY <1>2, <2>1 DEF Unique, Twice, StatusIn, Siblings
    <3> QED BY <3>1, <3>2, <3>3 DEF Kept
  <2>3. refused'[1] = "down" /\ refused'[2] = level
    BY <2>1
  <2>4. CASE level = 3
    BY <2>2, <2>3, <2>4, MigrationList DEF OnlyKnownRefusals
  <2>5. CASE level # 3
    <3>1. level = 13 /\ Twice(db, {"cancelled"})
      BY <1>4, <1>6, <1>8, <2>5 DEF Went
    <3>2. Twice(db, {"cancelled"})'
      BY <2>1, <3>1 DEF Twice, StatusIn, Siblings
    <3> QED BY <2>2, <2>3, <3>1, <3>2, MigrationList DEF OnlyKnownRefusals
  <2> QED BY <2>4, <2>5
<1> QED BY <1>7, <1>8

(* A write is not a migration: it only has to keep the fees known and the   *)
(* doubles apart.                                                           *)
LEMMA HeldWrite ==
  ASSUME NEW new, Settled, Writes(new), FeesHeld(db) => FeesHeld(new), KeyedFees(new),
         ~Twice(new, covered)
  PROVE  Kept' /\ OnlyKnownRefusals'
<1>1. /\ db' = new /\ level' = level /\ lostKey' = lostKey /\ refused' = <<>>
      /\ covered' = covered
  BY DEF Writes
<1>2. Committed' = Committed
  BY LevelsLead
<1>3. Held' /\ KeyedFees(db)'
  BY <1>1, <1>2, KeptAfter DEF Settled, Kept, Held
<1>4. Unique'
  BY <1>1 DEF Unique, Twice, StatusIn, Siblings
<1>5. OnlyKnownRefusals'
  BY <1>1 DEF OnlyKnownRefusals
<1> QED BY <1>3, <1>4, <1>5 DEF Kept

(* The index lets one attempt's status be written.                          *)
LEMMA OneWritten ==
  ASSUME NEW e, NEW a, NEW status, Admits(a, status), Unique,
         \A b \in DOMAIN e.row : IF b = a THEN StatusIn(e, b) = status
                                 ELSE b \in DOMAIN db.row /\ StatusIn(e, b) = StatusIn(db, b)
  PROVE  ~Twice(e, covered)
<1> SUFFICES ASSUME NEW b \in DOMAIN e.row, NEW c \in DOMAIN e.row, Siblings(b, c),
                    StatusIn(e, b) \in covered, StatusIn(e, c) \in covered
             PROVE  FALSE
  BY DEF Twice
<1>1. Siblings(c, b) /\ b # c
  BY DEF Siblings
<1>2. CASE b = a
  BY <1>1, <1>2 DEF Admits
<1>3. CASE c = a
  BY <1>1, <1>3 DEF Admits
<1>4. CASE b # a /\ c # a
  BY <1>4 DEF Unique, Twice
<1> QED BY <1>2, <1>3, <1>4

(* The seeds, a new version and the clock,                                  *)
LEMMA HeldSeeds == Settled /\ (Seed \/ AddVersion \/ Pass) => Kept' /\ OnlyKnownRefusals'
<1> SUFFICES ASSUME Settled, Seed \/ AddVersion \/ Pass PROVE Kept' /\ OnlyKnownRefusals'
  OBVIOUS
<1>1. /\ Sound(db) /\ IsDatabase(db) /\ FeesTable = Columns(db)["fees"]
      /\ KeyedFees(db) /\ ~Twice(db, covered)
  BY DEF Settled, Kept, Unique, Reviewed, Typed, Sound, Columns, Tables, FeesTable
<1>2. ASSUME NEW e, e.row = db.row PROVE ~Twice(e, covered)
  BY <1>1, <1>2 DEF Twice, StatusIn
<1>3. CASE Seed
  <2> DEFINE fees == [k \in Keys |-> [key |-> k, amount |-> KnownAmount[k]]]
             e == [db EXCEPT !.fees = fees]
  <2>1. Writes(e) /\ DOMAIN db.fees = {}
    BY <1>3 DEF Seed
  <2>2. FeesHeld(db) => FeesHeld(e)
    BY <1>1, <2>1, SeedHeld
  <2>3. e.fees = fees /\ e.row = db.row
    BY <1>1 DEF IsDatabase
  <2> HIDE DEF e
  <2>4. KeyedFees(e)
    BY <2>3 DEF KeyedFees
  <2> QED BY <1>2, <2>1, <2>2, <2>3, <2>4, HeldWrite
<1>4. CASE AddVersion
  <2> DEFINE new == [key |-> FirstKey, amount |-> "raised"]
             fees == Inserted(db.fees, Version, new)
             e == [db EXCEPT !.fees = fees]
  <2>1. "fee_key" \in Columns(db)["fees"]
    BY <1>1, <1>4 DEF AddVersion
  <2>2. Writes(e)
    <3>1. Writes([db EXCEPT !.fees = Inserted(@, Version, [key |-> FirstKey,
                                                           amount |-> "raised"])])
      BY <1>4 DEF AddVersion
    <3>2. e = [db EXCEPT !.fees = Inserted(@, Version, [key |-> FirstKey, amount |-> "raised"])]
      BY <1>1 DEF IsDatabase
    <3> QED BY <3>1, <3>2
  <2>3. FeesHeld(db) => FeesHeld(e)
    BY <1>1, <2>1, AddVersionHeld
  <2>4. e.fees = fees /\ e.row = db.row
    BY <1>1 DEF IsDatabase
  <2> HIDE DEF e
  <2>5. "key" \in DOMAIN new /\ new.key \in Keys
    BY FeeAssumption
  <2> HIDE DEF new
  <2>6. \A id \in DOMAIN fees : fees[id] = new \/ (id \in DOMAIN db.fees /\ fees[id] = db.fees[id])
    BY DEF Inserted
  <2> HIDE DEF fees
  <2>7. KeyedFees(e)
    BY <1>1, <2>4, <2>5, <2>6 DEF KeyedFees
  <2> QED BY <1>2, <2>2, <2>3, <2>4, <2>7, HeldWrite
<1>5. CASE Pass
  <2> DEFINE e == [db EXCEPT !.day = @ + 1]
  <2>1. Writes(e)
    BY <1>5 DEF Pass
  <2>2. e.fees = db.fees /\ e.tables = db.tables /\ e.row = db.row
    BY <1>1 DEF IsDatabase
  <2> HIDE DEF e
  <2>3. (FeesHeld(db) => FeesHeld(e)) /\ KeyedFees(e)
    BY <1>1, <2>2, RowsHeld DEF KeyedFees
  <2> QED BY <1>2, <2>1, <2>2, <2>3, HeldWrite
<1> QED BY <1>3, <1>4, <1>5

(* a first row, which names a fee of the table,                             *)
LEMMA HeldCreate ==
  ASSUME NEW a \in Attempts, NEW fee \in Keys \cup {Version}, Settled, CreateReceived(a, fee)
  PROVE  Kept' /\ OnlyKnownRefusals'
<1> DEFINE first == [v |-> FirstValues(fee), created |-> db.day, updated |-> db.day]
           rows == Inserted(db.row, a, first)
           e == [db EXCEPT !.row = rows]
<1>1. /\ IsDatabase(db) /\ a \notin DOMAIN db.row /\ MayName(fee) /\ Admits(a, "received")
      /\ Accepts /\ release \in 1 .. Committed /\ KeyedFees(db) /\ Unique
  BY DEF Settled, Kept, Reviewed, Typed, Sound, CreateReceived
<1>2. Writes(e)
  <2>1. e = [db EXCEPT !.row = Inserted(@, a, [v |-> FirstValues(fee), created |-> db.day,
                                               updated |-> db.day])]
    BY <1>1 DEF IsDatabase
  <2> HIDE DEF e
  <2> QED BY <2>1 DEF CreateReceived
<1>3. e.fees = db.fees /\ e.tables = db.tables /\ e.row = rows
  BY <1>1 DEF IsDatabase
<1> HIDE DEF e
<1>4. fee \in Keys \cup DOMAIN db.fees
  BY <1>1 DEF MayName
<1>5. \A c \in FeeNames \cap DOMAIN FirstValues(fee) : FirstValues(fee)[c] = fee
  BY DEF FirstValues, FeeNames
<1>6. FirstValues(fee)["transaction_status"] = "received"
  <2>1. "transaction_status" \in Transactions.has
    <3>1. "transaction_status" \in PortalAt(release)
      BY <1>1, LevelsLead DEF PortalAt, P1, P2, P4, P5, P7, P9, P10
    <3>2. CodeTable.has = PortalAt(release)
      BY <1>1, LevelsLead, SchemaLevels DEF CodeTable, At, State, Sets, Tables, T
    <3> QED BY <1>1, <3>1, <3>2 DEF Accepts, ReadsWork
  <2> QED BY <2>1 DEF FirstValues
<1>7. first.v = FirstValues(fee)
  OBVIOUS
<1> HIDE DEF first
<1>8. /\ DOMAIN rows = {a} \cup DOMAIN db.row /\ rows[a] = first
      /\ \A b \in DOMAIN db.row : rows[b] = db.row[b]
  BY <1>1 DEF Inserted
<1> HIDE DEF rows
<1>9. ASSUME NEW b \in DOMAIN e.row, NEW c \in FeeNames \cap DOMAIN e.row[b].v
      PROVE  \/ e.row[b].v[c] \in Keys \cup DOMAIN db.fees
             \/ b \in DOMAIN db.row /\ c \in DOMAIN db.row[b].v /\ e.row[b].v[c] = db.row[b].v[c]
  <2>1. CASE b = a
    BY <1>3, <1>4, <1>5, <1>7, <1>8, <1>9, <2>1
  <2>2. CASE b # a
    BY <1>3, <1>8, <1>9, <2>2
  <2> QED BY <2>1, <2>2
<1>10. (FeesHeld(db) => FeesHeld(e)) /\ KeyedFees(e)
  BY <1>1, <1>3, <1>9, RowsHeld DEF KeyedFees
<1>11. \A b \in DOMAIN e.row :
         IF b = a THEN StatusIn(e, b) = "received"
         ELSE b \in DOMAIN db.row /\ StatusIn(e, b) = StatusIn(db, b)
  BY <1>3, <1>6, <1>7, <1>8 DEF StatusIn
<1>12. ~Twice(e, covered)
  BY <1>1, <1>11, OneWritten
<1> QED BY <1>2, <1>10, <1>12, HeldWrite

(* and a patch, which names none.                                           *)
LEMMA HeldPatch ==
  ASSUME NEW a \in DOMAIN db.row, NEW v, Settled, DOMAIN v = DOMAIN db.row[a].v,
         \A c \in DOMAIN v : v[c] = db.row[a].v[c] \/ (v[c] # NULL /\ c \notin FeeNames),
         Patch(a, v)
  PROVE  Kept' /\ OnlyKnownRefusals'
<1> DEFINE e == [db EXCEPT !.row[a] = Touch(db, @, v)]
           status == v["transaction_status"]
<1>1. Sound(db) /\ IsDatabase(db) /\ KeyedFees(db) /\ Unique
  BY DEF Settled, Kept, Reviewed, Typed, Sound
<1>2. Writes(e) /\ Admits(a, status)
  BY DEF Patch
<1>3. /\ Sound(e) /\ SameTables(db, e) /\ e.holds = db.holds /\ e.day = db.day
      /\ DOMAIN e.row = DOMAIN db.row
      /\ e.row[a] = Touch(db, db.row[a], v) /\ e.row[a].v = v
      /\ \A b \in DOMAIN db.row \ {a} : e.row[b] = db.row[b]
  BY <1>1, PatchSound
<1>4. e.fees = db.fees
  BY <1>1 DEF IsDatabase
<1> HIDE DEF e
<1>5. e.tables = db.tables
  BY <1>3 DEF SameTables
<1>6. ASSUME NEW b \in DOMAIN e.row, NEW c \in FeeNames \cap DOMAIN e.row[b].v
      PROVE  b \in DOMAIN db.row /\ c \in DOMAIN db.row[b].v /\ e.row[b].v[c] = db.row[b].v[c]
  <2>1. CASE b = a
    BY <1>3, <1>6, <2>1
  <2>2. CASE b # a
    BY <1>3, <1>6, <2>2
  <2> QED BY <2>1, <2>2
<1>7. (FeesHeld(db) => FeesHeld(e)) /\ KeyedFees(e)
  BY <1>1, <1>4, <1>5, <1>6, RowsHeld DEF KeyedFees
<1>8. \A b \in DOMAIN e.row :
        IF b = a THEN StatusIn(e, b) = status
        ELSE b \in DOMAIN db.row /\ StatusIn(e, b) = StatusIn(db, b)
  BY <1>3 DEF StatusIn
<1>9. ~Twice(e, covered)
  BY <1>1, <1>2, <1>8, OneWritten
<1> QED BY <1>2, <1>7, <1>9, HeldWrite

(* The portal's patches,                                                    *)
LEMMA HeldPatches ==
  ASSUME Settled, NEW a
  PROVE  /\ \A token \in Tokens : UpdateToInitiated(a, token) => Kept' /\ OnlyKnownRefusals'
         /\ TryClaim(a) => Kept' /\ OnlyKnownRefusals'
         /\ \A outcome \in PAID \cup {"failed"} :
              UpdateAfterPayGovResponse(a, outcome) => Kept' /\ OnlyKnownRefusals'
         /\ CancelExpired(a) => Kept' /\ OnlyKnownRefusals'
<1>0. /\ "initiated" # NULL /\ "processing" # NULL /\ "cancelled" # NULL /\ "card" # NULL
      /\ \A token \in Tokens : token # NULL
      /\ \A outcome \in PAID \cup {"failed"} : outcome # NULL
      /\ {"transaction_status", "paygov_token", "payment_method"} \cap FeeNames = {}
  BY NotNull, FeeAssumption DEF PAID, FeeNames
<1>1. ASSUME NEW token \in Tokens, UpdateToInitiated(a, token) PROVE Kept' /\ OnlyKnownRefusals'
  <2> DEFINE v == [db.row[a].v EXCEPT !["transaction_status"] = "initiated",
                                      !["paygov_token"] = token]
  <2>1. a \in DOMAIN db.row /\ Patch(a, v)
    BY <1>1 DEF UpdateToInitiated
  <2>2. /\ DOMAIN v = DOMAIN db.row[a].v
        /\ \A c \in DOMAIN v : v[c] = db.row[a].v[c] \/ (v[c] # NULL /\ c \notin FeeNames)
    BY <1>0
  <2> HIDE DEF v
  <2> QED BY <2>1, <2>2, HeldPatch
<1>2. ASSUME NEW outcome \in PAID \cup {"failed"}, UpdateAfterPayGovResponse(a, outcome)
      PROVE  Kept' /\ OnlyKnownRefusals'
  <2> DEFINE v == [db.row[a].v EXCEPT !["transaction_status"] = outcome,
                                      !["payment_method"] = "card"]
  <2>1. a \in DOMAIN db.row /\ Patch(a, v)
    BY <1>2 DEF UpdateAfterPayGovResponse
  <2>2. /\ DOMAIN v = DOMAIN db.row[a].v
        /\ \A c \in DOMAIN v : v[c] = db.row[a].v[c] \/ (v[c] # NULL /\ c \notin FeeNames)
    BY <1>0
  <2> HIDE DEF v
  <2> QED BY <2>1, <2>2, HeldPatch
<1>3. ASSUME NEW status \in {"processing", "cancelled"}, a \in DOMAIN db.row,
             Patch(a, [db.row[a].v EXCEPT !["transaction_status"] = status])
      PROVE  Kept' /\ OnlyKnownRefusals'
  <2> DEFINE v == [db.row[a].v EXCEPT !["transaction_status"] = status]
  <2>1. /\ DOMAIN v = DOMAIN db.row[a].v
        /\ \A c \in DOMAIN v : v[c] = db.row[a].v[c] \/ (v[c] # NULL /\ c \notin FeeNames)
    BY <1>0
  <2>2. a \in DOMAIN db.row /\ Patch(a, v)
    BY <1>3
  <2> HIDE DEF v
  <2> QED BY <2>1, <2>2, HeldPatch
<1>4. /\ TryClaim(a) => Kept' /\ OnlyKnownRefusals'
      /\ CancelExpired(a) => Kept' /\ OnlyKnownRefusals'
  BY <1>3 DEF TryClaim, CancelExpired
<1> QED BY <1>1, <1>2, <1>4

(* Every step keeps the fees known, the doubles apart and the last refusal  *)
(* explained.                                                               *)
LEMMA HeldNext == Settled /\ [Next]_vars => Kept' /\ OnlyKnownRefusals'
<1> SUFFICES ASSUME Settled, [Next]_vars PROVE Kept' /\ OnlyKnownRefusals'
  OBVIOUS
<1>0. Kept /\ OnlyKnownRefusals /\ DraftLevel' = DraftLevel
  BY LevelsLead DEF Settled, DraftLevel
<1>1. ASSUME db' = db, level' = level, lostKey' = lostKey, covered' = covered PROVE Kept'
  BY <1>0, <1>1, KeptSame
<1>2. ASSUME refused' = <<>> PROVE OnlyKnownRefusals'
  BY <1>2 DEF OnlyKnownRefusals
<1>3. ASSUME NEW n \in 1 .. Committed, DeployCode(n) PROVE Kept' /\ OnlyKnownRefusals'
  BY <1>1, <1>2, <1>3 DEF DeployCode
<1>4. ASSUME NEW d \in Drafts, NEW acknowledged \in BOOLEAN, CheckMigrationSafety(d, acknowledged)
      PROVE  Kept' /\ OnlyKnownRefusals'
  BY <1>1, <1>2, <1>4 DEF CheckMigrationSafety
<1>5. ASSUME Approve \/ Done \/ UNCHANGED vars PROVE Kept' /\ OnlyKnownRefusals'
  <2>1. /\ db' = db /\ level' = level /\ lostKey' = lostKey /\ refused' = refused
        /\ covered' = covered
        /\ gate' = gate \/ gate' = "approved"
    BY <1>5 DEF Approve, Done, vars
  <2>2. OnlyKnownRefusals'
    BY <1>0, <2>1 DEF OnlyKnownRefusals, Twice, StatusIn, Siblings, Status, FIRST_COVERED, PAID
  <2> QED BY <1>1, <2>1, <2>2
<1> QED BY <1>3, <1>4, <1>5, HeldUp, HeldDown, HeldSeeds, HeldCreate, HeldPatches DEF Next

(* In every instance whose clean drafts CI ran on the fresh database: a     *)
(* migration up or down is refused on rows the portal wrote, whatever was   *)
(* migrated, rolled back and written before, only for the tokens that       *)
(* 20260407143000's rollback shortens, two cancelled attempts of one        *)
(* obligation that 20260915000000's rollback would both restore, an amount  *)
(* for a version of a fee whose key a rollback dropped, doubles that no     *)
(* index kept apart before the one of 20260424164039 or 20260629120000, a   *)
(* payment made twice before 20260805000000, and a draft that the scan      *)
(* flagged and a human approved.                                            *)
THEOREM RefusalsKnown == TriedDrafts /\ Spec => []OnlyKnownRefusals
<1>1. TriedDrafts /\ Init => Settled
  BY SettledInit
<1>2. Settled /\ [Next]_vars => Settled'
  <2> SUFFICES ASSUME Settled, [Next]_vars PROVE Settled'
    OBVIOUS
  <2>1. Reviewed'
    BY ReviewedNext DEF Settled
  <2>2. Kept' /\ OnlyKnownRefusals'
    BY HeldNext
  <2>3. TriedDrafts'
    BY DEF Settled
  <2> QED BY <2>1, <2>2, <2>3 DEF Settled
<1>3. Settled => OnlyKnownRefusals
  BY DEF Settled
<1> QED BY <1>1, <1>2, <1>3, PTL DEF Spec
===============================================================================
