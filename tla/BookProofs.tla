------------------------------ MODULE BookProofs ------------------------------
(***************************************************************************)
(* The books are complete but for the attempts that went astray: the       *)
(* invariant BooksInv is inductive next to the portal's own IInv, for any  *)
(* number of attempts and Lambda environments and any set of failures.     *)
(***************************************************************************)
EXTENDS PortalBooks, PortalProofs

(* BooksInv request by request and row by row.                              *)
HandOK(i) ==
  /\ pc[i] \in {"persist", "refresh"} /\ answer[i] = "failed" => session[row[i]] = "failed"
  /\ row[i] \notin astray =>
       /\ i \in ProcessEnvs /\ InCompletion(i) =>
            /\ status[row[i]] = "processing"
            /\ pc[i] # "persist" => session[row[i]] \notin Collected
       /\ pc[i] \in {"expire", "fail"} => Unpaid(row[i])
       /\ pc[i] = "expire" /\ status[row[i]] = "initiated" => created[row[i]] >= TokenTTL
       /\ pc[i] = "fail" =>
            /\ status[row[i]] = "processing" => updated[row[i]] <= life[i]
            /\ i \in ProcessEnvs => status[row[i]] \notin {"received", "initiated", "cancelled"}
            /\ i \in InitEnvs => status[row[i]] \notin {"pending", "processed"} /\ ~tracked[row[i]]

RowOK(b) ==
  /\ status[b] = "initiated" => token[b]
  /\ session[b] \in Collected /\ Completing(b) = {} =>
       status[b] \in {"pending", "processed"} \/ b \in astray

LEMMA BooksParts ==
  BooksInv <=> (\A i \in Envs : HandOK(i)) /\ (\A b \in Attempts : RowOK(b))
BY DEF BooksInv, HandOK, RowOK, FailuresFinal, ClaimsHold, RetiresUnpaid, FailsUnpaid,
       TokensRecorded, BooksComplete, InRow, Unpaid, Envs

(* What every step of BooksSpec comes with.                                 *)
Progress ==
  /\ IInv /\ IInv'
  /\ \A i \in Envs : HandOK(i)
  /\ \A b \in Attempts : RowOK(b)
  /\ \A b \in Attempts : b \in astray => b \in astray'
  /\ \A b \in Attempts : Unheard(b) \/ Overtaken(b) \/ Unowned(b) => b \in astray'

(* The requests HandOK says anything of, and what it asks of a step that    *)
(* leaves a request or a row alone.                                         *)
Hot(i) == pc[i] \in {"complete", "retry", "persist", "refresh", "expire", "fail"}
Same(i) == pc'[i] = pc[i] /\ row'[i] = row[i] /\ answer'[i] = answer[i] /\ life'[i] = life[i]
Still(b) ==
  /\ status'[b] = status[b] /\ token'[b] = token[b] /\ tracked'[b] = tracked[b]
  /\ created'[b] = created[b] /\ updated'[b] = updated[b]
Unacted(b) ==
  /\ session'[b] \in Collected => session[b] \in Collected
  /\ session[b] = "failed" => session'[b] = "failed"

LEMMA OnRows == ASSUME IInv, NEW i \in Envs, Hot(i) \/ OnRow(i) PROVE row[i] \in Attempts
BY DEF IInv, TypeOK, EnvsOK, Hot, OnRow

LEMMA HandStays ==
  ASSUME NEW i \in Envs, NEW b, row[i] = b, HandOK(i), Same(i), Still(b), Unacted(b),
         b \in astray => b \in astray', Completing(b) = {} => Completing(b)' = {}
  PROVE  HandOK(i)'
BY DEF HandOK, Same, Still, Unacted, Unpaid, InCompletion, Completing

LEMMA RowStays ==
  ASSUME NEW b \in Attempts, RowOK(b), Still(b), Unacted(b), b \in astray => b \in astray',
         \A i \in ProcessEnvs : InCompletion(i) /\ row[i] = b => InCompletion(i)' /\ row'[i] = b
  PROVE  RowOK(b)'
BY DEF RowOK, Still, Unacted, InCompletion, Completing

(* A step that touches no row but a, and no request off a.                  *)
LEMMA Around ==
  ASSUME Progress, NEW a,
         \A b \in Attempts \ {a} : Still(b) /\ Unacted(b),
         \A i \in Envs : \/ Same(i)
                         \/ /\ InCompletion(i) => row[i] = a
                            /\ Hot(i)' => row'[i] = a,
         \A i \in Envs : Hot(i)' /\ row'[i] = a => HandOK(i)',
         a \in Attempts => RowOK(a)'
  PROVE  BooksInv'
<1>1. ASSUME NEW i \in Envs PROVE HandOK(i)'
  <2>1. CASE Hot(i)' /\ row'[i] = a
    BY <2>1
  <2>2. CASE ~Hot(i)'
    BY <2>2 DEF Hot, HandOK, InCompletion
  <2>3. CASE Hot(i)' /\ row'[i] # a
    <3>0. Same(i) /\ Hot(i) /\ row[i] \in Attempts \ {a}
      BY <2>3, OnRows DEF Progress, Same, Hot
    <3>1. PICK b \in Attempts \ {a} : row[i] = b /\ row'[i] = b
      BY <3>0 DEF Same
    <3>2. Completing(b) = {} => Completing(b)' = {}
      <4> SUFFICES ASSUME NEW s \in ProcessEnvs, InCompletion(s)', row'[s] = b
                   PROVE  InCompletion(s) /\ row[s] = b
        BY DEF Completing, InCompletion
      <4>1. s \in Envs /\ Hot(s)' /\ row'[s] # a
        BY <3>1 DEF Envs, InCompletion, Hot, Same
      <4> QED BY <3>1, <4>1 DEF Same, InCompletion
    <3> QED BY <3>0, <3>1, <3>2, HandStays DEF Progress
  <2> QED BY <2>1, <2>2, <2>3
<1>2. ASSUME NEW b \in Attempts, b # a PROVE RowOK(b)'
  <2>1. \A i \in ProcessEnvs : InCompletion(i) /\ row[i] = b => InCompletion(i)' /\ row'[i] = b
    BY <1>2 DEF Same, InCompletion, Envs
  <2> QED BY <1>2, <2>1, RowStays DEF Progress
<1> QED BY <1>1, <1>2
        DEF BooksInv, HandOK, RowOK, FailuresFinal, ClaimsHold, RetiresUnpaid, FailsUnpaid,
            TokensRecorded, BooksComplete, InRow, Unpaid, Envs

(* A step that changes no row, and takes no request to or from where HandOK *)
(* looks.                                                                   *)
LEMMA NothingHot ==
  ASSUME Progress, UNCHANGED <<status, token, tracked, created, updated>>,
         \A b \in Attempts : Unacted(b),
         \A i \in Envs : Same(i) \/ (~InCompletion(i) /\ ~Hot(i)')
  PROVE  BooksInv'
<1>1. \A i \in Envs : Hot(i)' => row'[i] # NoRow
  BY DEF Progress, IInv, TypeOK, EnvsOK, Hot, Attempts, NoRow
<1>2. NoRow \notin Attempts /\ \A b \in Attempts : Still(b)
  BY DEF Still, Attempts, NoRow
<1>3. \A i \in Envs : \/ Same(i)
                      \/ /\ InCompletion(i) => row[i] = NoRow
                         /\ Hot(i)' => row'[i] = NoRow
  OBVIOUS
<1>4. \A i \in Envs : Hot(i)' /\ row'[i] = NoRow => HandOK(i)'
  BY <1>1
<1> QED BY <1>2, <1>3, <1>4, Around

LEMMA Elsewhere ==
  ASSUME TypeOK, NEW a \in Attempts, NEW s, NEW p, NoRowSet \/ RowSet(a, s, p),
         created' = created,
         token' = token \/ token' = [token EXCEPT ![a] = TRUE],
         tracked' = tracked \/ tracked' = [tracked EXCEPT ![a] = TRUE]
  PROVE  \A b \in Attempts \ {a} : Still(b)
BY DEF NoRowSet, RowSet, Still, TypeOK, TableOK

LEMMA RowTakes ==
  ASSUME TypeOK, NEW a \in Attempts, NEW s, NEW p, RowSet(a, s, p)
  PROVE  status'[a] = s /\ (s # "cancelled" => updated'[a] = 0)
BY DEF RowSet, TypeOK, TableOK

(* No claim is open on a row that is unclaimed or has gone stale.           *)
LEMMA Unclaimed ==
  ASSUME IInv, NEW a \in Attempts,
         status[a] \in {"none", "received", "initiated", "cancelled"} \/ IsStaleProcessing(a)
  PROVE  Completing(a) = {}
<1> SUFFICES ASSUME NEW i \in ProcessEnvs, InCompletion(i), row[i] = a PROVE FALSE
  BY DEF Completing, InCompletion
<1>1. /\ status[a] \notin {"received", "initiated", "cancelled"}
      /\ status[a] = "processing" => updated[a] <= life[i]
  BY DEF IInv, ClaimsAreFresh
<1>2. status[a] # "none"
  BY DEF IInv, RowsInHand, OnRow, InCompletion, Envs
<1>3. updated[a] \in Int /\ life[i] \in 0 .. LambdaTimeout
  BY TimeAssumption DEF IInv, TypeOK, TableOK, EnvsOK, Envs
<1> QED BY <1>1, <1>2, <1>3, TimeAssumption DEF IsStaleProcessing

(* Pay.gov has taken nothing for a row that was never claimed.              *)
LEMMA NotYetTaken ==
  ASSUME IInv, NEW a \in Attempts, status[a] \in {"none", "received", "initiated", "cancelled"}
  PROVE  session[a] \notin Collected
BY DEF IInv, SessionsMatch, Collected

(* ... or whose claim was abandoned before it went astray.                  *)
LEMMA StaleUnpaid ==
  ASSUME Progress, NEW a \in Attempts, a \notin astray, IsStaleProcessing(a)
  PROVE  Unpaid(a)
BY Unclaimed DEF Progress, RowOK, Unpaid, IsStaleProcessing

-----------------------------------------------------------------------------
(* POST /init *)

LEMMA BooksArrives ==
  ASSUME Progress, NEW r \in InitEnvs, InitArrives(r) PROVE BooksInv'
<1>1. r \in Envs /\ UNCHANGED table /\ session' = session /\ TypeOK
  BY DEF InitArrives, InitFindsNone, InitReuses, InitRetires, world, Envs, Progress, IInv
<1>2. /\ UNCHANGED <<status, token, tracked, created, updated>>
      /\ \A b \in Attempts : Unacted(b) /\ Still(b)
  BY <1>1 DEF table, Unacted, Still
<1>3. CASE UNCHANGED envs
  BY <1>2, <1>3, NothingHot DEF envs, Same
<1>4. ASSUME NEW w, NEW a, NEW q, Begin(r, w, a, q)
      PROVE  /\ \A i \in Envs \ {r} : Same(i)
             /\ pc[r] = "idle" /\ pc'[r] = w /\ row'[r] = a
  BY <1>1, <1>4, BeginEffect DEF TypeOK, Others, Same
<1>5. ASSUME NEW w \in {"insert", "cancel"}, NEW a, NEW q, Begin(r, w, a, q) PROVE BooksInv'
  BY <1>2, <1>4, <1>5, NothingHot DEF InCompletion, Hot
<1>6. ASSUME NEW ob \in Obligations, NEW f \in Fees, InitRetires(r, ob, f) PROVE BooksInv'
  <2>1. PICK a \in Attempts :
          /\ Retirable(a)
          /\ Begin(r, IF IsExpiredInitiated(a) THEN "cancel" ELSE "expire", a, <<ob, f>>)
    BY <1>6 DEF InitRetires
  <2>2. CASE IsExpiredInitiated(a)
    BY <1>5, <2>1, <2>2
  <2>3. CASE ~IsExpiredInitiated(a)
    <3>1. /\ \A i \in Envs \ {r} : Same(i)
          /\ pc[r] = "idle" /\ pc'[r] = "expire" /\ row'[r] = a
      BY <1>4, <2>1, <2>3
    <3>2. \A i \in ProcessEnvs : InCompletion(i)' <=> InCompletion(i)
      BY <3>1, EnvAssumption DEF InCompletion, Same, Envs
    <3>3. \A i \in ProcessEnvs : i \in Envs /\ i # r /\ row'[i] = row[i]
      BY <3>1, EnvAssumption DEF Same, Envs
    <3>4. Completing(a)' = Completing(a)
      BY <3>2, <3>3 DEF Completing, InCompletion
    (* A row with its token that is not reused is about to expire. *)
    <3>5. a \in astray \/ Unpaid(a)
      BY <2>1, StaleUnpaid, NotYetTaken, Unclaimed
      DEF Retirable, Busy, Unpaid, Progress
    <3>6. status[a] = "initiated" => created[a] >= TokenTTL
      <4>1. created[a] \in Int /\ TokenTTL \in Int
        BY <1>1, TimeAssumption DEF TypeOK, TableOK
      <4>2. status[a] = "initiated" => token[a]
        BY DEF Progress, RowOK
      <4> QED BY <2>1, <4>1, <4>2 DEF Retirable, Reusable
    <3>7. HandOK(r)'
      BY <1>1, <3>1, <3>4, <3>5, <3>6
      DEF HandOK, Unpaid, InCompletion, table, Progress, Envs
    <3>8. \A i \in Envs : Hot(i)' /\ row'[i] = a => HandOK(i)'
      <4>1. ASSUME NEW i \in Envs, i # r, row'[i] = a PROVE HandOK(i)'
        <5>1. Same(i) /\ row[i] = a
          BY <3>1, <4>1 DEF Same
        <5>2. a \in astray => a \in astray'
          BY DEF Progress
        <5>3. HandOK(i) /\ Still(a) /\ Unacted(a)
          BY <1>2 DEF Progress
        <5> QED BY <3>4, <5>1, <5>2, <5>3, HandStays
      <4> QED BY <3>7, <4>1
    <3>9. RowOK(a)'
      BY <1>1, <3>4 DEF RowOK, table, Progress
    <3> QED BY <1>2, <3>1, <3>8, <3>9, Around DEF InCompletion
  <2> QED BY <2>1, <2>2, <2>3
<1> QED BY <1>3, <1>5, <1>6 DEF InitArrives, InitFindsNone, InitReuses

(* What the writes of POST /init and POST /process have in common: one row, *)
(* and one request that leaves or moves on.                                 *)
LEMMA OnlyMine ==
  ASSUME NEW r \in Envs, Leaves(r) \/ \E w : Moves(r, w)
  PROVE  /\ \A i \in Envs \ {r} : Same(i)
         /\ Leaves(r) => ~Hot(r)' /\ ~InCompletion(r)'
         /\ \A w : Moves(r, w) => pc'[r] = w /\ row'[r] = row[r] /\ life'[r] = life[r]
BY DEF Leaves, Moves, Others, Same, Hot, InCompletion

LEMMA BooksCancels ==
  ASSUME Progress, NEW r \in InitEnvs, CancelFound(r) PROVE BooksInv'
<1>0. row[r] \in Attempts
  BY CancelEffect DEF Progress, IInv
<1>a. PICK a \in Attempts : a = row[r]
  BY <1>0
<1>1. /\ TypeOK /\ r \in Envs /\ a \in Attempts /\ pc[r] = "cancel" /\ Rest /\ Leaves(r)
      /\ NoRowSet \/ (status[a] = "initiated" /\ RowSet(a, "cancelled", "failed"))
  BY <1>a, CancelEffect DEF Progress, IInv
<1>2. /\ \A b \in Attempts \ {a} : Still(b)
      /\ \A b \in Attempts : Unacted(b)
  BY <1>1, Elsewhere DEF Rest, Unacted
<1>3. \A i \in Envs \ {r} : Same(i)
  BY <1>1, OnlyMine
<1>4. CASE NoRowSet
  <2>1. UNCHANGED <<status, token, tracked, created, updated>>
    BY <1>1, <1>4 DEF Rest, NoRowSet
  <2> QED BY <1>1, <1>2, <1>3, <2>1, NothingHot, OnlyMine DEF InCompletion
<1>5. CASE status[a] = "initiated" /\ RowSet(a, "cancelled", "failed")
  <2>1. status'[a] = "cancelled" /\ session'[a] = session[a] /\ tracked'[a] = tracked[a]
    BY <1>1, <1>5, RowTakes DEF Rest
  <2>2. session'[a] \notin Collected /\ Completing(a)' = {} /\ Completing(a) = {}
    BY <1>1, <1>5, <2>1, Unclaimed, NotYetTaken
    DEF Progress, IInv, CancelledNeverCollected, Collected
  <2>3. ASSUME NEW i \in Envs, Hot(i)', row'[i] = a PROVE HandOK(i)'
    <3>1. Same(i)
      BY <1>1, <1>3, <2>3, OnlyMine
    <3>2. ~(i \in ProcessEnvs /\ InCompletion(i)')
      BY <2>2, <2>3 DEF Completing, InCompletion
    <3> QED BY <1>1, <1>5, <2>1, <2>2, <2>3, <3>1, <3>2
            DEF HandOK, Same, Unpaid, Progress
  <2>4. RowOK(a)'
    BY <2>1, <2>2 DEF RowOK
  <2> QED BY <1>1, <1>2, <1>3, <2>3, <2>4, Around, OnlyMine DEF InCompletion
<1> QED BY <1>1, <1>4, <1>5

(* A row that a request fails is unpaid, or astray already.                 *)
LEMMA BooksFails ==
  ASSUME Progress, NEW r \in Envs, ExpireFound(r) \/ MarkFailed(r) PROVE BooksInv'
<1>0. row[r] \in Attempts
  BY FailEffect DEF Progress, IInv
<1>a. PICK a \in Attempts : a = row[r]
  BY <1>0
<1>1. /\ TypeOK /\ a \in Attempts /\ pc[r] \in {"expire", "fail"} /\ Rest /\ Leaves(r)
      /\ NoRowSet \/ RowSet(a, "failed", "failed")
  BY <1>a, FailEffect DEF Progress, IInv
<1>2. /\ \A b \in Attempts \ {a} : Still(b)
      /\ \A b \in Attempts : Unacted(b)
  BY <1>1, Elsewhere DEF Rest, Unacted
<1>3. \A i \in Envs \ {r} : Same(i)
  BY <1>1, OnlyMine
<1>4. \/ Still(a)
      \/ status'[a] = "failed" /\ tracked'[a] = tracked[a]
  BY <1>1, RowTakes DEF NoRowSet, Rest, Still
<1>5. a \in astray \/ Unpaid(a)
  BY <1>a, <1>1 DEF Progress, HandOK
<1>6. ~Hot(r)' /\ ~InCompletion(r)' /\ ~InCompletion(r)
  BY <1>1, OnlyMine DEF InCompletion
<1>7. Completing(a) = {} => Completing(a)' = {}
  BY <1>3, <1>6 DEF Completing, InCompletion, Same, Envs
<1>8. ASSUME NEW i \in Envs, Hot(i)', row'[i] = a PROVE HandOK(i)'
  <2>1. Same(i) /\ row[i] = a
    BY <1>3, <1>6, <1>8 DEF Same
  <2>2. i \in ProcessEnvs /\ InCompletion(i) => i \in Completing(a)
    BY <2>1 DEF Completing, InCompletion
  <2> QED BY <1>1, <1>2, <1>4, <1>5, <1>7, <2>1, <2>2
          DEF HandOK, Same, Still, Unacted, Unpaid, InCompletion, Progress
<1>9. RowOK(a)'
  BY <1>1, <1>2, <1>4, <1>5 DEF RowOK, Still, Unacted, Unpaid, Progress
<1> QED BY <1>1, <1>2, <1>3, <1>6, <1>8, <1>9, Around

(* Nobody else is on a row before its token is recorded.                    *)
LEMMA BooksInserts ==
  ASSUME Progress, NEW r \in InitEnvs, InsertReceived(r) PROVE BooksInv'
<1>1. /\ TypeOK /\ r \in Envs /\ pc[r] = "insert"
      /\ UNCHANGED <<token, tracked, created, session, handed>>
  BY InsertEffect DEF Progress, IInv
<1>2. \A b \in Attempts : Unacted(b)
  BY <1>1 DEF Unacted
<1>3. CASE Leaves(r) /\ NoRowSet
  BY <1>1, <1>2, <1>3, NothingHot, OnlyMine DEF InCompletion, NoRowSet
<1>4. ASSUME NEW a \in Attempts, status[a] = "none", RowSet(a, "received", "pending"),
             Leaves(r) \/ (Others(r) /\ pc'[r] = "start" /\ row'[r] = a)
      PROVE  BooksInv'
  <2>1. status'[a] = "received" /\ session'[a] \notin Collected
    BY <1>1, <1>4, RowTakes, NotYetTaken DEF Progress
  <2>2. \A b \in Attempts \ {a} : Still(b)
    BY <1>1, <1>4, Elsewhere
  <2>3. /\ \A i \in Envs \ {r} : Same(i)
        /\ ~Hot(r)' /\ ~InCompletion(r)
    BY <1>1, <1>4, OnlyMine DEF Others, Same, Hot, InCompletion
  <2>4. \A i \in Envs : Hot(i)' => row'[i] # a
    BY <1>4, <2>3 DEF Progress, IInv, RowsInHand, OnRow, Same, Hot
  <2>5. RowOK(a)'
    BY <2>1 DEF RowOK
  <2> QED BY <1>2, <2>2, <2>3, <2>4, <2>5, Around
<1> QED BY <1>1, <1>3, <1>4, InsertEffect DEF Progress, IInv

LEMMA AloneBefore ==
  ASSUME IInv, NEW r \in Envs, Inserting(r)
  PROVE  /\ row[r] \in Attempts /\ status[row[r]] = "received" /\ ~tracked[row[r]]
         /\ Completing(row[r]) = {} /\ session[row[r]] \notin Collected
         /\ \A i \in Envs \ {r} : OnRow(i) => row[i] # row[r]
<1>1. row[r] \in Attempts /\ OnRow(r)
  BY OnRows DEF Inserting, OnRow
<1>2. status[row[r]] = "received" /\ \A i \in Envs \ {r} : OnRow(i) => row[i] # row[r]
  BY <1>1 DEF IInv, RowsInHand
<1>3. ~tracked[row[r]]
  BY <1>1, <1>2 DEF IInv, TrackedRows
<1> QED BY <1>1, <1>2, <1>3, Unclaimed, NotYetTaken

LEMMA BooksStarts ==
  ASSUME Progress, NEW r \in InitEnvs, StartSession(r) PROVE BooksInv'
<1>0. r \in Envs /\ r \notin ProcessEnvs /\ Inserting(r) /\ UNCHANGED table /\ TypeOK
  BY EnvAssumption DEF StartSession, Inserting, Envs, Progress, IInv
<1>a. PICK a \in Attempts : a = row[r]
  BY <1>0, AloneBefore DEF Progress
<1>1. /\ status[a] = "received" /\ ~tracked[a] /\ Completing(a) = {}
      /\ session[a] \notin Collected /\ session[a] # "failed"
      /\ \A i \in Envs \ {r} : OnRow(i) => row[i] # a
  BY <1>0, <1>a, AloneBefore DEF Progress, IInv, SessionsMatch
<1>2. Moves(r, "record") \/ Moves(r, "fail")
  BY <1>0, GotoEffect DEF StartSession, TypeOK
<1>3. session' \in {session, [session EXCEPT ![a] = "open"]}
  BY <1>a DEF StartSession
<1>4. /\ \A b \in Attempts : Still(b)
      /\ \A b \in Attempts : Unacted(b)
      /\ session'[a] \notin Collected
  BY <1>0, <1>1, <1>3 DEF table, Still, Unacted, Collected, TypeOK, WorldOK
<1>5. /\ \A i \in Envs \ {r} : Same(i)
      /\ row'[r] = a /\ pc'[r] \in {"record", "fail"}
  BY <1>a, <1>0, <1>2, OnlyMine
<1>6. Completing(a)' = {}
  BY <1>0, <1>1, <1>5 DEF Completing, InCompletion, Same, Envs, OnRow
<1>7. ASSUME NEW i \in Envs, Hot(i)', row'[i] = a PROVE HandOK(i)'
  <2>1. i = r
    BY <1>1, <1>5, <1>7 DEF Same, Hot, OnRow
  <2> QED BY <1>0, <1>1, <1>4, <1>5, <1>6, <2>1 DEF HandOK, Unpaid, table
<1>8. RowOK(a)'
  BY <1>0, <1>1, <1>4 DEF RowOK, table
<1>9. ~InCompletion(r) \/ row[r] = a
  BY <1>a
<1> QED BY <1>4, <1>5, <1>7, <1>8, <1>9, Around

LEMMA BooksRecords ==
  ASSUME Progress, NEW r \in InitEnvs, RecordToken(r) PROVE BooksInv'
<1>0. r \in Envs /\ r \notin ProcessEnvs /\ Inserting(r) /\ TypeOK
  BY EnvAssumption DEF RecordToken, Inserting, Envs, Progress, IInv
<1>a. PICK a \in Attempts : a = row[r]
  BY <1>0, AloneBefore DEF Progress
<1>1. /\ status[a] = "received" /\ ~tracked[a] /\ Completing(a) = {}
      /\ session[a] \notin Collected
      /\ \A i \in Envs \ {r} : OnRow(i) => row[i] # a
  BY <1>0, <1>a, AloneBefore DEF Progress
<1>2. /\ UNCHANGED <<tracked, created, session>>
      /\ NoRowSet \/ RowSet(a, "initiated", payment[a])
      /\ Leaves(r) \/ Moves(r, "fail")
  BY <1>a, <1>0, RecordEffect
<1>3. \/ UNCHANGED <<status, token>>
      \/ token' = [token EXCEPT ![a] = TRUE]
  BY <1>a DEF RecordToken, Write, table
<1>4. /\ \A b \in Attempts \ {a} : Still(b)
      /\ \A b \in Attempts : Unacted(b)
  BY <1>0, <1>2, <1>3, Elsewhere DEF Unacted
<1>5. /\ \A i \in Envs \ {r} : Same(i)
      /\ ~Hot(r)' \/ (row'[r] = a /\ pc'[r] = "fail")
      /\ ~InCompletion(r)'
  BY <1>a, <1>0, <1>2, OnlyMine DEF InCompletion
<1>6. Completing(a)' = {}
  BY <1>0, <1>1, <1>5 DEF Completing, InCompletion, Same, Envs, OnRow
<1>7. status'[a] \in {"received", "initiated"} /\ (status'[a] = "initiated" => token'[a])
  BY <1>0, <1>1, <1>2, <1>3, RowTakes DEF NoRowSet, TypeOK, TableOK
<1>8. ASSUME NEW i \in Envs, Hot(i)', row'[i] = a PROVE HandOK(i)'
  <2>1. i = r
    BY <1>1, <1>5, <1>8 DEF Same, Hot, OnRow
  <2> QED BY <1>0, <1>1, <1>2, <1>5, <1>6, <1>7, <1>8, <2>1 DEF HandOK, Unpaid
<1>9. RowOK(a)'
  BY <1>1, <1>2, <1>7 DEF RowOK
<1> QED BY <1>a, <1>4, <1>5, <1>8, <1>9, Around

-----------------------------------------------------------------------------
(* POST /process *)

(* Of a row that went astray nothing more is asked than that a refusal of   *)
(* Pay.gov's is final.                                                      *)
LEMMA AstrayHand ==
  ASSUME Progress, NEW a \in Attempts, a \in astray', NEW i \in Envs, row'[i] = a, Same(i),
         Unacted(a)
  PROVE  HandOK(i)'
BY DEF Progress, HandOK, Same, Unacted

LEMMA BooksLoads ==
  ASSUME Progress, NEW r \in ProcessEnvs, NEW a \in Attempts, ProcessLoad(r, a) PROVE BooksInv'
<1>1. /\ r \in Envs /\ UNCHANGED <<table, world>> /\ TypeOK /\ pc[r] = "idle" /\ row'[r] = a
      /\ Others(r) /\ (pc'[r] = "claim" \/ ("fee" \in faults /\ pc'[r] = "fail"))
  BY BeginEffect DEF ProcessLoad, TypeOK, Envs, Progress, IInv
<1>2. /\ \A b \in Attempts : Still(b) /\ Unacted(b)
      /\ \A i \in Envs \ {r} : Same(i)
  BY <1>1 DEF table, world, Still, Unacted, Others, Same
<1>3. CASE pc'[r] = "claim"
  <2>1. UNCHANGED <<status, token, tracked, created, updated>>
    BY <1>1 DEF table
  <2> QED BY <1>1, <1>2, <1>3, <2>1, NothingHot DEF InCompletion, Hot
<1>4. CASE "fee" \in faults /\ pc'[r] = "fail"
  <2>1. a \in astray'
    BY <1>1, <1>4 DEF Unowned, Progress
  <2>2. ASSUME NEW i \in Envs, Hot(i)', row'[i] = a PROVE HandOK(i)'
    <3>1. CASE i = r
      BY <1>4, <2>1, <2>2, <3>1 DEF HandOK
    <3>2. CASE i # r
      BY <1>2, <2>1, <2>2, <3>2, AstrayHand
    <3> QED BY <3>1, <3>2
  <2>3. RowOK(a)'
    BY <1>2, <2>1 DEF RowOK, Still, Progress
  <2> QED BY <1>1, <1>2, <2>2, <2>3, Around DEF InCompletion
<1> QED BY <1>1, <1>3, <1>4

LEMMA BooksLocks ==
  ASSUME Progress, NEW r \in ProcessEnvs, ClaimLock(r) PROVE BooksInv'
<1>1. /\ r \in Envs /\ UNCHANGED <<table, world>> /\ pc[r] = "claim"
      /\ Leaves(r) \/ Moves(r, "locked")
  BY GotoEffect, FinishEffect DEF ClaimLock, TypeOK, Envs, Progress, IInv
<1>2. UNCHANGED <<status, token, tracked, created, updated>> /\ \A b \in Attempts : Unacted(b)
  BY <1>1 DEF table, world, Unacted
<1>3. ~Hot(r)' /\ ~InCompletion(r) /\ \A i \in Envs \ {r} : Same(i)
  BY <1>1, OnlyMine DEF Hot, InCompletion
<1> QED BY <1>2, <1>3, NothingHot

(* A row in the hands of a request that fails it cannot be claimed, nor one *)
(* under a claim be retired or failed, but for what went astray.            *)
LEMMA FailsNotClaimable ==
  ASSUME Progress, NEW i \in ProcessEnvs, pc[i] = "fail", row[i] \notin astray
  PROVE  ~Claimable(row[i])
<1>1. i \in Envs /\ row[i] \in Attempts
  BY OnRows DEF Progress, Envs, Hot
<1>2. /\ status[row[i]] # "initiated"
      /\ status[row[i]] = "processing" => updated[row[i]] <= life[i]
  BY <1>1 DEF Progress, HandOK
<1>3. updated[row[i]] \in Int /\ life[i] \in 0 .. LambdaTimeout
  BY <1>1, TimeAssumption DEF Progress, IInv, TypeOK, TableOK, EnvsOK
<1> QED BY <1>2, <1>3, TimeAssumption DEF Claimable, IsStaleProcessing

LEMMA InitNotStale ==
  ASSUME Progress, NEW i \in InitEnvs, pc[i] = "fail", row[i] \notin astray
  PROVE  ~IsStaleProcessing(row[i])
<1>1. i \in Envs /\ row[i] \in Attempts
  BY OnRows DEF Progress, Envs, Hot
<1>2. status[row[i]] = "processing" => updated[row[i]] <= life[i]
  BY <1>1 DEF Progress, HandOK
<1>3. updated[row[i]] \in Int /\ life[i] \in 0 .. LambdaTimeout
  BY <1>1, TimeAssumption DEF Progress, IInv, TypeOK, TableOK, EnvsOK
<1> QED BY <1>2, <1>3, TimeAssumption DEF IsStaleProcessing

LEMMA BooksClaims ==
  ASSUME Progress, NEW r \in ProcessEnvs, ClaimDecide(r) PROVE BooksInv'
<1>0. r \in Envs /\ row[r] \in Attempts /\ pc[r] = "locked" /\ TypeOK
  BY ClaimEffect DEF Progress, IInv
<1>a. PICK a \in Attempts : a = row[r]
  BY <1>0
<1>1. /\ Rest
      /\ \/ NoRowSet /\ Leaves(r)
         \/ /\ Claimable(a) /\ RowSet(a, "processing", payment[a])
            /\ Leaves(r) \/ Moves(r, "complete")
  BY <1>a, <1>0, ClaimEffect
<1>2. /\ \A b \in Attempts \ {a} : Still(b)
      /\ \A b \in Attempts : Unacted(b)
  BY <1>0, <1>1, Elsewhere DEF Rest, Unacted
<1>3. \A i \in Envs \ {r} : Same(i)
  BY <1>0, <1>1, OnlyMine
<1>4. CASE NoRowSet /\ Leaves(r)
  <2>1. UNCHANGED <<status, token, tracked, created, updated>>
    BY <1>1, <1>4 DEF Rest, NoRowSet
  <2>2. ~Hot(r)' /\ ~InCompletion(r)
    BY <1>0, <1>4, OnlyMine DEF InCompletion
  <2> QED BY <1>2, <1>3, <2>1, <2>2, NothingHot
<1>5. CASE /\ Claimable(a) /\ RowSet(a, "processing", payment[a])
           /\ Leaves(r) \/ Moves(r, "complete")
  <2>1. /\ status'[a] = "processing" /\ updated'[a] = 0
        /\ session'[a] = session[a] /\ tracked'[a] = tracked[a]
    BY <1>0, <1>1, <1>5, RowTakes DEF Rest
  <2>2. /\ ~Hot(r)' \/ (pc'[r] = "complete" /\ row'[r] = a)
        /\ ~InCompletion(r)
    BY <1>a, <1>0, <1>5, OnlyMine DEF InCompletion
  <2>3. a \notin astray => Unpaid(a)
    BY <1>5, StaleUnpaid, Unclaimed, NotYetTaken DEF Claimable, Unpaid, Progress
  (* Whoever is about to retire or fail the row makes the claim one that  *)
  (* went astray.                                                         *)
  <2>4. ASSUME NEW i \in Envs, pc[i] \in {"expire", "fail"}, row[i] = a, a \notin astray',
               pc'[r] = "complete"
        PROVE  FALSE
    <3>1. Claimed(a) /\ a \notin astray
      BY <1>a, <1>0, <2>4 DEF Claimed, Progress
    <3>2. i \in InitEnvs
      BY <1>5, <2>4, <3>1, FailsNotClaimable DEF Progress, IInv, RoleOf, Envs
    <3>3. CASE pc[i] = "expire"
      <4>1. created[a] \in Int /\ TokenTTL \in Int
        BY <1>0, TimeAssumption DEF TypeOK, TableOK
      <4>2. status[a] = "initiated" => created[a] >= TokenTTL /\ created[a] <= TokenTTL
        BY <1>5, <2>4, <3>1, <3>3 DEF Progress, HandOK, Claimable
      <4>3. Overtaken(a)
        BY <1>5, <2>4, <3>1, <3>2, <3>3, <4>1, <4>2 DEF Overtaken, Claimable
      <4> QED BY <2>4, <4>3 DEF Progress
    <3>4. CASE pc[i] = "fail"
      <4>1. status[a] = "initiated"
        BY <1>5, <2>4, <3>1, <3>2, <3>4, InitNotStale DEF Claimable
      <4>2. Unowned(a)
        BY <2>4, <3>1, <3>2, <3>4, <4>1 DEF Unowned
      <4> QED BY <2>4, <4>2 DEF Progress
    <3> QED BY <2>4, <3>3, <3>4
  <2>5. pc'[r] # "complete" => (Completing(a) = {} => Completing(a)' = {})
    <3>1. pc'[r] # "complete" => ~InCompletion(r)'
      BY <2>2 DEF Hot, InCompletion
    <3> QED BY <1>3, <3>1 DEF Completing, InCompletion, Same, Envs
  <2>6. ASSUME NEW i \in Envs, Hot(i)', row'[i] = a PROVE HandOK(i)'
    <3>1. CASE i = r
      BY <1>a, <2>1, <2>2, <2>3, <2>6, <3>1 DEF HandOK, InCompletion, Unpaid, Progress
    <3>2. CASE i # r /\ a \in astray'
      BY <1>2, <1>3, <2>6, <3>2, AstrayHand
    <3>3. CASE i # r /\ a \notin astray'
      <4>1. Same(i) /\ row[i] = a /\ a \notin astray
        BY <1>3, <2>6, <3>3 DEF Same, Progress
      <4>2. ~(i \in ProcessEnvs /\ InCompletion(i))
        BY <2>3, <4>1 DEF Unpaid, Completing, InCompletion
      <4>3. pc[i] = "fail" => i \notin ProcessEnvs
        BY <1>5, <4>1, FailsNotClaimable
      <4>4. life[i] \in Nat
        BY <1>0, TimeAssumption DEF TypeOK, EnvsOK
      <4>5. pc[i] \in {"expire", "fail"} => Unpaid(a) /\ Completing(a)' = {}
        BY <2>3, <2>4, <2>5, <3>3, <4>1 DEF Unpaid
      <4>6. pc[i] = "fail" /\ i \in InitEnvs => ~tracked[a]
        BY <4>1 DEF Progress, HandOK
      <4> QED BY <1>2, <2>1, <4>1, <4>2, <4>3, <4>4, <4>5, <4>6
              DEF HandOK, Same, Unacted, Unpaid, InCompletion, Progress
    <3> QED BY <3>1, <3>2, <3>3
  <2>7. RowOK(a)'
    BY <2>1, <2>3 DEF RowOK, Unpaid, Progress
  <2> QED BY <1>a, <1>2, <1>3, <2>2, <2>6, <2>7, Around
<1> QED BY <1>1, <1>4, <1>5

(* Until a row goes astray its claimant is alone on it.                     *)
LEMMA AloneOnClaim ==
  ASSUME Progress, NEW r \in ProcessEnvs, InCompletion(r), row[r] \notin astray
  PROVE  /\ row[r] \in Attempts /\ status[row[r]] = "processing" /\ ~tracked[row[r]]
         /\ pc[r] # "persist" => session[row[r]] \notin Collected
         /\ updated[row[r]] <= life[r]
         /\ \A i \in Envs \ {r} : row[i] = row[r] =>
              /\ ~(i \in ProcessEnvs /\ InCompletion(i))
              /\ pc[i] \notin {"expire", "fail"}
<1>1. r \in Envs /\ row[r] \in Attempts
  BY OnRows DEF Progress, Envs, OnRow, InCompletion
<1>2. /\ status[row[r]] = "processing"
      /\ pc[r] # "persist" => session[row[r]] \notin Collected
  BY <1>1 DEF Progress, HandOK
<1>3. updated[row[r]] <= life[r] /\ ~tracked[row[r]]
  BY <1>1, <1>2 DEF Progress, IInv, ClaimsAreFresh, TrackedRows
<1>4. r \in Completing(row[r])
  BY DEF Completing, InCompletion
<1>5. \A i \in ProcessEnvs : InCompletion(i) /\ row[i] = row[r] => i = r
  BY <1>1, <1>4 DEF Progress, IInv, ExclusiveCompletion, Completing, InCompletion
<1>6. \A i \in Envs : row[i] = row[r] => pc[i] \notin {"expire", "fail"}
  BY <1>4 DEF Progress, HandOK, Unpaid
<1> QED BY <1>1, <1>2, <1>3, <1>5, <1>6

LEMMA BooksCompletes ==
  ASSUME Progress, NEW r \in ProcessEnvs, Complete(r) PROVE BooksInv'
<1>0. /\ r \in Envs /\ row[r] \in Attempts /\ pc[r] \in {"complete", "retry"} /\ TypeOK
      /\ InCompletion(r) /\ UNCHANGED <<table, faults>>
  BY OnRows DEF Complete, Progress, IInv, Envs, InCompletion, OnRow
<1>a. PICK a \in Attempts : a = row[r]
  BY <1>0
<1>1. session' = session \/ session' \in Acts(a)
  BY <1>a DEF Complete
<1>2. /\ \A b \in Attempts \ {a} : Unacted(b)
      /\ session[a] = "failed" => session'[a] = "failed"
      /\ \A b \in Attempts : Still(b)
  BY <1>0, <1>1 DEF Acts, Unacted, Still, table, TypeOK, WorldOK
<1>3. /\ \A i \in Envs \ {r} : Same(i)
      /\ row'[r] = a /\ life'[r] = life[r]
      /\ \/ pc'[r] \in {"fail", "retry"}
         \/ /\ pc'[r] = "persist"
            /\ \E raw \in Reports(session'[a]) : answer'[r] = ParseTransactionStatus(raw)
  BY <1>a, <1>0, GotoEffect, GotoWithEffect DEF Complete, Moves, Others, Same, TypeOK
<1>4. pc'[r] = "persist" /\ answer'[r] = "failed" => session'[a] = "failed"
  BY <1>3, ParseReports
(* Only an answer that does not arrive leaves a payment unrecorded.         *)
<1>5. pc'[r] # "persist" /\ a \notin astray' => session'[a] \notin Collected
  <2>1. a \notin astray' => session[a] \notin Collected
    BY <1>a, <1>0, AloneOnClaim DEF Progress
  <2>2. faults = {} /\ pc'[r] # "persist" => session' = session
    BY <1>0 DEF Complete, GotoWith, TypeOK, EnvsOK
  <2>3. faults # {} /\ pc'[r] # "persist" /\ session[a] \notin Collected
          /\ session'[a] \in Collected => a \in astray'
    BY <1>a, <1>0 DEF Unheard, Progress
  <2> QED BY <2>1, <2>2, <2>3
<1>6. \A i \in Envs \ {r} : row[i] = a /\ a \notin astray' =>
        ~(i \in ProcessEnvs /\ InCompletion(i)) /\ pc[i] \notin {"expire", "fail"}
  BY <1>a, <1>0, AloneOnClaim DEF Progress
<1>7. ASSUME NEW i \in Envs, Hot(i)', row'[i] = a PROVE HandOK(i)'
  <2>1. CASE i # r
    <3>1. Same(i) /\ row[i] = a
      BY <1>3, <1>7, <2>1 DEF Same
    <3> QED BY <1>2, <1>6, <2>1, <3>1 DEF HandOK, Same, Progress, InCompletion
  <2>2. CASE i = r /\ a \notin astray'
    <3>1. /\ status[a] = "processing" /\ updated[a] <= life[r]
          /\ r \notin InitEnvs /\ status' = status /\ updated' = updated
      BY <1>a, <1>0, <2>2, AloneOnClaim, EnvAssumption DEF Progress, table
    <3>2. pc'[r] = "fail" => Completing(a)' = {}
      BY <1>3, <1>6, <2>2 DEF Completing, InCompletion, Same, Envs
    <3> QED BY <1>3, <1>4, <1>5, <2>2, <3>1, <3>2 DEF HandOK, InCompletion, Unpaid
  <2>3. CASE i = r /\ a \in astray'
    BY <1>3, <1>4, <2>3 DEF HandOK
  <2> QED BY <2>1, <2>2, <2>3
<1>8. RowOK(a)'
  <2>1. pc'[r] = "persist" => Completing(a)' # {}
    BY <1>3 DEF Completing
  <2>2. status'[a] = "initiated" => token'[a]
    BY <1>2 DEF Still, Progress, RowOK
  <2> QED BY <1>5, <2>1, <2>2 DEF RowOK
<1> QED BY <1>a, <1>2, <1>3, <1>7, <1>8, Around

LEMMA BooksPersists ==
  ASSUME Progress, NEW r \in ProcessEnvs, Persist(r) PROVE BooksInv'
<1>0. /\ r \in Envs /\ row[r] \in Attempts /\ pc[r] = "persist" /\ TypeOK
      /\ InCompletion(r) /\ answer[r] \in {"pending", "processed", "failed"}
  BY PersistEffect DEF Progress, IInv, TypeOK, EnvsOK, InCompletion
<1>a. PICK a \in Attempts : a = row[r]
  BY <1>0
<1>1. /\ UNCHANGED <<token, created, session>>
      /\ Leaves(r) \/ Moves(r, "fail")
      /\ \/ NoRowSet /\ tracked' = tracked
         \/ /\ status[a] = "processing"
            /\ RowSet(a, answer[r], DeriveSingle(answer[r]))
            /\ tracked' = [tracked EXCEPT ![a] = TRUE]
  BY <1>a, <1>0, PersistEffect
<1>2. /\ \A b \in Attempts \ {a} : Still(b)
      /\ \A b \in Attempts : Unacted(b)
  BY <1>0, <1>1, Elsewhere DEF Unacted
<1>3. /\ \A i \in Envs \ {r} : Same(i)
      /\ pc'[r] = "idle" \/ (pc'[r] = "fail" /\ row'[r] = a /\ life'[r] = life[r])
  BY <1>a, <1>0, <1>1, OnlyMine DEF Leaves
<1>4. (status'[a] = status[a] /\ updated'[a] = updated[a]) \/ status'[a] = answer[r]
  BY <1>0, <1>1, RowTakes DEF NoRowSet
<1>5. a \notin astray' => status[a] = "processing"
  BY <1>a, <1>0, AloneOnClaim DEF Progress
(* An answer that Pay.gov took the money is written down, or lost.          *)
<1>6. a \notin astray' /\ session[a] \in Collected =>
        pc'[r] = "idle" /\ status'[a] \in {"pending", "processed"}
  <2> SUFFICES ASSUME a \notin astray', session[a] \in Collected
               PROVE  pc'[r] = "idle" /\ status'[a] \in {"pending", "processed"}
    OBVIOUS
  <2>1. answer[r] \in {"pending", "processed"}
    BY <1>a, <1>0 DEF Progress, HandOK, Collected
  <2>2. CASE faults = {}
    <3>1. Patch(a, answer[r], DeriveSingle(answer[r])) /\ Finish(r)
      BY <1>a, <1>5, <2>2 DEF Persist, Write
    <3>2. pc'[r] = "idle" /\ status'[a] = answer[r]
      BY <1>0, <3>1 DEF Patch, Finish, TypeOK, TableOK, EnvsOK
    <3> QED BY <2>1, <3>2
  <2>3. CASE faults # {}
    <3>1. pc'[r] # "fail" /\ ~(pc'[r] = "idle" /\ status'[a] = "processing")
      BY <1>a, <1>0, <2>3 DEF Unheard, Progress
    <3> QED BY <1>3, <1>4, <1>5, <2>1, <3>1
  <2> QED BY <2>2, <2>3
<1>7. \A i \in Envs \ {r} : row[i] = a /\ a \notin astray' =>
        ~(i \in ProcessEnvs /\ InCompletion(i)) /\ pc[i] \notin {"expire", "fail"}
  BY <1>a, <1>0, AloneOnClaim DEF Progress
<1>8. ASSUME NEW i \in Envs, Hot(i)', row'[i] = a PROVE HandOK(i)'
  <2>1. CASE i # r
    <3>1. Same(i) /\ row[i] = a
      BY <1>3, <1>8, <2>1 DEF Same
    <3> QED BY <1>2, <1>7, <2>1, <3>1 DEF HandOK, Same, Unacted, Progress, InCompletion
  <2>2. CASE i = r /\ a \in astray'
    BY <1>3, <1>8, <2>2 DEF HandOK, Hot
  <2>3. CASE i = r /\ a \notin astray'
    <3>1. pc'[r] = "fail"
      BY <1>3, <1>8, <2>3 DEF Hot
    <3>2. Completing(a)' = {}
      BY <1>3, <1>7, <2>3, <3>1 DEF Completing, InCompletion, Same, Envs
    <3>3. session'[a] \notin Collected
      BY <1>1, <1>6, <2>3, <3>1
    <3>4. updated[a] <= life[r] /\ r \notin InitEnvs
      BY <1>a, <1>0, <2>3, AloneOnClaim, EnvAssumption DEF Progress
    <3> QED BY <1>0, <1>3, <1>4, <1>5, <2>3, <3>1, <3>2, <3>3, <3>4
            DEF HandOK, InCompletion, Unpaid
  <2> QED BY <2>1, <2>2, <2>3
<1>9. RowOK(a)'
  <2>1. status'[a] = "initiated" => token'[a]
    BY <1>0, <1>1, <1>4 DEF Progress, RowOK
  <2>2. session'[a] \in Collected =>
          status'[a] \in {"pending", "processed"} \/ a \in astray'
    BY <1>1, <1>6
  <2> QED BY <2>1, <2>2 DEF RowOK
<1> QED BY <1>a, <1>2, <1>3, <1>8, <1>9, Around DEF Hot, InCompletion

-----------------------------------------------------------------------------
(* GET /details *)

LEMMA BooksReads ==
  ASSUME Progress, NEW r \in DetailsEnvs, NEW ref \in Refs, DetailsRead(r, ref) PROVE BooksInv'
<1>1. PICK a \in Attempts : Begin(r, "query", a, NoAsk)
  BY DEF DetailsRead, RefRows
<1>2. r \in Envs /\ UNCHANGED <<table, world>> /\ TypeOK
  BY DEF DetailsRead, Envs, Progress, IInv
<1>3. /\ \A i \in Envs \ {r} : Same(i)
      /\ ~Hot(r)' /\ ~InCompletion(r)
  BY <1>1, <1>2, BeginEffect DEF Others, Same, Hot, InCompletion, TypeOK
<1> QED BY <1>2, <1>3, NothingHot DEF table, world, Unacted

(* The answer a refresh reads is Pay.gov's record, and "failed" is final.   *)
LEMMA BooksQueries ==
  ASSUME Progress, NEW r \in DetailsEnvs, DetailsQuery(r) PROVE BooksInv'
<1>0. /\ r \in Envs /\ r \notin ProcessEnvs /\ r \notin InitEnvs /\ row[r] \in Attempts
      /\ pc[r] = "query" /\ UNCHANGED <<table, world>> /\ TypeOK
  BY EnvAssumption DEF DetailsQuery, Envs, Progress, IInv, TypeOK, EnvsOK
<1>a. PICK a \in Attempts : a = row[r]
  BY <1>0
<1>1. \A b \in Attempts : Still(b) /\ Unacted(b)
  BY <1>0 DEF table, world, Still, Unacted
<1>2. CASE Finish(r)
  <2>1. /\ \A i \in Envs \ {r} : Same(i)
        /\ ~Hot(r)' /\ ~InCompletion(r)
    BY <1>0, <1>2, FinishEffect, OnlyMine DEF InCompletion, TypeOK
  <2> QED BY <1>0, <1>1, <2>1, NothingHot DEF table
<1>3. ASSUME NEW raw \in Reports(session[a]),
             GotoWith(r, "refresh", a, ParseTransactionStatus(raw))
      PROVE  BooksInv'
  <2>1. /\ \A i \in Envs \ {r} : Same(i)
        /\ pc'[r] = "refresh" /\ row'[r] = a /\ answer'[r] = ParseTransactionStatus(raw)
    BY <1>0, <1>3, GotoWithEffect DEF Others, Same, TypeOK
  <2>2. answer'[r] = "failed" => session'[a] = "failed"
    BY <1>0, <1>3, <2>1, ParseReports DEF world
  <2>3. Completing(a) = {} => Completing(a)' = {}
    BY <1>0, <2>1 DEF Completing, InCompletion, Same, Envs
  <2>4. ASSUME NEW i \in Envs, Hot(i)', row'[i] = a PROVE HandOK(i)'
    <3>1. CASE i = r
      BY <1>0, <2>1, <2>2, <3>1 DEF HandOK
    <3>2. CASE i # r
      BY <1>1, <2>1, <2>3, <2>4, <3>2, HandStays DEF Same, Progress
    <3> QED BY <3>1, <3>2
  <2>5. RowOK(a)'
    BY <1>0, <1>1, <2>1, RowStays DEF Progress, Same, InCompletion, Envs
  <2> QED BY <1>a, <1>1, <2>1, <2>4, <2>5, Around
<1> QED BY <1>a, <1>2, <1>3 DEF DetailsQuery

LEMMA BooksRefreshes ==
  ASSUME Progress, NEW r \in DetailsEnvs, DetailsRefresh(r) PROVE BooksInv'
<1>0. /\ r \in Envs /\ row[r] \in Attempts /\ pc[r] = "refresh" /\ TypeOK
      /\ answer[r] \in {"pending", "processed", "failed"}
  BY RefreshEffect DEF Progress, IInv, TypeOK, EnvsOK
<1>a. PICK a \in Attempts : a = row[r]
  BY <1>0
<1>1. /\ UNCHANGED <<token, created, session>> /\ Leaves(r)
      /\ \/ NoRowSet /\ tracked' = tracked
         \/ /\ RowSet(a, answer[r], DeriveSingle(answer[r]))
            /\ tracked' = [tracked EXCEPT ![a] = TRUE]
  BY <1>a, <1>0, RefreshEffect
<1>2. /\ \A b \in Attempts \ {a} : Still(b)
      /\ \A b \in Attempts : Unacted(b)
  BY <1>0, <1>1, Elsewhere DEF Unacted
<1>3. /\ \A i \in Envs \ {r} : Same(i)
      /\ ~Hot(r)' /\ ~InCompletion(r)' /\ ~InCompletion(r)
  BY <1>0, <1>1, OnlyMine DEF InCompletion
<1>4. tracked[a] /\ status[a] \in {"pending", "processed", "failed"}
  BY <1>a, <1>0 DEF Progress, IInv, RefreshesTracked, TrackedRows
<1>5. status'[a] = status[a] \/ status'[a] = answer[r]
  BY <1>0, <1>1, RowTakes DEF NoRowSet
<1>6. Completing(a) = {} <=> Completing(a)' = {}
  BY <1>0, <1>3 DEF Completing, InCompletion, Same, Envs
<1>7. ASSUME NEW i \in Envs, Hot(i)', row'[i] = a PROVE HandOK(i)'
  <2>1. Same(i) /\ row[i] = a
    BY <1>3, <1>7 DEF Same
  <2> QED BY <1>0, <1>2, <1>4, <1>5, <1>6, <2>1
          DEF HandOK, Same, Unacted, Unpaid, Progress, InCompletion
<1>8. answer[r] = "failed" => session[a] \notin Collected
  BY <1>a, <1>0 DEF Progress, HandOK, Collected
<1>9. RowOK(a)'
  BY <1>0, <1>1, <1>4, <1>5, <1>6, <1>8 DEF RowOK, Progress
<1> QED BY <1>a, <1>2, <1>3, <1>7, <1>9, Around

-----------------------------------------------------------------------------
(* The sweep and the outside world.                                         *)

LEMMA BooksSweeps == ASSUME Progress, Sweep PROVE BooksInv'
<1>1. /\ UNCHANGED <<token, tracked, created, session, envs>>
      /\ \A b \in Attempts : Still(b) \/ (status[b] = "initiated" /\ status'[b] = "cancelled")
  BY DEF Sweep, Sweepable, OldestBatch, IsExpiredInitiated, Stamp, world, Still
<1>2. /\ \A b \in Attempts : Unacted(b) /\ (Completing(b) = {} <=> Completing(b)' = {})
      /\ \A i \in Envs : Same(i)
  BY <1>1 DEF Unacted, Completing, envs, Same
<1>3. ASSUME NEW i \in Envs PROVE HandOK(i)'
  <2>1. CASE Hot(i)
    <3>1. PICK b \in Attempts : row[i] = b
      BY <2>1, OnRows DEF Progress
    <3>2. CASE Still(b)
      BY <1>2, <3>1, <3>2, HandStays DEF Progress
    <3>3. CASE status[b] = "initiated" /\ status'[b] = "cancelled"
      <4>1. ~(i \in ProcessEnvs /\ InCompletion(i))
        BY <3>1, <3>3 DEF Progress, IInv, ClaimsAreFresh
      <4> QED BY <1>1, <1>2, <3>1, <3>3, <4>1
              DEF HandOK, Same, Unacted, Unpaid, Progress, InCompletion
    <3> QED BY <1>1, <3>2, <3>3
  <2>2. CASE ~Hot(i)
    BY <1>2, <2>2 DEF HandOK, Hot, Same, InCompletion
  <2> QED BY <2>1, <2>2
<1>4. ASSUME NEW b \in Attempts PROVE RowOK(b)'
  <2>1. status[b] = "initiated" => session'[b] \notin Collected
    BY <1>1, NotYetTaken DEF Progress
  <2> QED BY <1>1, <1>2, <2>1 DEF RowOK, Still, Unacted, Progress
<1> QED BY <1>3, <1>4
        DEF BooksInv, HandOK, RowOK, FailuresFinal, ClaimsHold, RetiresUnpaid, FailsUnpaid,
            TokensRecorded, BooksComplete, InRow, Unpaid, Envs

(* A request ages with the row it works on.                                 *)
LEMMA BooksTicks == ASSUME Progress, Tick PROVE BooksInv'
<1>1. /\ UNCHANGED <<status, token, tracked, session, pc, row, answer>> /\ TypeOK
      /\ \A b \in Attempts : Unacted(b) /\ (Completing(b) = {} <=> Completing(b)' = {})
  BY DEF Tick, world, Unacted, Completing, Progress, IInv
<1>2. ASSUME NEW i \in Envs PROVE HandOK(i)'
  <2>1. CASE Hot(i)
    <3>1. PICK b \in Attempts : row[i] = b
      BY <2>1, OnRows DEF Progress
    <3>2. created[b] >= TokenTTL /\ status[b] = "initiated" => created'[b] >= TokenTTL
      BY <1>1, TimeAssumption DEF Tick, Older, TypeOK, TableOK
    <3>3. updated[b] <= life[i] => updated'[b] <= life'[i]
      BY <1>1, <2>1, TimeAssumption DEF Tick, Older, TypeOK, TableOK, EnvsOK, Hot
    <3> QED BY <1>1, <3>1, <3>2, <3>3 DEF HandOK, Unacted, Unpaid, Progress, InCompletion
  <2>2. CASE ~Hot(i)
    BY <1>1, <2>2 DEF HandOK, Hot, InCompletion
  <2> QED BY <2>1, <2>2
<1>3. ASSUME NEW b \in Attempts PROVE RowOK(b)'
  BY <1>1 DEF RowOK, Unacted, Progress
<1> QED BY <1>2, <1>3
        DEF BooksInv, HandOK, RowOK, FailuresFinal, ClaimsHold, RetiresUnpaid, FailsUnpaid,
            TokensRecorded, BooksComplete, InRow, Unpaid, Envs

LEMMA BooksCrashes == ASSUME Progress, NEW r \in Envs, Crash(r) PROVE BooksInv'
<1>0. /\ UNCHANGED <<table, world>> /\ TypeOK /\ Finish(r) /\ faults # {}
      /\ Leaves(r) /\ pc'[r] = "idle"
  BY FinishEffect DEF Crash, Progress, IInv, TypeOK, Finish, EnvsOK
<1>1. /\ \A b \in Attempts : Still(b) /\ Unacted(b)
      /\ \A i \in Envs \ {r} : Same(i)
      /\ ~Hot(r)' /\ ~InCompletion(r)'
  BY <1>0, OnlyMine DEF table, world, Still, Unacted
<1>2. CASE ~InCompletion(r)
  BY <1>0, <1>1, <1>2, NothingHot DEF table
<1>3. CASE InCompletion(r)
  <2>1. r \in ProcessEnvs /\ row[r] \in Attempts
    BY <1>3, OnRows DEF Progress, IInv, RoleOf, Envs, InCompletion, OnRow
  <2>a. PICK a \in Attempts : a = row[r]
    BY <2>1
  <2>2. a \notin astray' => session[a] \notin Collected
    <3>1. a \notin astray' => status'[a] = "processing"
                            /\ (pc[r] # "persist" => session[a] \notin Collected)
      BY <1>1, <1>3, <2>1, <2>a, AloneOnClaim DEF Progress, Still
    <3> QED BY <1>0, <2>1, <2>a, <3>1 DEF Unheard, Progress
  <2>3. ASSUME NEW i \in Envs, Hot(i)', row'[i] = a PROVE HandOK(i)'
    <3>1. i # r /\ Same(i) /\ row[i] = a
      BY <1>1, <2>3 DEF Same
    <3>2. a \notin astray' =>
            ~(i \in ProcessEnvs /\ InCompletion(i)) /\ pc[i] \notin {"expire", "fail"}
      BY <1>3, <2>1, <2>a, <3>1, AloneOnClaim DEF Progress
    <3> QED BY <1>1, <3>1, <3>2 DEF HandOK, Same, Unacted, Progress, InCompletion
  <2>4. RowOK(a)'
    BY <1>1, <2>2 DEF RowOK, Still, Unacted, Progress
  <2> QED BY <1>1, <2>a, <2>3, <2>4, Around
<1> QED BY <1>2, <1>3

LEMMA BooksOutside ==
  ASSUME Progress, UNCHANGED <<table, envs>>,
         \/ UNCHANGED session
         \/ \E a \in Attempts : CustomerSubmits(a) \/ PayGovSettles(a)
  PROVE  BooksInv'
<1>1. \A b \in Attempts : Unacted(b)
  BY DEF CustomerSubmits, PayGovSettles, Unacted, Collected, Progress, IInv, TypeOK, WorldOK
<1> QED BY <1>1, NothingHot DEF table, envs, Same

-----------------------------------------------------------------------------
LEMMA BooksStep == ASSUME Progress, [Next]_vars PROVE BooksInv'
<1>1. CASE UNCHANGED vars
  BY <1>1, BooksOutside DEF vars, world
<1>2. ASSUME NEW r \in Envs, MarkFailed(r) PROVE BooksInv'
  BY <1>2, BooksFails
<1>3. ASSUME NEW r \in InitEnvs, InitArrives(r) \/ InitContinues(r) PROVE BooksInv'
  BY <1>2, <1>3, BooksArrives, BooksCancels, BooksFails, BooksInserts, BooksStarts,
     BooksRecords DEF InitContinues, Envs
<1>4. ASSUME NEW r \in ProcessEnvs, ProcessContinues(r) PROVE BooksInv'
  BY <1>2, <1>4, BooksLocks, BooksClaims, BooksCompletes, BooksPersists
  DEF ProcessContinues, Envs
<1>5. ASSUME NEW r \in DetailsEnvs, DetailsContinues(r) PROVE BooksInv'
  BY <1>5, BooksQueries, BooksRefreshes DEF DetailsContinues
<1>6. ASSUME NEW a \in Attempts, CustomerSubmits(a) \/ PayGovSettles(a) PROVE BooksInv'
  BY <1>6, BooksOutside DEF CustomerSubmits, PayGovSettles
<1>7. CASE Recover
  BY <1>7, BooksOutside DEF Recover
<1> QED BY <1>1, <1>3, <1>4, <1>5, <1>6, <1>7, BooksLoads, BooksReads, BooksCrashes,
           BooksSweeps, BooksTicks DEF Next

LEMMA BooksStart == BooksInit => IInv /\ BooksInv
<1> SUFFICES ASSUME BooksInit PROVE IInv /\ BooksInv
  OBVIOUS
<1>1. Init /\ IInv /\ astray = {}
  BY InvInit DEF BooksInit
<1>2. /\ \A r \in Envs : pc[r] = "idle"
      /\ \A a \in Attempts : status[a] = "none" /\ session[a] = "none"
  BY <1>1 DEF Init
<1> QED BY <1>1, <1>2
        DEF BooksInv, FailuresFinal, ClaimsHold, RetiresUnpaid, FailsUnpaid, TokensRecorded,
            BooksComplete, InRow, InCompletion, Collected, Envs

(* Money Pay.gov took is in the books once nobody is completing the         *)
(* attempt, unless it went astray at one of the three moments of            *)
(* PortalBooks (initPayment.ts, processPayment.ts, getDetails.ts,           *)
(* TransactionModel.ts).                                                    *)
THEOREM BooksKept == BooksSpec => []BooksComplete
<1>1. IInv /\ BooksInv /\ [BooksNext]_<<vars, astray>> => IInv' /\ BooksInv'
  <2> SUFFICES ASSUME IInv, BooksInv, [BooksNext]_<<vars, astray>> PROVE IInv' /\ BooksInv'
    OBVIOUS
  <2>1. IInv'
    BY InvStep DEF BooksNext
  <2>2. CASE BooksNext
    <3>1. Progress
      BY <2>1, <2>2, BooksParts DEF BooksNext, Progress
    <3> QED BY <2>1, <2>2, <3>1, BooksStep DEF BooksNext
  <2>3. CASE UNCHANGED <<vars, astray>>
    <3>1. BooksInv'
      BY <2>3 DEF BooksInv, FailuresFinal, ClaimsHold, RetiresUnpaid, FailsUnpaid,
                  TokensRecorded, BooksComplete, InRow, InCompletion, Unpaid, Completing,
                  vars, table, world, envs
    <3> QED BY <2>1, <3>1
  <2> QED BY <2>2, <2>3
<1>2. BooksInv => BooksComplete
  BY DEF BooksInv
<1> QED BY <1>1, <1>2, BooksStart, PTL DEF BooksSpec
=============================================================================
