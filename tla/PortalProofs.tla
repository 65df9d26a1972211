----------------------------- MODULE PortalProofs -----------------------------
(***************************************************************************)
(* PaymentPortal keeps its types and its inductive invariant IInv, hence   *)
(* each safety property IInv consists of, for any number of attempts,      *)
(* clients, references and Lambda environments and any set of failures.    *)
(***************************************************************************)
EXTENDS PortalProperties, TLAPS

(* The default request payload is one a client can send.                    *)
LEMMA NoAskType == NoAsk \in Obligations \X Fees
<1>1. PICK c \in Clients, k \in Refs, f \in Fees : TRUE
  BY SizeAssumption
<1>2. <<<<c, k>>, f>> \in Obligations \X Fees
  BY DEF Obligations
<1> QED BY <1>2, Zenon DEF NoAsk

(* parseTransactionStatus maps every report of an accepted session to the   *)
(* status that session has.                                                 *)
LEMMA ParseReports ==
  ASSUME NEW s, NEW raw \in Reports(s)
  PROVE  /\ ParseTransactionStatus(raw) \in {"pending", "processed", "failed"}
         /\ s \in {"pending", "settled", "failed"}
         /\ s = "pending" => ParseTransactionStatus(raw) = "pending"
         /\ s = "settled" => ParseTransactionStatus(raw) = "processed"
         /\ s = "failed"  => ParseTransactionStatus(raw) = "failed"
<1>1. CASE s = "pending"
  BY <1>1 DEF Reports, ParseTransactionStatus
<1>2. CASE s = "settled"
  BY <1>2 DEF Reports, ParseTransactionStatus
<1>3. CASE s = "failed"
  BY <1>3 DEF Reports, ParseTransactionStatus
<1> QED BY <1>1, <1>2, <1>3 DEF Reports

-----------------------------------------------------------------------------
(* Types: what the shared steps of the actions do to them.                  *)

StatusSet == Ledger!Statuses \cup {"none"}
PaymentSet == {"pending", "success", "failed"}

LEMMA PatchType ==
  ASSUME TableOK, NEW a \in Attempts, NEW s \in StatusSet, NEW p \in PaymentSet,
         Patch(a, s, p)
  PROVE  /\ status' \in [Attempts -> StatusSet]
         /\ payment' \in [Attempts -> PaymentSet]
         /\ created' \in [Attempts -> 0 .. TokenTTL + 1]
         /\ updated' \in [Attempts -> 0 .. ProcessingStale]
BY TimeAssumption DEF TableOK, Patch, Stamp, StatusSet, PaymentSet

LEMMA SetRowType ==
  ASSUME TableOK, NEW a \in Attempts, NEW s \in StatusSet, NEW p \in PaymentSet,
         SetRow(a, s, p)
  PROVE  TableOK'
BY PatchType DEF SetRow, TableOK, keys, StatusSet, PaymentSet

LEMMA TableStays == ASSUME TableOK, UNCHANGED table PROVE TableOK'
BY DEF TableOK, table, keys

LEMMA WorldStays == ASSUME WorldOK, UNCHANGED world PROVE WorldOK'
BY DEF WorldOK, world

LEMMA EnvsStay == ASSUME EnvsOK, UNCHANGED envs PROVE EnvsOK'
BY DEF EnvsOK, envs

LEMMA BeginType ==
  ASSUME EnvsOK, NEW r \in Envs, NEW where \in Pcs \ {"persist", "refresh"},
         NEW a \in Attempts \cup {NoRow}, NEW q \in Obligations \X Fees,
         where \in {"idle", "insert"} \/ a \in Attempts,
         Begin(r, where, a, q)
  PROVE  EnvsOK'
BY DEF EnvsOK, Begin

LEMMA GotoType ==
  ASSUME EnvsOK, NEW r \in Envs, NEW where \in Pcs \ {"persist", "refresh"},
         pc[r] \notin {"idle", "insert"}, Goto(r, where)
  PROVE  EnvsOK'
BY DEF EnvsOK, Goto

LEMMA GotoWithType ==
  ASSUME EnvsOK, NEW r \in Envs, NEW where \in Pcs, NEW a \in Attempts \cup {NoRow},
         NEW s \in {"none", "pending", "processed", "failed"},
         where \in {"idle", "insert"} \/ a \in Attempts,
         where \in {"persist", "refresh"} => s # "none",
         GotoWith(r, where, a, s)
  PROVE  EnvsOK'
BY DEF EnvsOK, GotoWith

LEMMA FinishType ==
  ASSUME EnvsOK, NEW r \in Envs, Finish(r)
  PROVE  EnvsOK'
BY NoAskType, TimeAssumption DEF EnvsOK, Finish, Pcs, NoRow

LEMMA DeriveType == \A s : DeriveSingle(s) \in PaymentSet
BY DEF DeriveSingle, PaymentSet

LEMMA TypeInit == Init => TypeOK
BY NoAskType, TimeAssumption, FaultAssumption
DEF Init, TypeOK, TableOK, WorldOK, EnvsOK, Pcs, NoRow, SessionStates,
    Ledger!Statuses, Obligations

(* One step per action.                                                     *)
LEMMA TypeStep == TypeOK /\ [Next]_vars => TypeOK'
<1> SUFFICES ASSUME TableOK, WorldOK, EnvsOK, [Next]_vars PROVE TypeOK'
  BY DEF TypeOK
<1> USE DEF TypeOK
<1>1. ASSUME NEW r \in InitEnvs, InitArrives(r) PROVE TypeOK'
  <2>1. PICK ob \in Obligations, f \in Fees :
          InitFindsNone(r, ob, f) \/ InitReuses(r, ob, f) \/ InitRetires(r, ob, f)
    BY <1>1 DEF InitArrives
  <2>2. r \in Envs /\ <<ob, f>> \in Obligations \X Fees
    BY DEF Envs
  <2>3. CASE InitFindsNone(r, ob, f)
    BY <2>2, <2>3, TableStays, WorldStays, BeginType DEF InitFindsNone, Pcs
  <2>4. CASE InitReuses(r, ob, f)
    BY <2>4, TableStays, EnvsStay DEF InitReuses, WorldOK
  <2>5. CASE InitRetires(r, ob, f)
    <3>1. PICK a \in Attempts :
            Begin(r, IF IsExpiredInitiated(a) THEN "cancel" ELSE "expire", a, <<ob, f>>)
      BY <2>5 DEF InitRetires
    <3> QED BY <2>2, <2>5, <3>1, TableStays, WorldStays, BeginType DEF InitRetires, Pcs
  <2> QED BY <2>1, <2>3, <2>4, <2>5
<1>2. ASSUME NEW r \in InitEnvs, CancelFound(r) PROVE TypeOK'
  <2>1. r \in Envs /\ row[r] \in Attempts
    BY <1>2 DEF CancelFound, EnvsOK, Envs
  <2>2. TableOK'
    BY <1>2, <2>1, SetRowType, TableStays
    DEF CancelFound, Write, StatusSet, PaymentSet, Ledger!Statuses
  <2>3. EnvsOK'
    BY <1>2, <2>1, GotoWithType, FinishType DEF CancelFound, Write, Pcs
  <2> QED BY <1>2, <2>2, <2>3, WorldStays DEF CancelFound
<1>3. ASSUME NEW r \in InitEnvs, ExpireFound(r) PROVE TypeOK'
  <2>1. r \in Envs /\ row[r] \in Attempts
    BY <1>3 DEF ExpireFound, EnvsOK, Envs
  <2>2. TableOK'
    BY <1>3, <2>1, SetRowType, TableStays
    DEF ExpireFound, Write, StatusSet, PaymentSet, Ledger!Statuses
  <2>3. EnvsOK'
    BY <1>3, <2>1, GotoWithType, FinishType DEF ExpireFound, Write, Pcs
  <2> QED BY <1>3, <2>2, <2>3, WorldStays DEF ExpireFound
<1>4. ASSUME NEW r \in InitEnvs, InsertReceived(r) PROVE TypeOK'
  <2>1. r \in Envs /\ ask[r] \in Obligations \X Fees
    BY DEF EnvsOK, Envs
  <2>2. ASSUME NEW a \in Attempts, InsertRow(a, ask[r][1], ask[r][2])
        PROVE  TableOK'
    BY <2>1, <2>2, PatchType
    DEF InsertRow, TableOK, StatusSet, PaymentSet, Ledger!Statuses
  <2>3. TableOK'
    BY <1>4, <2>2, TableStays DEF InsertReceived, Write
  <2>4. EnvsOK'
    BY <1>4, <2>1, GotoWithType, FinishType DEF InsertReceived, Write, Pcs
  <2> QED BY <1>4, <2>3, <2>4, WorldStays DEF InsertReceived
<1>5. ASSUME NEW r \in InitEnvs, StartSession(r) PROVE TypeOK'
  <2>1. r \in Envs /\ row[r] \in Attempts /\ pc[r] \notin {"idle", "insert"}
    BY <1>5 DEF StartSession, EnvsOK, Envs
  <2>2. EnvsOK'
    BY <1>5, <2>1, GotoType DEF StartSession, Pcs
  <2>3. WorldOK'
    BY <1>5, <2>1 DEF StartSession, WorldOK, SessionStates
  <2> QED BY <1>5, <2>2, <2>3, TableStays DEF StartSession
<1>6. ASSUME NEW r \in InitEnvs, RecordToken(r) PROVE TypeOK'
  <2>1. r \in Envs /\ row[r] \in Attempts /\ pc[r] \notin {"idle", "insert"}
    BY <1>6 DEF RecordToken, EnvsOK, Envs
  <2>2. ASSUME Patch(row[r], "initiated", payment[row[r]]),
               token' = [token EXCEPT ![row[r]] = TRUE],
               UNCHANGED <<keys, tracked>>
        PROVE  TableOK'
    <3>1. payment[row[r]] \in PaymentSet
      BY <2>1 DEF TableOK, PaymentSet
    <3> QED BY <2>1, <2>2, <3>1, PatchType
            DEF TableOK, keys, StatusSet, PaymentSet, Ledger!Statuses
  <2>3. TableOK'
    BY <1>6, <2>2, TableStays DEF RecordToken, Write
  <2>4. EnvsOK'
    BY <1>6, <2>1, GotoType, FinishType DEF RecordToken, Write, Pcs
  <2>5. WorldOK'
    BY <1>6, <2>1 DEF RecordToken, Write, WorldOK
  <2> QED BY <2>3, <2>4, <2>5
<1>7. ASSUME NEW r \in Envs, MarkFailed(r) PROVE TypeOK'
  <2>1. row[r] \in Attempts
    BY <1>7 DEF MarkFailed, EnvsOK
  <2>2. TableOK'
    BY <1>7, <2>1, SetRowType, TableStays
    DEF MarkFailed, Write, StatusSet, PaymentSet, Ledger!Statuses
  <2>3. EnvsOK'
    BY <1>7, FinishType DEF MarkFailed, Write
  <2> QED BY <1>7, <2>2, <2>3, WorldStays DEF MarkFailed
<1>8. ASSUME NEW r \in ProcessEnvs, NEW a \in Attempts, ProcessLoad(r, a) PROVE TypeOK'
  <2>1. EnvsOK'
    BY <1>8, BeginType, NoAskType DEF ProcessLoad, Envs, Pcs
  <2> QED BY <1>8, <2>1, TableStays, WorldStays DEF ProcessLoad
<1>9. ASSUME NEW r \in ProcessEnvs, ClaimLock(r) PROVE TypeOK'
  <2>1. EnvsOK'
    BY <1>9, GotoType, FinishType DEF ClaimLock, Envs, Pcs
  <2> QED BY <1>9, <2>1, TableStays, WorldStays DEF ClaimLock
<1>10. ASSUME NEW r \in ProcessEnvs, ClaimDecide(r) PROVE TypeOK'
  <2>1. r \in Envs /\ row[r] \in Attempts /\ pc[r] \notin {"idle", "insert"}
    BY <1>10 DEF ClaimDecide, EnvsOK, Envs
  <2>2. payment[row[r]] \in PaymentSet
    BY <2>1 DEF TableOK, PaymentSet
  <2>3. TableOK'
    BY <1>10, <2>1, <2>2, SetRowType, TableStays
    DEF ClaimDecide, Write, StatusSet, Ledger!Statuses
  <2>4. EnvsOK'
    BY <1>10, <2>1, GotoType, FinishType DEF ClaimDecide, Write, Pcs
  <2> QED BY <1>10, <2>3, <2>4, WorldStays DEF ClaimDecide
<1>11. ASSUME NEW r \in ProcessEnvs, Complete(r) PROVE TypeOK'
  <2>1. r \in Envs /\ row[r] \in Attempts /\ pc[r] \notin {"idle", "insert"}
    BY <1>11 DEF Complete, EnvsOK, Envs
  <2>2. WorldOK'
    BY <1>11, <2>1 DEF Complete, Acts, WorldOK, SessionStates
  <2>3. EnvsOK'
    BY <1>11, <2>1, GotoType, GotoWithType, ParseReports DEF Complete, Pcs
  <2> QED BY <1>11, <2>2, <2>3, TableStays DEF Complete
<1>12. ASSUME NEW r \in ProcessEnvs, Persist(r) PROVE TypeOK'
  <2>1. r \in Envs /\ row[r] \in Attempts /\ pc[r] = "persist"
    BY <1>12 DEF Persist, EnvsOK, Envs
  <2>2. answer[r] \in StatusSet
    BY <2>1 DEF EnvsOK, StatusSet, Ledger!Statuses
  <2>3. ASSUME Patch(row[r], answer[r], DeriveSingle(answer[r])),
               tracked' = [tracked EXCEPT ![row[r]] = TRUE],
               UNCHANGED <<keys, token>>
        PROVE  TableOK'
    BY <2>1, <2>2, <2>3, PatchType, DeriveType DEF TableOK, keys, StatusSet, PaymentSet
  <2>4. TableOK'
    BY <1>12, <2>3, TableStays DEF Persist, Write
  <2>5. EnvsOK'
    BY <1>12, <2>1, GotoType, FinishType DEF Persist, Write, Pcs
  <2> QED BY <1>12, <2>4, <2>5, WorldStays DEF Persist
<1>13. ASSUME NEW r \in DetailsEnvs, NEW ref \in Refs, DetailsRead(r, ref) PROVE TypeOK'
  <2>1. PICK a \in Attempts : Begin(r, "query", a, NoAsk)
    BY <1>13 DEF DetailsRead, RefRows
  <2>2. EnvsOK'
    BY <2>1, BeginType, NoAskType DEF Envs, Pcs
  <2> QED BY <1>13, <2>2, TableStays, WorldStays DEF DetailsRead
<1>14. ASSUME NEW r \in DetailsEnvs, DetailsQuery(r) PROVE TypeOK'
  <2>1. r \in Envs /\ row[r] \in Attempts
    BY <1>14 DEF DetailsQuery, EnvsOK, Envs
  <2>2. EnvsOK'
    BY <1>14, <2>1, GotoWithType, FinishType, ParseReports DEF DetailsQuery, Pcs
  <2> QED BY <1>14, <2>2, TableStays, WorldStays DEF DetailsQuery
<1>15. ASSUME NEW r \in DetailsEnvs, DetailsRefresh(r) PROVE TypeOK'
  <2>1. r \in Envs /\ row[r] \in Attempts /\ answer[r] \in StatusSet
    BY <1>15 DEF DetailsRefresh, EnvsOK, Envs, StatusSet, Ledger!Statuses
  <2>2. ASSUME Patch(row[r], answer[r], DeriveSingle(answer[r])),
               tracked' = [tracked EXCEPT ![row[r]] = TRUE],
               UNCHANGED <<keys, token>>
        PROVE  TableOK'
    BY <2>1, <2>2, PatchType, DeriveType DEF TableOK, keys, StatusSet, PaymentSet
  <2>3. TableOK'
    BY <1>15, <2>2, TableStays DEF DetailsRefresh, Write
  <2>4. EnvsOK'
    BY <1>15, <2>1, FinishType DEF DetailsRefresh, Write
  <2> QED BY <1>15, <2>3, <2>4, WorldStays DEF DetailsRefresh
<1>16. ASSUME NEW r \in Envs, Crash(r) PROVE TypeOK'
  BY <1>16, FinishType, TableStays, WorldStays DEF Crash
<1>17. ASSUME NEW a \in Attempts, CustomerSubmits(a) \/ PayGovSettles(a) PROVE TypeOK'
  <2>1. WorldOK'
    BY <1>17 DEF CustomerSubmits, PayGovSettles, WorldOK, SessionStates
  <2> QED BY <1>17, <2>1, TableStays, EnvsStay DEF CustomerSubmits, PayGovSettles
<1>18. CASE Sweep
  <2>1. TableOK'
    BY <1>18, TimeAssumption DEF Sweep, Stamp, TableOK, keys, Ledger!Statuses
  <2> QED BY <1>18, <2>1, WorldStays, EnvsStay DEF Sweep
<1>19. CASE Tick
  <2>1. TableOK'
    BY <1>19, TimeAssumption DEF Tick, Older, TableOK, keys
  <2>2. EnvsOK'
    BY <1>19, TimeAssumption DEF Tick, EnvsOK
  <2> QED BY <1>19, <2>1, <2>2, WorldStays DEF Tick
<1>20. CASE Recover
  BY <1>20, TableStays, EnvsStay DEF Recover, WorldOK
<1>21. CASE UNCHANGED vars
  BY <1>21, TableStays, WorldStays, EnvsStay DEF vars
<1> QED
  BY <1>1, <1>2, <1>3, <1>4, <1>5, <1>6, <1>7, <1>8, <1>9, <1>10, <1>11, <1>12,
     <1>13, <1>14, <1>15, <1>16, <1>17, <1>18, <1>19, <1>20, <1>21
  DEF Next, InitContinues, ProcessContinues, DetailsContinues, Envs

(* Every reachable state is well typed.                                     *)
THEOREM TypeCorrect == Spec => []TypeOK
BY TypeInit, TypeStep, PTL DEF Spec

-----------------------------------------------------------------------------
(* What each action may do to the table and to the requests, with the ways  *)
(* a write can end folded into one disjunction.                             *)

Others(r) == \A s \in Envs \ {r} :
  pc'[s] = pc[s] /\ row'[s] = row[s] /\ answer'[s] = answer[s] /\ life'[s] = life[s]

Leaves(r) ==
  /\ Others(r)
  /\ pc'[r] = "idle" \/ (pc'[r] = "insert" /\ pc[r] \in {"cancel", "expire"})

Moves(r, where) == Others(r) /\ pc'[r] = where /\ row'[r] = row[r] /\ life'[r] = life[r]

RowSet(a, s, p) ==
  /\ status' = [status EXCEPT ![a] = s]
  /\ payment' = [payment EXCEPT ![a] = p]
  /\ updated' = [updated EXCEPT ![a] = IF s = "cancelled" THEN updated[a] ELSE 0]

NoRowSet == UNCHANGED <<status, payment, updated>>

LEMMA PatchEffect ==
  ASSUME TableOK, NEW a \in Attempts, NEW s, NEW p, Patch(a, s, p),
         s = "cancelled" => status[a] # "cancelled"
  PROVE  RowSet(a, s, p)
BY DEF Patch, Stamp, RowSet, TableOK

LEMMA SetRowEffect ==
  ASSUME TableOK, NEW a \in Attempts, NEW s, NEW p, SetRow(a, s, p),
         s = "cancelled" => status[a] # "cancelled"
  PROVE  RowSet(a, s, p) /\ UNCHANGED <<owner, fee, token, tracked, created>>
BY PatchEffect DEF SetRow, Patch, keys

LEMMA FinishEffect == ASSUME EnvsOK, NEW r \in Envs, Finish(r) PROVE Leaves(r)
BY DEF Finish, Leaves, Others, EnvsOK

LEMMA GotoEffect ==
  ASSUME EnvsOK, NEW r \in Envs, NEW where, Goto(r, where)
  PROVE  Moves(r, where) /\ answer' = answer
BY DEF Goto, Moves, Others, EnvsOK

LEMMA GotoWithEffect ==
  ASSUME EnvsOK, NEW r \in Envs, NEW where, NEW a, NEW s, GotoWith(r, where, a, s)
  PROVE  /\ Others(r) /\ pc'[r] = where /\ row'[r] = a /\ answer'[r] = s
         /\ life'[r] = life[r]
BY DEF GotoWith, Others, EnvsOK

LEMMA BeginEffect ==
  ASSUME EnvsOK, NEW r \in Envs, NEW where, NEW a, NEW q, Begin(r, where, a, q)
  PROVE  Others(r) /\ pc[r] = "idle" /\ pc'[r] = where /\ row'[r] = a
BY DEF Begin, Others, EnvsOK

Rest == UNCHANGED <<owner, fee, token, tracked, created, session, handed>>

LEMMA CancelEffect ==
  ASSUME TypeOK, NEW r \in InitEnvs, CancelFound(r)
  PROVE  /\ r \in Envs /\ row[r] \in Attempts /\ pc[r] = "cancel"
         /\ Rest /\ Leaves(r)
         /\ \/ NoRowSet
            \/ status[row[r]] = "initiated" /\ RowSet(row[r], "cancelled", "failed")
<1>1. r \in Envs /\ row[r] \in Attempts /\ pc[r] = "cancel"
  BY DEF TypeOK, EnvsOK, Envs, CancelFound
<1>2. Leaves(r)
  BY <1>1, FinishEffect, GotoWithEffect DEF CancelFound, Write, Leaves, TypeOK
<1>3. status[row[r]] = "initiated" /\ SetRow(row[r], "cancelled", "failed") =>
        /\ RowSet(row[r], "cancelled", "failed")
        /\ UNCHANGED <<owner, fee, token, tracked, created>>
  BY <1>1, SetRowEffect DEF TypeOK
<1> QED
  BY <1>1, <1>2, <1>3 DEF CancelFound, Write, Rest, NoRowSet, table, keys, world

LEMMA FailEffect ==
  ASSUME TypeOK, NEW r \in Envs, ExpireFound(r) \/ MarkFailed(r)
  PROVE  /\ row[r] \in Attempts /\ pc[r] \in {"expire", "fail"} /\ ~LockHeld(row[r])
         /\ Rest /\ Leaves(r)
         /\ NoRowSet \/ RowSet(row[r], "failed", "failed")
<1>1. row[r] \in Attempts /\ pc[r] \in {"expire", "fail"} /\ ~LockHeld(row[r])
  BY DEF TypeOK, EnvsOK, ExpireFound, MarkFailed
<1>2. Leaves(r)
  BY <1>1, FinishEffect, GotoWithEffect DEF ExpireFound, MarkFailed, Write, Leaves, TypeOK
<1>3. SetRow(row[r], "failed", "failed") =>
        /\ RowSet(row[r], "failed", "failed")
        /\ UNCHANGED <<owner, fee, token, tracked, created>>
  BY <1>1, SetRowEffect DEF TypeOK
<1> QED
  BY <1>1, <1>2, <1>3
  DEF ExpireFound, MarkFailed, Write, Rest, NoRowSet, table, keys, world

LEMMA InsertEffect ==
  ASSUME TypeOK, NEW r \in InitEnvs, InsertReceived(r)
  PROVE  /\ r \in Envs /\ pc[r] = "insert"
         /\ UNCHANGED <<token, tracked, created, session, handed>>
         /\ \/ Leaves(r) /\ NoRowSet /\ owner' = owner
            \/ \E a \in Attempts, ob \in Obligations :
                 /\ status[a] = "none" /\ RowSet(a, "received", "pending")
                 /\ IndexAllows(a, ob, "received") /\ owner' = [owner EXCEPT ![a] = ob]
                 /\ \/ Leaves(r)
                    \/ Others(r) /\ pc'[r] = "start" /\ row'[r] = a
<1>1. r \in Envs /\ pc[r] = "insert" /\ ask[r][1] \in Obligations
  BY DEF TypeOK, EnvsOK, Envs, InsertReceived
<1>2. CASE UNCHANGED table /\ Finish(r)
  BY <1>1, <1>2, FinishEffect
  DEF InsertReceived, NoRowSet, table, keys, world, TypeOK
<1>3. ASSUME NEW a \in Attempts, NextFree(a), IndexAllows(a, ask[r][1], "received"),
             Write(InsertRow(a, ask[r][1], ask[r][2]),
                   GotoWith(r, "start", a, "none"), Finish(r)),
             UNCHANGED world
      PROVE  /\ UNCHANGED <<token, tracked, created, session, handed>>
             /\ \/ Leaves(r) /\ NoRowSet /\ owner' = owner
                \/ /\ status[a] = "none" /\ RowSet(a, "received", "pending")
                   /\ owner' = [owner EXCEPT ![a] = ask[r][1]]
                   /\ \/ Leaves(r)
                      \/ Others(r) /\ pc'[r] = "start" /\ row'[r] = a
  <2>1. Finish(r) => Leaves(r)
    BY <1>1, FinishEffect DEF TypeOK
  <2>2. GotoWith(r, "start", a, "none") => Others(r) /\ pc'[r] = "start" /\ row'[r] = a
    BY <1>1, GotoWithEffect DEF TypeOK
  <2>3. InsertRow(a, ask[r][1], ask[r][2]) =>
          /\ RowSet(a, "received", "pending") /\ UNCHANGED <<token, tracked, created>>
          /\ owner' = [owner EXCEPT ![a] = ask[r][1]]
    BY <1>3, PatchEffect DEF InsertRow, Patch, TypeOK
  <2> QED BY <1>3, <2>1, <2>2, <2>3 DEF Write, NextFree, NoRowSet, table, keys, world
<1> QED BY <1>1, <1>2, <1>3 DEF InsertReceived

LEMMA RecordEffect ==
  ASSUME TypeOK, NEW r \in InitEnvs, RecordToken(r)
  PROVE  /\ r \in Envs /\ row[r] \in Attempts /\ pc[r] = "record"
         /\ UNCHANGED <<owner, tracked, created, session>>
         /\ \/ NoRowSet /\ handed' = handed /\ Moves(r, "fail") /\ answer' = answer
            \/ /\ RowSet(row[r], "initiated", payment[row[r]])
               /\ \/ Leaves(r) /\ handed' = handed \cup {row[r]}
                  \/ Moves(r, "fail") /\ answer' = answer /\ handed' = handed
<1>1. r \in Envs /\ row[r] \in Attempts /\ pc[r] = "record"
  BY DEF TypeOK, EnvsOK, Envs, RecordToken
<1>2. Finish(r) => Leaves(r)
  BY <1>1, FinishEffect DEF TypeOK
<1>3. Goto(r, "fail") => Moves(r, "fail") /\ answer' = answer
  BY <1>1, GotoEffect DEF TypeOK
<1>4. Patch(row[r], "initiated", payment[row[r]]) =>
        RowSet(row[r], "initiated", payment[row[r]]) /\ created' = created
  BY <1>1, PatchEffect DEF Patch, TypeOK
<1> QED
  BY <1>1, <1>2, <1>3, <1>4 DEF RecordToken, Write, NoRowSet, table, keys

LEMMA ClaimEffect ==
  ASSUME TypeOK, NEW r \in ProcessEnvs, ClaimDecide(r)
  PROVE  /\ r \in Envs /\ row[r] \in Attempts /\ pc[r] = "locked" /\ Rest
         /\ \/ NoRowSet /\ Leaves(r)
            \/ /\ Claimable(row[r])
               /\ RowSet(row[r], "processing", payment[row[r]])
               /\ Leaves(r) \/ (Moves(r, "complete") /\ answer' = answer)
<1>1. r \in Envs /\ row[r] \in Attempts /\ pc[r] = "locked"
  BY DEF TypeOK, EnvsOK, Envs, ClaimDecide
<1>2. Finish(r) => Leaves(r)
  BY <1>1, FinishEffect DEF TypeOK
<1>3. Goto(r, "complete") => Moves(r, "complete") /\ answer' = answer
  BY <1>1, GotoEffect DEF TypeOK
<1>4. SetRow(row[r], "processing", payment[row[r]]) =>
        /\ RowSet(row[r], "processing", payment[row[r]])
        /\ UNCHANGED <<owner, fee, token, tracked, created>>
  BY <1>1, SetRowEffect DEF TypeOK
<1> QED
  BY <1>1, <1>2, <1>3, <1>4 DEF ClaimDecide, Write, Rest, NoRowSet, table, keys, world

LEMMA PersistEffect ==
  ASSUME TypeOK, NEW r \in ProcessEnvs, Persist(r)
  PROVE  /\ r \in Envs /\ row[r] \in Attempts /\ pc[r] = "persist"
         /\ UNCHANGED <<owner, token, created, session, handed>>
         /\ Leaves(r) \/ (Moves(r, "fail") /\ answer' = answer)
         /\ \/ NoRowSet /\ tracked' = tracked
            \/ /\ status[row[r]] = "processing"
               /\ RowSet(row[r], answer[r], DeriveSingle(answer[r]))
               /\ tracked' = [tracked EXCEPT ![row[r]] = TRUE]
<1>1. r \in Envs /\ row[r] \in Attempts /\ pc[r] = "persist" /\ answer[r] # "cancelled"
  BY DEF TypeOK, EnvsOK, Envs, Persist
<1>2. Finish(r) => Leaves(r)
  BY <1>1, FinishEffect DEF TypeOK
<1>3. Goto(r, "fail") => Moves(r, "fail") /\ answer' = answer
  BY <1>1, GotoEffect DEF TypeOK
<1>4. Patch(row[r], answer[r], DeriveSingle(answer[r])) =>
        RowSet(row[r], answer[r], DeriveSingle(answer[r])) /\ created' = created
  BY <1>1, PatchEffect DEF Patch, TypeOK
<1> QED
  BY <1>1, <1>2, <1>3, <1>4 DEF Persist, Write, NoRowSet, table, keys, world

LEMMA RefreshEffect ==
  ASSUME TypeOK, NEW r \in DetailsEnvs, DetailsRefresh(r)
  PROVE  /\ r \in Envs /\ row[r] \in Attempts /\ pc[r] = "refresh"
         /\ UNCHANGED <<owner, token, created, session, handed>> /\ Leaves(r)
         /\ \/ NoRowSet /\ tracked' = tracked
            \/ /\ IndexAllows(row[r], owner[row[r]], answer[r])
               /\ RowSet(row[r], answer[r], DeriveSingle(answer[r]))
               /\ tracked' = [tracked EXCEPT ![row[r]] = TRUE]
<1>1. r \in Envs /\ row[r] \in Attempts /\ pc[r] = "refresh" /\ answer[r] # "cancelled"
  BY DEF TypeOK, EnvsOK, Envs, DetailsRefresh
<1>2. Finish(r) => Leaves(r)
  BY <1>1, FinishEffect DEF TypeOK
<1>3. Patch(row[r], answer[r], DeriveSingle(answer[r])) =>
        RowSet(row[r], answer[r], DeriveSingle(answer[r])) /\ created' = created
  BY <1>1, PatchEffect DEF Patch, TypeOK
<1> QED
  BY <1>1, <1>2, <1>3 DEF DetailsRefresh, Write, NoRowSet, table, keys, world

(* A request that stays on a row was on it before.                          *)
LEMMA LeavesRows ==
  ASSUME TypeOK, NEW r \in Envs, Leaves(r)
  PROVE  \A s \in Envs : OnRow(s)' =>
           /\ s # r /\ OnRow(s) /\ row[s] \in Attempts
           /\ pc'[s] = pc[s] /\ row'[s] = row[s]
           /\ answer'[s] = answer[s] /\ life'[s] = life[s]
BY DEF Leaves, Others, OnRow, TypeOK, EnvsOK

LEMMA MovesRows ==
  ASSUME TypeOK, NEW r \in Envs, NEW where, Moves(r, where)
  PROVE  \A s \in Envs : OnRow(s)' =>
           /\ row'[s] = row[s] /\ life'[s] = life[s]
           /\ pc'[s] = IF s = r THEN where ELSE pc[s]
           /\ s # r => OnRow(s) /\ row[s] \in Attempts /\ answer'[s] = answer[s]
BY DEF Moves, Others, OnRow, TypeOK, EnvsOK

LEMMA LeavesRoles ==
  ASSUME RoleOf, LocksExclude, NEW r \in Envs, Leaves(r)
  PROVE  RoleOf' /\ LocksExclude'
BY EnvAssumption DEF RoleOf, LocksExclude, Leaves, Others, Envs

-----------------------------------------------------------------------------
(* Who is on which row, in which role.                                      *)

RowInv == RoleOf /\ RowsInHand /\ TrackedRows /\ LocksExclude

(* A request leaves, after moving at most one row nobody is inserting.      *)
LEMMA RowInvLeaves ==
  ASSUME TypeOK, RowInv, TypeOK', NEW r \in Envs, NEW a \in Attempts, Leaves(r),
         handed' = handed, NEW s, status[a] # "none", s \notin {"none", "received"},
         NoRowSet \/ status' = [status EXCEPT ![a] = s],
         \A i \in Envs \ {r} : Inserting(i) => row[i] # a
  PROVE  RowsInHand'
<1>1. \A b \in Attempts : status'[b] = status[b] \/ (b = a /\ status'[b] = s)
  BY DEF NoRowSet, TypeOK, TableOK
<1>2. \A i \in Envs : OnRow(i)' =>
        /\ i # r /\ OnRow(i) /\ row[i] \in Attempts
        /\ pc'[i] = pc[i] /\ row'[i] = row[i]
  BY LeavesRows
<1> QED BY <1>1, <1>2 DEF RowInv, RowsInHand, Inserting, OnRow, TypeOK, WorldOK

LEMMA RowInvStep == TypeOK /\ RowInv /\ [Next]_vars /\ TypeOK' => RowInv'
<1> SUFFICES ASSUME TypeOK, RowInv, [Next]_vars, TypeOK' PROVE RowInv'
  OBVIOUS
<1>1. ASSUME NEW r \in InitEnvs, NEW ob \in Obligations, NEW f \in Fees,
             InitFindsNone(r, ob, f)
      PROVE  RowInv'
  BY <1>1, EnvAssumption
  DEF InitFindsNone, Begin, table, keys, world, RowInv, RoleOf, RowsInHand,
      TrackedRows, LocksExclude, OnRow, Inserting, TypeOK, EnvsOK, Envs
<1>2. ASSUME NEW r \in InitEnvs, NEW ob \in Obligations, NEW f \in Fees,
             InitReuses(r, ob, f)
      PROVE  RowInv'
  BY <1>2
  DEF InitReuses, Reusable, table, keys, envs, RowInv, RoleOf, RowsInHand,
      TrackedRows, LocksExclude, OnRow, Inserting
<1>3. ASSUME NEW r \in InitEnvs, NEW ob \in Obligations, NEW f \in Fees,
             InitRetires(r, ob, f)
      PROVE  RowInv'
  BY <1>3, EnvAssumption
  DEF InitRetires, Retirable, Begin, table, keys, world, RowInv, RoleOf, RowsInHand,
      TrackedRows, LocksExclude, OnRow, Inserting, TypeOK, EnvsOK, Envs
<1>4. ASSUME NEW r \in InitEnvs, CancelFound(r) PROVE RowInv'
  <2>1. /\ r \in Envs /\ row[r] \in Attempts /\ pc[r] = "cancel" /\ Rest /\ Leaves(r)
        /\ \/ NoRowSet
           \/ status[row[r]] = "initiated" /\ RowSet(row[r], "cancelled", "failed")
    BY <1>4, CancelEffect
  <2>2. status[row[r]] \notin {"none", "received"}
    BY <2>1 DEF RowInv, RowsInHand, OnRow, Inserting
  <2>3. \A i \in Envs \ {r} : Inserting(i) => row[i] # row[r]
    BY <2>2 DEF RowInv, RowsInHand
  <2>4. RowsInHand'
    BY <2>1, <2>2, <2>3, RowInvLeaves DEF RowSet, Rest
  <2>5. TrackedRows'
    BY <2>1 DEF RowInv, TrackedRows, Rest, NoRowSet, RowSet, TypeOK, TableOK
  <2> QED BY <2>1, <2>4, <2>5, LeavesRoles DEF RowInv
<1>5. ASSUME NEW r \in Envs, ExpireFound(r) \/ MarkFailed(r) PROVE RowInv'
  <2>1. /\ row[r] \in Attempts /\ pc[r] \in {"expire", "fail"} /\ Rest /\ Leaves(r)
        /\ NoRowSet \/ RowSet(row[r], "failed", "failed")
    BY <1>5, FailEffect
  <2>2. status[row[r]] # "none" /\ \A i \in Envs \ {r} : Inserting(i) => row[i] # row[r]
    BY <2>1 DEF RowInv, RowsInHand, OnRow, Inserting
  <2>3. RowsInHand'
    BY <2>1, <2>2, RowInvLeaves DEF RowSet, Rest
  <2>4. TrackedRows'
    BY <2>1 DEF RowInv, TrackedRows, Rest, NoRowSet, RowSet, TypeOK, TableOK
  <2> QED BY <2>1, <2>3, <2>4, LeavesRoles DEF RowInv
<1>6. ASSUME NEW r \in InitEnvs, InsertReceived(r) PROVE RowInv'
  <2>0. /\ r \in Envs /\ pc[r] = "insert"
        /\ UNCHANGED <<token, tracked, created, session, handed>>
        /\ \/ Leaves(r) /\ NoRowSet
           \/ \E a \in Attempts :
                /\ status[a] = "none" /\ RowSet(a, "received", "pending")
                /\ \/ Leaves(r)
                   \/ Others(r) /\ pc'[r] = "start" /\ row'[r] = a
    BY <1>6, InsertEffect
  <2>1. CASE Leaves(r) /\ NoRowSet
    <3>1. \A i \in Envs : OnRow(i)' =>
            /\ i # r /\ OnRow(i) /\ row[i] \in Attempts
            /\ pc'[i] = pc[i] /\ row'[i] = row[i]
      BY <2>0, <2>1, LeavesRows
    <3>2. RowsInHand' /\ TrackedRows'
      BY <2>0, <2>1, <3>1 DEF RowInv, RowsInHand, TrackedRows, Inserting, OnRow, NoRowSet
    <3> QED BY <2>0, <2>1, <3>2, LeavesRoles DEF RowInv
  <2>2. ASSUME NEW a \in Attempts, status[a] = "none", RowSet(a, "received", "pending"),
               Leaves(r) \/ (Others(r) /\ pc'[r] = "start" /\ row'[r] = a)
        PROVE  RowInv'
    <3>1. \A b \in Attempts : status'[b] = IF b = a THEN "received" ELSE status[b]
      BY <2>2 DEF RowSet, TypeOK, TableOK
    <3>2. \A i \in Envs \ {r} : pc'[i] = pc[i] /\ row'[i] = row[i]
      BY <2>2 DEF Leaves, Others
    <3>3. pc'[r] = "idle" \/ (pc'[r] = "start" /\ row'[r] = a)
      BY <2>0, <2>2 DEF Leaves
    <3>4. \A i \in Envs : OnRow(i) => row[i] # a /\ row[i] \in Attempts
      BY <2>2 DEF RowInv, RowsInHand, OnRow, TypeOK, EnvsOK
    <3>5. RowsInHand'
      BY <2>0, <3>1, <3>2, <3>3, <3>4, <2>2
      DEF RowInv, RowsInHand, Inserting, OnRow, TypeOK, WorldOK
    <3>6. TrackedRows'
      BY <2>0, <2>2, <3>1 DEF RowInv, TrackedRows
    <3>7. RoleOf' /\ LocksExclude'
      BY <2>0, <3>2, <3>3, EnvAssumption DEF RowInv, RoleOf, LocksExclude, Envs
    <3> QED BY <3>5, <3>6, <3>7 DEF RowInv
  <2> QED BY <2>0, <2>1, <2>2
<1>7. ASSUME NEW r \in InitEnvs, StartSession(r) PROVE RowInv'
  <2>1. r \in Envs /\ pc[r] = "start" /\ UNCHANGED table /\ handed' = handed
    BY <1>7 DEF StartSession, Envs
  <2>2. Moves(r, "record") \/ Moves(r, "fail")
    BY <1>7, <2>1, GotoEffect DEF StartSession, TypeOK
  <2>3. \A i \in Envs : OnRow(i)' => OnRow(i) /\ row'[i] = row[i]
                          /\ (i # r => pc'[i] = pc[i])
    BY <2>1, <2>2, MovesRows DEF OnRow
  <2>4. RowsInHand' /\ TrackedRows'
    BY <2>1, <2>2, <2>3
    DEF RowInv, RowsInHand, TrackedRows, Inserting, OnRow, Moves, table
  <2>5. RoleOf' /\ LocksExclude'
    BY <2>1, <2>2, EnvAssumption DEF RowInv, RoleOf, LocksExclude, Moves, Others, Envs
  <2> QED BY <2>4, <2>5 DEF RowInv
<1>8. ASSUME NEW r \in InitEnvs, RecordToken(r) PROVE RowInv'
  <2>1. /\ r \in Envs /\ row[r] \in Attempts /\ pc[r] = "record"
        /\ UNCHANGED tracked
        /\ \/ NoRowSet /\ handed' = handed /\ Moves(r, "fail")
           \/ /\ RowSet(row[r], "initiated", payment[row[r]])
              /\ \/ Leaves(r) /\ handed' = handed \cup {row[r]}
                 \/ Moves(r, "fail") /\ handed' = handed
    BY <1>8, RecordEffect
  <2>2. status[row[r]] = "received" /\ \A i \in Envs \ {r} : OnRow(i) => row[i] # row[r]
    BY <2>1 DEF RowInv, RowsInHand, OnRow, Inserting
  <2>3. \A b \in Attempts : status'[b] = status[b] \/ (b = row[r] /\ status'[b] = "initiated")
    BY <2>1 DEF NoRowSet, RowSet, TypeOK, TableOK
  <2>4. \A i \in Envs : OnRow(i)' => OnRow(i) /\ row'[i] = row[i]
                          /\ row[i] \in Attempts /\ (i # r => pc'[i] = pc[i])
    BY <2>1, MovesRows, LeavesRows DEF OnRow
  <2>5. pc'[r] \in {"fail", "idle"}
    BY <2>1 DEF Moves, Leaves
  <2>6. \A a \in handed' : a \in handed \/ (a = row[r] /\ status'[a] = "initiated")
    BY <2>1 DEF RowSet, TypeOK, TableOK
  <2>7. RowsInHand'
    BY <2>1, <2>2, <2>3, <2>4, <2>5, <2>6
    DEF RowInv, RowsInHand, Inserting, OnRow, TypeOK, WorldOK
  <2>8. TrackedRows'
    BY <2>1, <2>2, <2>3 DEF RowInv, TrackedRows
  <2>9. RoleOf' /\ LocksExclude'
    BY <2>1, <2>5, EnvAssumption DEF RowInv, RoleOf, LocksExclude, Moves, Leaves, Others, Envs
  <2> QED BY <2>7, <2>8, <2>9 DEF RowInv
<1>9. ASSUME NEW r \in ProcessEnvs, NEW a \in Attempts, ProcessLoad(r, a) PROVE RowInv'
  <2>1. r \in Envs /\ a \in handed /\ UNCHANGED table /\ handed' = handed
    BY <1>9 DEF ProcessLoad, Envs, world
  <2>2. /\ Others(r) /\ pc[r] = "idle" /\ row'[r] = a /\ pc'[r] \in {"claim", "fail"}
    BY <1>9, <2>1, BeginEffect DEF ProcessLoad, TypeOK
  <2>3. status[a] \notin {"none", "received"}
    BY <2>1 DEF RowInv, RowsInHand
  <2>4. RowsInHand'
    BY <2>1, <2>2, <2>3 DEF RowInv, RowsInHand, Inserting, OnRow, Others, table
  <2>5. TrackedRows'
    BY <2>1 DEF RowInv, TrackedRows, table
  <2>6. RoleOf' /\ LocksExclude'
    BY <2>1, <2>2, EnvAssumption DEF RowInv, RoleOf, LocksExclude, Others, Envs
  <2> QED BY <2>4, <2>5, <2>6 DEF RowInv
<1>10. ASSUME NEW r \in ProcessEnvs, ClaimLock(r) PROVE RowInv'
  <2>1. r \in Envs /\ pc[r] = "claim" /\ UNCHANGED table /\ handed' = handed
    BY <1>10 DEF ClaimLock, Envs, world
  <2>2. Leaves(r) \/ (Moves(r, "locked") /\ ~LockHeld(row[r]))
    BY <1>10, <2>1, GotoEffect, FinishEffect DEF ClaimLock, TypeOK
  <2>3. \A i \in Envs : OnRow(i)' => OnRow(i) /\ row'[i] = row[i]
                          /\ (i # r => pc'[i] = pc[i])
    BY <2>1, <2>2, MovesRows, LeavesRows DEF OnRow
  <2>4. pc'[r] \in {"locked", "idle"}
    BY <2>1, <2>2 DEF Moves, Leaves
  <2>5. RowsInHand' /\ TrackedRows'
    BY <2>1, <2>3, <2>4 DEF RowInv, RowsInHand, TrackedRows, Inserting, OnRow, table
  <2>6. RoleOf' /\ LocksExclude'
    BY <2>1, <2>2, EnvAssumption
    DEF RowInv, RoleOf, LocksExclude, LockHeld, Moves, Leaves, Others, Envs
  <2> QED BY <2>5, <2>6 DEF RowInv
<1>11. ASSUME NEW r \in ProcessEnvs, ClaimDecide(r) PROVE RowInv'
  <2>1. /\ r \in Envs /\ row[r] \in Attempts /\ pc[r] = "locked" /\ Rest
        /\ Leaves(r) \/ Moves(r, "complete")
        /\ \/ NoRowSet
           \/ Claimable(row[r]) /\ RowSet(row[r], "processing", payment[row[r]])
    BY <1>11, ClaimEffect
  <2>2. \A b \in Attempts : status'[b] = status[b] \/
          (b = row[r] /\ status[b] \in {"initiated", "processing"} /\ status'[b] = "processing")
    BY <2>1 DEF NoRowSet, RowSet, Claimable, IsStaleProcessing, TypeOK, TableOK
  <2>3. \A i \in Envs : OnRow(i)' => OnRow(i) /\ row'[i] = row[i]
                          /\ row[i] \in Attempts /\ (i # r => pc'[i] = pc[i])
    BY <2>1, MovesRows, LeavesRows DEF OnRow
  <2>4. pc'[r] \in {"complete", "idle"}
    BY <2>1 DEF Moves, Leaves
  <2>5. RowsInHand'
    BY <2>1, <2>2, <2>3, <2>4 DEF RowInv, RowsInHand, Inserting, OnRow, Rest, TypeOK, WorldOK
  <2>6. TrackedRows'
    BY <2>1, <2>2 DEF RowInv, TrackedRows, Rest
  <2>7. RoleOf' /\ LocksExclude'
    BY <2>1, <2>4, EnvAssumption DEF RowInv, RoleOf, LocksExclude, Moves, Leaves, Others, Envs
  <2> QED BY <2>5, <2>6, <2>7 DEF RowInv
<1>12. ASSUME NEW r \in ProcessEnvs, Complete(r) PROVE RowInv'
  <2>1. r \in Envs /\ pc[r] \in {"complete", "retry"} /\ UNCHANGED table /\ handed' = handed
    BY <1>12 DEF Complete, Envs
  <2>2. Others(r) /\ row'[r] = row[r] /\ pc'[r] \in {"persist", "fail", "retry"}
    BY <1>12, <2>1, GotoEffect, GotoWithEffect DEF Complete, Moves, TypeOK
  <2>3. RowsInHand' /\ TrackedRows'
    BY <2>1, <2>2 DEF RowInv, RowsInHand, TrackedRows, Inserting, OnRow, Others, table
  <2>4. RoleOf' /\ LocksExclude'
    BY <2>1, <2>2, EnvAssumption DEF RowInv, RoleOf, LocksExclude, Others, Envs
  <2> QED BY <2>3, <2>4 DEF RowInv
<1>13. ASSUME NEW r \in ProcessEnvs, Persist(r) PROVE RowInv'
  <2>1. /\ r \in Envs /\ row[r] \in Attempts /\ pc[r] = "persist" /\ handed' = handed
        /\ Leaves(r) \/ Moves(r, "fail")
        /\ \/ NoRowSet /\ tracked' = tracked
           \/ /\ RowSet(row[r], answer[r], DeriveSingle(answer[r]))
              /\ tracked' = [tracked EXCEPT ![row[r]] = TRUE]
    BY <1>13, PersistEffect
  <2>2. answer[r] \in {"pending", "processed", "failed"}
    BY <2>1 DEF TypeOK, EnvsOK
  <2>3. \A b \in Attempts : \/ status'[b] = status[b] /\ tracked'[b] = tracked[b]
                            \/ b = row[r] /\ status'[b] = answer[r]
    BY <2>1 DEF NoRowSet, RowSet, TypeOK, TableOK
  <2>4. \A i \in Envs : OnRow(i)' => OnRow(i) /\ row'[i] = row[i]
                          /\ row[i] \in Attempts /\ (i # r => pc'[i] = pc[i])
    BY <2>1, MovesRows, LeavesRows DEF OnRow
  <2>5. pc'[r] \in {"fail", "idle"}
    BY <2>1 DEF Moves, Leaves
  <2>6. status[row[r]] \notin {"none", "received"}
    BY <2>1 DEF RowInv, RowsInHand, OnRow, Inserting
  <2>7. RowsInHand'
    BY <2>1, <2>2, <2>3, <2>4, <2>5, <2>6
    DEF RowInv, RowsInHand, Inserting, OnRow, TypeOK, WorldOK
  <2>8. TrackedRows'
    BY <2>2, <2>3 DEF RowInv, TrackedRows
  <2>9. RoleOf' /\ LocksExclude'
    BY <2>1, <2>5, EnvAssumption DEF RowInv, RoleOf, LocksExclude, Moves, Leaves, Others, Envs
  <2> QED BY <2>7, <2>8, <2>9 DEF RowInv
<1>14. ASSUME NEW r \in DetailsEnvs, NEW ref \in Refs, DetailsRead(r, ref) PROVE RowInv'
  BY <1>14, EnvAssumption
  DEF DetailsRead, RefRows, TerminalStatuses, Begin, table, keys, world, RowInv, RoleOf,
      RowsInHand, TrackedRows, LocksExclude, OnRow, Inserting, TypeOK, EnvsOK, Envs
<1>15. ASSUME NEW r \in DetailsEnvs, DetailsQuery(r) PROVE RowInv'
  <2>1. r \in Envs /\ pc[r] = "query" /\ UNCHANGED <<table, world>>
    BY <1>15 DEF DetailsQuery, Envs
  <2>2. Leaves(r) \/ (Others(r) /\ row'[r] = row[r] /\ pc'[r] = "refresh")
    BY <1>15, <2>1, FinishEffect, GotoWithEffect DEF DetailsQuery, TypeOK
  <2>3. RowsInHand' /\ TrackedRows'
    BY <2>1, <2>2
    DEF RowInv, RowsInHand, TrackedRows, Inserting, OnRow, Leaves, Others, table, world
  <2>4. RoleOf' /\ LocksExclude'
    BY <2>1, <2>2, EnvAssumption DEF RowInv, RoleOf, LocksExclude, Leaves, Others, Envs
  <2> QED BY <2>3, <2>4 DEF RowInv
<1>16. ASSUME NEW r \in DetailsEnvs, DetailsRefresh(r) PROVE RowInv'
  <2>1. /\ r \in Envs /\ row[r] \in Attempts /\ pc[r] = "refresh" /\ handed' = handed
        /\ Leaves(r)
        /\ \/ NoRowSet /\ tracked' = tracked
           \/ /\ RowSet(row[r], answer[r], DeriveSingle(answer[r]))
              /\ tracked' = [tracked EXCEPT ![row[r]] = TRUE]
    BY <1>16, RefreshEffect
  <2>2. answer[r] \in {"pending", "processed", "failed"}
    BY <2>1 DEF TypeOK, EnvsOK
  <2>3. status[row[r]] \notin {"none", "received"}
    BY <2>1 DEF RowInv, RowsInHand, OnRow, Inserting
  <2>4. \A i \in Envs \ {r} : Inserting(i) => row[i] # row[r]
    BY <2>3 DEF RowInv, RowsInHand
  <2>5. RowsInHand'
    BY <2>1, <2>2, <2>3, <2>4, RowInvLeaves DEF RowSet
  <2>6. TrackedRows'
    BY <2>1, <2>2 DEF RowInv, TrackedRows, NoRowSet, RowSet, TypeOK, TableOK
  <2> QED BY <2>1, <2>5, <2>6, LeavesRoles DEF RowInv
<1>17. ASSUME NEW r \in Envs, Crash(r) PROVE RowInv'
  <2>1. Leaves(r) /\ UNCHANGED <<table, world>>
    BY <1>17, FinishEffect DEF Crash, TypeOK
  <2>2. RowsInHand' /\ TrackedRows'
    BY <2>1, LeavesRows DEF RowInv, RowsInHand, TrackedRows, Inserting, OnRow, table, world
  <2> QED BY <2>1, <2>2, LeavesRoles DEF RowInv
<1>18. ASSUME NEW a \in Attempts, CustomerSubmits(a) \/ PayGovSettles(a) PROVE RowInv'
  BY <1>18
  DEF CustomerSubmits, PayGovSettles, table, keys, envs, RowInv, RoleOf, RowsInHand,
      TrackedRows, LocksExclude, OnRow, Inserting
<1>19. CASE Sweep
  <2>1. /\ UNCHANGED <<tracked, handed, pc, row>>
        /\ \A b \in Attempts : status'[b] = status[b] \/
             (status[b] = "initiated" /\ status'[b] = "cancelled")
    BY <1>19 DEF Sweep, Sweepable, OldestBatch, IsExpiredInitiated, world, envs
  <2>2. \A i \in Envs : OnRow(i) => row[i] \in Attempts
    BY DEF OnRow, TypeOK, EnvsOK
  <2> QED
    BY <2>1, <2>2
    DEF RowInv, RoleOf, RowsInHand, TrackedRows, LocksExclude, OnRow, Inserting, TypeOK, WorldOK
<1>20. CASE Tick
  BY <1>20
  DEF Tick, world, keys, RowInv, RoleOf, RowsInHand, TrackedRows, LocksExclude, OnRow, Inserting
<1>21. CASE Recover
  BY <1>21
  DEF Recover, table, keys, envs, RowInv, RoleOf, RowsInHand, TrackedRows, LocksExclude,
      OnRow, Inserting
<1>22. CASE UNCHANGED vars
  BY <1>22
  DEF vars, table, keys, envs, world, RowInv, RoleOf, RowsInHand, TrackedRows, LocksExclude,
      OnRow, Inserting
<1> QED
  BY <1>1, <1>2, <1>3, <1>4, <1>5, <1>6, <1>7, <1>8, <1>9, <1>10, <1>11, <1>12, <1>13,
     <1>14, <1>15, <1>16, <1>17, <1>18, <1>19, <1>20, <1>21, <1>22
  DEF Next, InitArrives, InitContinues, ProcessContinues, DetailsContinues, Envs

-----------------------------------------------------------------------------
(* POST /process is serialized per row.                                     *)

ClaimInv == ClaimsAreFresh /\ ExclusiveCompletion

(* Nobody starts completing, and a row under completion either stays as it  *)
(* is or takes an outcome.                                                  *)
LEMMA ClaimInvKeeps ==
  ASSUME ClaimInv,
         \A i \in ProcessEnvs : InCompletion(i)' =>
           InCompletion(i) /\ row'[i] = row[i] /\ life'[i] = life[i],
         \A i \in ProcessEnvs : InCompletion(i) =>
           \/ status'[row[i]] = status[row[i]] /\ updated'[row[i]] = updated[row[i]]
           \/ status'[row[i]] \in {"pending", "processed", "failed"}
  PROVE  ClaimInv'
BY DEF ClaimInv, ClaimsAreFresh, ExclusiveCompletion, Completing, InCompletion

(* A request leaves, or gives up with "fail", after a write of row a that   *)
(* either meets nobody completing a or leaves an outcome there.             *)
LEMMA ClaimInvWrites ==
  ASSUME TypeOK, ClaimInv, NEW r \in Envs, Leaves(r) \/ Moves(r, "fail"),
         NEW a \in Attempts, NEW s, NEW p, NoRowSet \/ RowSet(a, s, p),
         \/ s \in {"pending", "processed", "failed"}
         \/ \A i \in ProcessEnvs : InCompletion(i) => row[i] # a
  PROVE  ClaimInv'
<1>1. \A i \in ProcessEnvs : InCompletion(i)' =>
        InCompletion(i) /\ row'[i] = row[i] /\ life'[i] = life[i]
  BY DEF Leaves, Moves, Others, InCompletion, Envs
<1>2. \A i \in ProcessEnvs : InCompletion(i) => row[i] \in Attempts
  BY DEF InCompletion, TypeOK, EnvsOK, Envs
<1>3. \A b \in Attempts : \/ status'[b] = status[b] /\ updated'[b] = updated[b]
                          \/ b = a /\ status'[b] = s
  BY DEF NoRowSet, RowSet, TypeOK, TableOK
<1> QED BY <1>1, <1>2, <1>3, ClaimInvKeeps

LEMMA ClaimInvStep == TypeOK /\ RowInv /\ ClaimInv /\ [Next]_vars /\ TypeOK' => ClaimInv'
<1> SUFFICES ASSUME TypeOK, RowInv, ClaimInv, [Next]_vars, TypeOK' PROVE ClaimInv'
  OBVIOUS
<1>0. \A i \in ProcessEnvs : InCompletion(i) =>
        row[i] \in Attempts /\ status[row[i]] \notin {"none", "received", "initiated", "cancelled"}
  BY DEF InCompletion, TypeOK, EnvsOK, Envs, RowInv, RowsInHand, OnRow, ClaimInv, ClaimsAreFresh
<1>1. ASSUME NEW r \in InitEnvs, InitArrives(r) PROVE ClaimInv'
  <2>1. UNCHANGED table /\ (UNCHANGED envs \/ \E w, a, q : Begin(r, w, a, q))
    BY <1>1 DEF InitArrives, InitFindsNone, InitReuses, InitRetires
  <2>2. \A i \in ProcessEnvs : pc'[i] = pc[i] /\ row'[i] = row[i] /\ life'[i] = life[i]
    BY <2>1, EnvAssumption, BeginEffect DEF envs, Others, TypeOK, Envs
  <2> QED BY <2>1, <2>2, ClaimInvKeeps DEF InCompletion, table
<1>2. ASSUME NEW r \in InitEnvs, CancelFound(r) PROVE ClaimInv'
  BY <1>0, <1>2, CancelEffect, ClaimInvWrites
<1>3. ASSUME NEW r \in Envs, ExpireFound(r) \/ MarkFailed(r) PROVE ClaimInv'
  BY <1>3, FailEffect, ClaimInvWrites
<1>4. ASSUME NEW r \in InitEnvs, InsertReceived(r) PROVE ClaimInv'
  <2>1. NoRowSet \/ \E a \in Attempts : status[a] = "none" /\ RowSet(a, "received", "pending")
    BY <1>4, InsertEffect
  <2>2. \A i \in ProcessEnvs : pc'[i] = pc[i] /\ row'[i] = row[i] /\ life'[i] = life[i]
    BY <1>4, InsertEffect, EnvAssumption DEF Leaves, Others, Envs
  <2>3. \A b \in Attempts : \/ status'[b] = status[b] /\ updated'[b] = updated[b]
                            \/ status[b] = "none"
    BY <2>1 DEF NoRowSet, RowSet, TypeOK, TableOK
  <2> QED BY <1>0, <2>2, <2>3, ClaimInvKeeps DEF InCompletion
<1>5. ASSUME NEW r \in InitEnvs, StartSession(r) PROVE ClaimInv'
  <2>1. r \in Envs /\ UNCHANGED table /\ (Moves(r, "record") \/ Moves(r, "fail"))
    BY <1>5, GotoEffect DEF StartSession, TypeOK, Envs
  <2> QED BY <2>1, EnvAssumption, ClaimInvKeeps DEF Moves, Others, InCompletion, table, Envs
<1>6. ASSUME NEW r \in InitEnvs, RecordToken(r) PROVE ClaimInv'
  <2>1. \A i \in ProcessEnvs : InCompletion(i) => row[i] # row[r]
    BY <1>0, <1>6 DEF RecordToken, RowInv, RowsInHand, Inserting, Envs
  <2> QED BY <1>6, <2>1, RecordEffect, ClaimInvWrites
<1>7. ASSUME NEW r \in ProcessEnvs, NEW a \in Attempts, ProcessLoad(r, a) PROVE ClaimInv'
  <2>1. r \in Envs /\ UNCHANGED table /\ Others(r) /\ pc'[r] \in {"claim", "fail"}
    BY <1>7, BeginEffect DEF ProcessLoad, TypeOK, Envs
  <2> QED BY <2>1, ClaimInvKeeps DEF Others, InCompletion, table, Envs
<1>8. ASSUME NEW r \in ProcessEnvs, ClaimLock(r) PROVE ClaimInv'
  <2>1. r \in Envs /\ UNCHANGED table /\ (Leaves(r) \/ Moves(r, "locked"))
    BY <1>8, GotoEffect, FinishEffect DEF ClaimLock, TypeOK, Envs
  <2> QED BY <2>1, ClaimInvKeeps DEF Leaves, Moves, Others, InCompletion, table, Envs
<1>9. ASSUME NEW r \in ProcessEnvs, ClaimDecide(r) PROVE ClaimInv'
  <2>1. /\ r \in Envs /\ row[r] \in Attempts /\ pc[r] = "locked"
        /\ \/ NoRowSet /\ Leaves(r)
           \/ /\ Claimable(row[r]) /\ RowSet(row[r], "processing", payment[row[r]])
              /\ Leaves(r) \/ Moves(r, "complete")
    BY <1>9, ClaimEffect
  (* A live claim is younger than any stale row. *)
  <2>2. Claimable(row[r]) => \A i \in ProcessEnvs : InCompletion(i) => row[i] # row[r]
    <3> SUFFICES ASSUME Claimable(row[r]), NEW i \in ProcessEnvs, InCompletion(i),
                        row[i] = row[r]
                 PROVE  FALSE
      OBVIOUS
    <3>1. status[row[i]] = "processing" /\ updated[row[i]] >= ProcessingStale
      BY <1>0 DEF Claimable, IsStaleProcessing
    <3>2. updated[row[i]] <= life[i]
      BY <3>1 DEF ClaimInv, ClaimsAreFresh
    <3>3. life[i] \in 0 .. LambdaTimeout /\ updated[row[i]] \in 0 .. ProcessingStale
      BY <1>0 DEF TypeOK, EnvsOK, TableOK, Envs
    <3> QED BY <3>1, <3>2, <3>3, TimeAssumption
  <2>3. CASE Leaves(r)
    BY <2>1, <2>2, <2>3, ClaimInvWrites
  <2>4. CASE /\ Claimable(row[r]) /\ RowSet(row[r], "processing", payment[row[r]])
             /\ Moves(r, "complete")
    <3>1. status'[row[r]] = "processing" /\ updated'[row[r]] = 0 /\ life'[r] >= 0
      BY <2>1, <2>4 DEF RowSet, TypeOK, TableOK, EnvsOK
    <3>2. \A b \in Attempts \ {row[r]} : status'[b] = status[b] /\ updated'[b] = updated[b]
      BY <2>4 DEF RowSet, TypeOK, TableOK
    <3>3. \A i \in ProcessEnvs : i # r /\ InCompletion(i)' =>
            /\ InCompletion(i) /\ row'[i] = row[i] /\ life'[i] = life[i]
            /\ row[i] \in Attempts \ {row[r]}
      BY <1>0, <2>1, <2>2, <2>4 DEF Moves, Others, InCompletion, Envs
    <3>4. row'[r] = row[r]
      BY <2>4 DEF Moves
    <3>5. ClaimsAreFresh'
      BY <3>1, <3>2, <3>3, <3>4 DEF ClaimInv, ClaimsAreFresh
    <3>6. ExclusiveCompletion'
      BY <3>3, <3>4 DEF ClaimInv, ExclusiveCompletion, Completing, InCompletion
    <3> QED BY <3>5, <3>6 DEF ClaimInv
  <2> QED BY <2>1, <2>3, <2>4
<1>10. ASSUME NEW r \in ProcessEnvs, Complete(r) PROVE ClaimInv'
  <2>1. r \in Envs /\ pc[r] \in {"complete", "retry"} /\ UNCHANGED table
    BY <1>10 DEF Complete, Envs
  <2>2. Others(r) /\ row'[r] = row[r] /\ life'[r] = life[r]
    BY <1>10, <2>1, GotoEffect, GotoWithEffect DEF Complete, Moves, TypeOK
  <2> QED BY <2>1, <2>2, ClaimInvKeeps DEF Others, InCompletion, table, Envs
<1>11. ASSUME NEW r \in ProcessEnvs, Persist(r) PROVE ClaimInv'
  <2>1. answer[r] \in {"pending", "processed", "failed"}
    BY <1>11 DEF Persist, TypeOK, EnvsOK, Envs
  <2> QED BY <1>11, <2>1, PersistEffect, ClaimInvWrites
<1>12. ASSUME NEW r \in DetailsEnvs, NEW ref \in Refs, DetailsRead(r, ref) PROVE ClaimInv'
  <2>1. UNCHANGED table /\ \E a : Begin(r, "query", a, NoAsk)
    BY <1>12 DEF DetailsRead
  <2>2. \A i \in ProcessEnvs : pc'[i] = pc[i] /\ row'[i] = row[i] /\ life'[i] = life[i]
    BY <2>1, EnvAssumption, BeginEffect DEF Others, TypeOK, Envs
  <2> QED BY <2>1, <2>2, ClaimInvKeeps DEF InCompletion, table
<1>13. ASSUME NEW r \in DetailsEnvs, DetailsQuery(r) PROVE ClaimInv'
  <2>1. r \in Envs /\ UNCHANGED table /\ Others(r)
    BY <1>13, FinishEffect, GotoWithEffect DEF DetailsQuery, TypeOK, Envs, Leaves
  <2> QED BY <2>1, EnvAssumption, ClaimInvKeeps DEF Others, InCompletion, table, Envs
<1>14. ASSUME NEW r \in DetailsEnvs, DetailsRefresh(r) PROVE ClaimInv'
  <2>1. answer[r] \in {"pending", "processed", "failed"}
    BY <1>14 DEF DetailsRefresh, TypeOK, EnvsOK, Envs
  <2> QED BY <1>14, <2>1, RefreshEffect, ClaimInvWrites
<1>15. ASSUME NEW r \in Envs, Crash(r) PROVE ClaimInv'
  <2>1. Leaves(r) /\ UNCHANGED table
    BY <1>15, FinishEffect DEF Crash, TypeOK
  <2> QED BY <2>1, ClaimInvKeeps DEF Leaves, Others, InCompletion, table, Envs
<1>16. CASE Sweep
  <2>1. /\ UNCHANGED <<pc, row, life>>
        /\ \A b \in Attempts : \/ status'[b] = status[b] /\ updated'[b] = updated[b]
                               \/ status[b] = "initiated"
    BY <1>16 DEF Sweep, Stamp, Sweepable, OldestBatch, IsExpiredInitiated, envs
  <2> QED BY <1>0, <2>1, ClaimInvKeeps DEF InCompletion
<1>17. CASE Tick
  <2>1. UNCHANGED <<status, pc, row>>
    BY <1>17 DEF Tick
  <2>2. ASSUME NEW i \in ProcessEnvs, InCompletion(i), updated[row[i]] <= life[i]
        PROVE  updated'[row[i]] <= life'[i]
    <3>1. life'[i] = life[i] + 1
      BY <1>17, <2>2 DEF Tick, InCompletion, Envs
    <3>2. updated'[row[i]] <= updated[row[i]] + 1
      BY <1>0, <1>17, <2>2, TimeAssumption DEF Tick, Older, TypeOK, TableOK
    <3> QED BY <1>0, <2>2, <3>1, <3>2, TimeAssumption DEF TypeOK, TableOK, EnvsOK, Envs
  <2> QED BY <2>1, <2>2 DEF ClaimInv, ClaimsAreFresh, ExclusiveCompletion, Completing, InCompletion
<1>18. ASSUME NEW a \in Attempts, CustomerSubmits(a) \/ PayGovSettles(a) PROVE ClaimInv'
  BY <1>18, ClaimInvKeeps DEF CustomerSubmits, PayGovSettles, InCompletion, table, envs
<1>19. CASE Recover \/ UNCHANGED vars
  BY <1>19, ClaimInvKeeps DEF Recover, InCompletion, vars, table, envs
<1> QED
  BY <1>1, <1>2, <1>3, <1>4, <1>5, <1>6, <1>7, <1>8, <1>9, <1>10, <1>11, <1>12, <1>13,
     <1>14, <1>15, <1>16, <1>17, <1>18, <1>19
  DEF Next, InitContinues, ProcessContinues, DetailsContinues, Envs

-----------------------------------------------------------------------------
(* What Pay.gov has done with an attempt, against its status and against    *)
(* the answers requests hold.                                               *)

Fits(s, x) ==
  /\ s \in {"initiated", "cancelled"} => x \in {"open", "submitted"}
  /\ s \in {"none", "received"} => x \in {"none", "open"}
  /\ s = "processed" => x = "settled"
  /\ s = "pending" => x \in {"pending", "settled", "failed"}

HandFits(p, s, x) ==
  /\ p = "record" => x = "open"
  /\ p \in {"persist", "refresh"} =>
       /\ s = "processed" => x = "settled"
       /\ s = "pending" => x \in {"pending", "settled", "failed"}

SessInv ==
  /\ \A a \in Attempts : Fits(status[a], session[a])
  /\ \A r \in Envs : HandFits(pc[r], answer[r], session[row[r]])

LEMMA SessInvMeans == SessInv <=> SessionsMatch /\ PaidMeansCollected
BY DEF SessInv, Fits, HandFits, SessionsMatch, PaidMeansCollected

(* A row that changes takes a status its session allows.                    *)
LEMMA SessInvKeeps ==
  ASSUME SessInv, session' = session,
         \A b \in Attempts : status'[b] = status[b] \/ Fits(status'[b], session[b]),
         \A i \in Envs : \/ pc'[i] \notin {"record", "persist", "refresh"}
                         \/ /\ pc'[i] = pc[i] /\ row'[i] = row[i]
                            /\ answer'[i] = answer[i]
  PROVE  SessInv'
BY DEF SessInv, HandFits

LEMMA SessInvWrites ==
  ASSUME TypeOK, SessInv, session' = session, NEW r \in Envs,
         Leaves(r) \/ (\E w \in {"fail", "complete"} : Moves(r, w)),
         NEW a \in Attempts, NEW s, NEW p, NoRowSet \/ RowSet(a, s, p),
         Fits(s, session[a])
  PROVE  SessInv'
<1>1. \A b \in Attempts : status'[b] = status[b] \/ Fits(status'[b], session[b])
  BY DEF NoRowSet, RowSet, TypeOK, TableOK
<1>2. \A i \in Envs : \/ pc'[i] \notin {"record", "persist", "refresh"}
                      \/ pc'[i] = pc[i] /\ row'[i] = row[i] /\ answer'[i] = answer[i]
  BY DEF Leaves, Moves, Others
<1> QED BY <1>1, <1>2, SessInvKeeps

LEMMA SessInvStep ==
  TypeOK /\ RowInv /\ ClaimInv /\ SessInv /\ [Next]_vars /\ TypeOK' => SessInv'
<1> SUFFICES ASSUME TypeOK, RowInv, ClaimInv, SessInv, [Next]_vars, TypeOK' PROVE SessInv'
  OBVIOUS
<1>1. ASSUME NEW r \in InitEnvs, InitArrives(r) PROVE SessInv'
  <2>1. /\ r \in Envs /\ UNCHANGED <<table, session>>
        /\ UNCHANGED envs \/ (\E w \in {"insert", "cancel", "expire"} : \E a, q : Begin(r, w, a, q))
    BY <1>1 DEF InitArrives, InitFindsNone, InitReuses, InitRetires, world, Envs
  <2>2. \A i \in Envs : \/ pc'[i] \notin {"record", "persist", "refresh"}
                        \/ pc'[i] = pc[i] /\ row'[i] = row[i] /\ answer'[i] = answer[i]
    BY <2>1, BeginEffect DEF envs, Others, TypeOK
  <2> QED BY <2>1, <2>2, SessInvKeeps DEF table
<1>2. ASSUME NEW r \in InitEnvs, CancelFound(r) PROVE SessInv'
  <2>1. /\ r \in Envs /\ row[r] \in Attempts /\ Rest /\ Leaves(r)
        /\ \/ NoRowSet
           \/ status[row[r]] = "initiated" /\ RowSet(row[r], "cancelled", "failed")
    BY <1>2, CancelEffect
  <2>2. status[row[r]] = "initiated" => Fits("cancelled", session[row[r]])
    BY <2>1 DEF SessInv, Fits
  <2>3. CASE NoRowSet
    BY <2>1, <2>3, SessInvWrites DEF Fits, Rest
  <2> QED BY <2>1, <2>2, <2>3, SessInvWrites DEF Rest
<1>3. ASSUME NEW r \in Envs, ExpireFound(r) \/ MarkFailed(r) PROVE SessInv'
  BY <1>3, FailEffect, SessInvWrites DEF Fits, Rest
<1>4. ASSUME NEW r \in InitEnvs, InsertReceived(r) PROVE SessInv'
  <2>1. /\ r \in Envs /\ session' = session
        /\ NoRowSet \/ \E a \in Attempts : status[a] = "none" /\ RowSet(a, "received", "pending")
        /\ Leaves(r) \/ (Others(r) /\ pc'[r] = "start")
    BY <1>4, InsertEffect
  <2>2. \A b \in Attempts : \/ status'[b] = status[b]
                            \/ status[b] = "none" /\ status'[b] = "received"
    BY <2>1 DEF NoRowSet, RowSet, TypeOK, TableOK
  <2>3. \A b \in Attempts : status'[b] = status[b] \/ Fits(status'[b], session[b])
    BY <2>2 DEF SessInv, Fits
  <2>4. \A i \in Envs : \/ pc'[i] \notin {"record", "persist", "refresh"}
                        \/ pc'[i] = pc[i] /\ row'[i] = row[i] /\ answer'[i] = answer[i]
    BY <2>1 DEF Leaves, Others
  <2> QED BY <2>1, <2>3, <2>4, SessInvKeeps
<1>5. ASSUME NEW r \in InitEnvs, StartSession(r) PROVE SessInv'
  <2>1. /\ r \in Envs /\ row[r] \in Attempts /\ pc[r] = "start" /\ UNCHANGED table
        /\ session' \in {session, [session EXCEPT ![row[r]] = "open"]}
    BY <1>5 DEF StartSession, TypeOK, EnvsOK, Envs
  <2>2. \/ Moves(r, "record") /\ answer' = answer /\ session'[row[r]] = "open"
        \/ Moves(r, "fail") /\ answer' = answer
    BY <1>5, <2>1, GotoEffect DEF StartSession, TypeOK, WorldOK
  <2>3. status[row[r]] = "received" /\ \A i \in Envs \ {r} : OnRow(i) => row[i] # row[r]
    BY <2>1 DEF RowInv, RowsInHand, OnRow, Inserting
  <2>4. \A b \in Attempts : \/ session'[b] = session[b]
                            \/ b = row[r] /\ session'[b] = "open"
    BY <2>1 DEF TypeOK, WorldOK
  <2>5. \A b \in Attempts : Fits(status'[b], session'[b])
    BY <2>1, <2>3, <2>4 DEF SessInv, Fits, table
  <2>6. ASSUME NEW i \in Envs PROVE HandFits(pc'[i], answer'[i], session'[row'[i]])
    <3>1. CASE i = r
      BY <2>2, <3>1 DEF HandFits, Moves
    <3>2. CASE i # r /\ OnRow(i)
      <4>1. /\ row[i] \in Attempts /\ session'[row[i]] = session[row[i]]
            /\ pc'[i] = pc[i] /\ row'[i] = row[i] /\ answer'[i] = answer[i]
        BY <2>2, <2>3, <2>4, <3>2 DEF Moves, Others, OnRow, TypeOK, EnvsOK
      <4> QED BY <4>1 DEF SessInv
    <3>3. CASE i # r /\ ~OnRow(i)
      BY <2>2, <3>3 DEF Moves, Others, OnRow, HandFits
    <3> QED BY <3>1, <3>2, <3>3
  <2> QED BY <2>5, <2>6 DEF SessInv
<1>6. ASSUME NEW r \in InitEnvs, RecordToken(r) PROVE SessInv'
  <2>1. /\ r \in Envs /\ row[r] \in Attempts /\ pc[r] = "record" /\ session' = session
        /\ Leaves(r) \/ Moves(r, "fail")
        /\ NoRowSet \/ RowSet(row[r], "initiated", payment[row[r]])
    BY <1>6, RecordEffect
  <2>2. Fits("initiated", session[row[r]])
    BY <2>1 DEF SessInv, HandFits, Fits
  <2> QED BY <2>1, <2>2, SessInvWrites
<1>7. ASSUME NEW r \in ProcessEnvs, NEW a \in Attempts, ProcessLoad(r, a) PROVE SessInv'
  <2>1. /\ r \in Envs /\ UNCHANGED table /\ session' = session
        /\ Others(r) /\ pc'[r] \in {"claim", "fail"}
    BY <1>7, BeginEffect DEF ProcessLoad, TypeOK, Envs, world
  <2> QED BY <2>1, SessInvKeeps DEF Others, table
<1>8. ASSUME NEW r \in ProcessEnvs, ClaimLock(r) PROVE SessInv'
  <2>1. /\ r \in Envs /\ UNCHANGED table /\ session' = session
        /\ Leaves(r) \/ Moves(r, "locked")
    BY <1>8, GotoEffect, FinishEffect DEF ClaimLock, TypeOK, Envs, world
  <2> QED BY <2>1, SessInvKeeps DEF Leaves, Moves, Others, table
<1>9. ASSUME NEW r \in ProcessEnvs, ClaimDecide(r) PROVE SessInv'
  BY <1>9, ClaimEffect, SessInvWrites DEF Fits, Rest
<1>10. ASSUME NEW r \in ProcessEnvs, Complete(r) PROVE SessInv'
  <2>1. /\ r \in Envs /\ row[r] \in Attempts /\ pc[r] \in {"complete", "retry"}
        /\ UNCHANGED table
    BY <1>10 DEF Complete, TypeOK, EnvsOK, Envs
  <2>2. \A b \in Attempts : \/ session'[b] = session[b]
                            \/ /\ b = row[r] /\ session[b] = "submitted"
                               /\ session'[b] \in {"pending", "settled", "failed"}
    BY <1>10, <2>1 DEF Complete, Acts, TypeOK, WorldOK
  <2>3. /\ Others(r) /\ row'[r] = row[r]
        /\ \/ pc'[r] \in {"fail", "retry"}
           \/ /\ pc'[r] = "persist"
              /\ \E raw \in Reports(session'[row[r]]) : answer'[r] = ParseTransactionStatus(raw)
    BY <1>10, <2>1, GotoEffect, GotoWithEffect DEF Complete, Moves, TypeOK
  <2>4. status[row[r]] \notin {"none", "received", "initiated", "cancelled"}
    BY <2>1 DEF RowInv, RowsInHand, OnRow, Inserting, ClaimInv, ClaimsAreFresh, InCompletion
  <2>5. \A b \in Attempts : Fits(status'[b], session'[b])
    BY <2>1, <2>2, <2>4 DEF SessInv, Fits, table
  <2>6. ASSUME NEW i \in Envs PROVE HandFits(pc'[i], answer'[i], session'[row'[i]])
    <3>1. CASE i = r
      BY <2>3, <3>1, ParseReports DEF HandFits
    <3>2. CASE i # r /\ OnRow(i)
      <4>1. row[i] \in Attempts /\ pc'[i] = pc[i] /\ row'[i] = row[i] /\ answer'[i] = answer[i]
        BY <2>3, <3>2 DEF Others, OnRow, TypeOK, EnvsOK
      <4>2. pc[i] = "record" => row[i] # row[r]
        BY <2>4 DEF RowInv, RowsInHand, Inserting
      <4> QED BY <2>2, <4>1, <4>2 DEF SessInv, HandFits
    <3>3. CASE i # r /\ ~OnRow(i)
      BY <2>3, <3>3 DEF Others, OnRow, HandFits
    <3> QED BY <3>1, <3>2, <3>3
  <2> QED BY <2>5, <2>6 DEF SessInv
<1>11. ASSUME NEW r \in ProcessEnvs, Persist(r) PROVE SessInv'
  <2>1. /\ r \in Envs /\ row[r] \in Attempts /\ pc[r] = "persist" /\ session' = session
        /\ Leaves(r) \/ Moves(r, "fail")
        /\ NoRowSet \/ RowSet(row[r], answer[r], DeriveSingle(answer[r]))
    BY <1>11, PersistEffect
  <2>2. Fits(answer[r], session[row[r]])
    BY <2>1 DEF SessInv, HandFits, Fits, TypeOK, EnvsOK
  <2> QED BY <2>1, <2>2, SessInvWrites
<1>12. ASSUME NEW r \in DetailsEnvs, NEW ref \in Refs, DetailsRead(r, ref) PROVE SessInv'
  <2>1. /\ r \in Envs /\ UNCHANGED table /\ session' = session
        /\ \E a : Begin(r, "query", a, NoAsk)
    BY <1>12 DEF DetailsRead, Envs, world
  <2>2. Others(r) /\ pc'[r] = "query"
    BY <2>1, BeginEffect DEF TypeOK
  <2> QED BY <2>1, <2>2, SessInvKeeps DEF Others, table
<1>13. ASSUME NEW r \in DetailsEnvs, DetailsQuery(r) PROVE SessInv'
  <2>1. r \in Envs /\ row[r] \in Attempts /\ UNCHANGED table /\ session' = session
    BY <1>13 DEF DetailsQuery, Envs, world, TypeOK, EnvsOK
  <2>2. \/ Leaves(r)
        \/ /\ Others(r) /\ pc'[r] = "refresh" /\ row'[r] = row[r]
           /\ \E raw \in Reports(session[row[r]]) : answer'[r] = ParseTransactionStatus(raw)
    BY <1>13, <2>1, FinishEffect, GotoWithEffect DEF DetailsQuery, TypeOK
  <2>3. CASE Leaves(r)
    BY <2>1, <2>3, SessInvKeeps DEF Leaves, Others, table
  <2>4. CASE /\ Others(r) /\ pc'[r] = "refresh" /\ row'[r] = row[r]
             /\ \E raw \in Reports(session[row[r]]) : answer'[r] = ParseTransactionStatus(raw)
    <3>1. HandFits(pc'[r], answer'[r], session'[row'[r]])
      BY <2>1, <2>4, ParseReports DEF HandFits
    <3> QED BY <2>1, <2>4, <3>1 DEF SessInv, Others, table
  <2> QED BY <2>2, <2>3, <2>4
<1>14. ASSUME NEW r \in DetailsEnvs, DetailsRefresh(r) PROVE SessInv'
  <2>1. /\ r \in Envs /\ row[r] \in Attempts /\ pc[r] = "refresh" /\ session' = session
        /\ Leaves(r)
        /\ NoRowSet \/ RowSet(row[r], answer[r], DeriveSingle(answer[r]))
    BY <1>14, RefreshEffect
  <2>2. Fits(answer[r], session[row[r]])
    BY <2>1 DEF SessInv, HandFits, Fits, TypeOK, EnvsOK
  <2> QED BY <2>1, <2>2, SessInvWrites
<1>15. ASSUME NEW r \in Envs, Crash(r) PROVE SessInv'
  <2>1. Leaves(r) /\ UNCHANGED table /\ session' = session
    BY <1>15, FinishEffect DEF Crash, TypeOK, world
  <2> QED BY <2>1, SessInvKeeps DEF Leaves, Others, table
<1>16. CASE Sweep
  <2>1. /\ UNCHANGED <<session, pc, row, answer>>
        /\ \A b \in Attempts : \/ status'[b] = status[b]
                               \/ status[b] = "initiated" /\ status'[b] = "cancelled"
    BY <1>16 DEF Sweep, Sweepable, OldestBatch, IsExpiredInitiated, envs, world
  <2>2. \A b \in Attempts : status'[b] = status[b] \/ Fits(status'[b], session[b])
    BY <2>1 DEF SessInv, Fits
  <2> QED BY <2>1, <2>2, SessInvKeeps
<1>17. CASE Tick \/ Recover \/ UNCHANGED vars
  BY <1>17, SessInvKeeps DEF Tick, Recover, vars, table, world, envs
<1>18. ASSUME NEW a \in Attempts, CustomerSubmits(a) PROVE SessInv'
  <2>1. /\ UNCHANGED <<status, pc, row, answer>> /\ session[a] = "open" /\ a \in handed
        /\ \A b \in Attempts : session'[b] = IF b = a THEN "submitted" ELSE session[b]
    BY <1>18 DEF CustomerSubmits, table, envs, TypeOK, WorldOK
  <2>2. status[a] \notin {"none", "received"} /\ \A i \in Envs : Inserting(i) => row[i] # a
    BY <2>1 DEF RowInv, RowsInHand
  <2>3. \A b \in Attempts : Fits(status'[b], session'[b])
    BY <2>1, <2>2 DEF SessInv, Fits
  <2>4. \A i \in Envs : OnRow(i) => row[i] \in Attempts
    BY DEF OnRow, TypeOK, EnvsOK
  <2> QED BY <2>1, <2>2, <2>3, <2>4 DEF SessInv, HandFits, Inserting, OnRow
<1>19. ASSUME NEW a \in Attempts, PayGovSettles(a) PROVE SessInv'
  <2>1. /\ UNCHANGED <<status, pc, row, answer>> /\ session[a] = "pending"
        /\ \A b \in Attempts : \/ session'[b] = session[b]
                               \/ b = a /\ session'[b] \in {"settled", "failed"}
    BY <1>19 DEF PayGovSettles, table, envs, TypeOK, WorldOK
  <2>2. \A b \in Attempts : Fits(status'[b], session'[b])
    BY <2>1 DEF SessInv, Fits
  <2>3. \A i \in Envs : OnRow(i) => row[i] \in Attempts
    BY DEF OnRow, TypeOK, EnvsOK
  <2> QED BY <2>1, <2>2, <2>3 DEF SessInv, HandFits, OnRow
<1> QED
  BY <1>1, <1>2, <1>3, <1>4, <1>5, <1>6, <1>7, <1>8, <1>9, <1>10, <1>11, <1>12, <1>13,
     <1>14, <1>15, <1>16, <1>17, <1>18, <1>19
  DEF Next, InitContinues, ProcessContinues, DetailsContinues, Envs

-----------------------------------------------------------------------------
(* GET /details stays on a tracked row: no write takes a tracking id back.  *)
LEMMA TrackedStays ==
  ASSUME TypeOK, RefreshesTracked, tracked' \in [Attempts -> BOOLEAN],
         \A a \in Attempts : tracked[a] => tracked'[a],
         \A i \in Envs : pc'[i] \in {"query", "refresh"} =>
           \/ pc[i] \in {"query", "refresh"} /\ row'[i] = row[i]
           \/ row'[i] \in Attempts /\ tracked[row'[i]]
  PROVE  RefreshesTracked'
BY DEF RefreshesTracked, TypeOK, EnvsOK

LEMMA RefreshesTrackedStep ==
  TypeOK /\ RowInv /\ RefreshesTracked /\ [Next]_vars /\ TypeOK' => RefreshesTracked'
<1> SUFFICES ASSUME TypeOK, RowInv, RefreshesTracked, [Next]_vars, TypeOK'
             PROVE  RefreshesTracked'
  OBVIOUS
<1>0. tracked' \in [Attempts -> BOOLEAN]
  BY DEF TypeOK, TableOK
<1>1. ASSUME NEW r \in InitEnvs, InitArrives(r) PROVE RefreshesTracked'
  <2>1. /\ r \in Envs /\ UNCHANGED table
        /\ UNCHANGED envs \/ (\E w \in {"insert", "cancel", "expire"} : \E a, q : Begin(r, w, a, q))
    BY <1>1 DEF InitArrives, InitFindsNone, InitReuses, InitRetires, Envs
  <2>2. \A i \in Envs : pc'[i] \in {"query", "refresh"} => pc'[i] = pc[i] /\ row'[i] = row[i]
    BY <2>1, BeginEffect DEF envs, Others, TypeOK
  <2> QED BY <1>0, <2>1, <2>2, TrackedStays DEF table
<1>2. ASSUME NEW r \in Envs, Leaves(r) \/ (\E w \in {"fail", "record", "locked", "complete"} : Moves(r, w)),
             \A a \in Attempts : tracked[a] => tracked'[a]
      PROVE  RefreshesTracked'
  <2>1. \A i \in Envs : pc'[i] \in {"query", "refresh"} => pc'[i] = pc[i] /\ row'[i] = row[i]
    BY <1>2 DEF Leaves, Moves, Others
  <2> QED BY <1>0, <1>2, <2>1, TrackedStays
<1>3. ASSUME NEW r \in InitEnvs, CancelFound(r) \/ ExpireFound(r) \/ StartSession(r) \/ RecordToken(r)
      PROVE  RefreshesTracked'
  <2>1. r \in Envs
    BY DEF Envs
  <2>2. tracked' = tracked
    BY <1>3, <2>1, CancelEffect, FailEffect, RecordEffect DEF StartSession, Rest, table
  <2>3. Leaves(r) \/ (\E w \in {"fail", "record"} : Moves(r, w))
    BY <1>3, <2>1, CancelEffect, FailEffect, RecordEffect, GotoEffect DEF StartSession, TypeOK
  <2> QED BY <1>2, <2>1, <2>2, <2>3
<1>4. ASSUME NEW r \in InitEnvs, InsertReceived(r) PROVE RefreshesTracked'
  <2>1. r \in Envs /\ tracked' = tracked /\ (Leaves(r) \/ (Others(r) /\ pc'[r] = "start"))
    BY <1>4, InsertEffect
  <2>2. \A i \in Envs : pc'[i] \in {"query", "refresh"} => pc'[i] = pc[i] /\ row'[i] = row[i]
    BY <2>1 DEF Leaves, Others
  <2> QED BY <1>0, <2>1, <2>2, TrackedStays
<1>5. ASSUME NEW r \in Envs, MarkFailed(r) \/ Crash(r) PROVE RefreshesTracked'
  <2>1. tracked' = tracked
    BY <1>5, FailEffect DEF Crash, Rest, table
  <2> QED BY <1>2, <1>5, <2>1, FailEffect, FinishEffect DEF Crash, TypeOK
<1>6. ASSUME NEW r \in ProcessEnvs, NEW a \in Attempts, ProcessLoad(r, a) PROVE RefreshesTracked'
  <2>1. r \in Envs /\ UNCHANGED table /\ Others(r) /\ pc'[r] \in {"claim", "fail"}
    BY <1>6, BeginEffect DEF ProcessLoad, TypeOK, Envs
  <2> QED BY <1>0, <2>1, TrackedStays DEF Others, table
<1>7. ASSUME NEW r \in ProcessEnvs, ClaimLock(r) \/ ClaimDecide(r) PROVE RefreshesTracked'
  <2>1. r \in Envs /\ tracked' = tracked
    BY <1>7, ClaimEffect DEF ClaimLock, Rest, table, Envs
  <2>2. Leaves(r) \/ (\E w \in {"locked", "complete"} : Moves(r, w))
    BY <1>7, <2>1, ClaimEffect, GotoEffect, FinishEffect DEF ClaimLock, TypeOK
  <2> QED BY <1>2, <2>1, <2>2
<1>8. ASSUME NEW r \in ProcessEnvs, Complete(r) PROVE RefreshesTracked'
  <2>1. r \in Envs /\ UNCHANGED table
    BY <1>8 DEF Complete, Envs
  <2>2. Others(r) /\ pc'[r] \in {"persist", "fail", "retry"}
    BY <1>8, <2>1, GotoEffect, GotoWithEffect DEF Complete, Moves, TypeOK
  <2> QED BY <1>0, <2>1, <2>2, TrackedStays DEF Others, table
<1>9. ASSUME NEW r \in ProcessEnvs, Persist(r) PROVE RefreshesTracked'
  <2>1. /\ r \in Envs /\ (Leaves(r) \/ Moves(r, "fail"))
        /\ tracked' = tracked \/ tracked' = [tracked EXCEPT ![row[r]] = TRUE]
    BY <1>9, PersistEffect
  <2> QED BY <1>2, <2>1 DEF TypeOK, TableOK
<1>10. ASSUME NEW r \in DetailsEnvs, NEW ref \in Refs, DetailsRead(r, ref) PROVE RefreshesTracked'
  <2>1. PICK a \in Attempts : tracked[a] /\ Begin(r, "query", a, NoAsk)
    BY <1>10 DEF DetailsRead, RefRows
  <2>2. r \in Envs /\ UNCHANGED table /\ Others(r) /\ row'[r] = a
    BY <1>10, <2>1, BeginEffect DEF DetailsRead, Envs, TypeOK
  <2>3. \A i \in Envs : pc'[i] \in {"query", "refresh"} =>
           \/ pc[i] \in {"query", "refresh"} /\ row'[i] = row[i]
           \/ row'[i] \in Attempts /\ tracked[row'[i]]
    BY <2>1, <2>2 DEF Others
  <2> QED BY <1>0, <2>2, <2>3, TrackedStays DEF table
<1>11. ASSUME NEW r \in DetailsEnvs, DetailsQuery(r) PROVE RefreshesTracked'
  <2>1. r \in Envs /\ UNCHANGED table /\ pc[r] = "query"
    BY <1>11 DEF DetailsQuery, Envs
  <2>2. Leaves(r) \/ (Others(r) /\ row'[r] = row[r])
    BY <1>11, <2>1, FinishEffect, GotoWithEffect DEF DetailsQuery, TypeOK
  <2>3. \A i \in Envs : pc'[i] \in {"query", "refresh"} =>
           pc[i] \in {"query", "refresh"} /\ row'[i] = row[i]
    BY <2>1, <2>2 DEF Leaves, Others
  <2> QED BY <1>0, <2>1, <2>3, TrackedStays DEF table
<1>12. ASSUME NEW r \in DetailsEnvs, DetailsRefresh(r) PROVE RefreshesTracked'
  <2>1. /\ r \in Envs /\ Leaves(r)
        /\ tracked' = tracked \/ tracked' = [tracked EXCEPT ![row[r]] = TRUE]
    BY <1>12, RefreshEffect
  <2> QED BY <1>2, <2>1 DEF TypeOK, TableOK
<1>13. ASSUME NEW a \in Attempts, CustomerSubmits(a) \/ PayGovSettles(a) PROVE RefreshesTracked'
  BY <1>0, <1>13, TrackedStays DEF CustomerSubmits, PayGovSettles, table, envs
<1>14. CASE Sweep \/ Tick \/ Recover \/ UNCHANGED vars
  BY <1>0, <1>14, TrackedStays DEF Sweep, Tick, Recover, vars, table, envs
<1> QED
  BY <1>1, <1>3, <1>4, <1>5, <1>6, <1>7, <1>8, <1>9, <1>10, <1>11, <1>12, <1>13, <1>14
  DEF Next, InitContinues, ProcessContinues, DetailsContinues, Envs

-----------------------------------------------------------------------------
(* The rows: their two statuses, their moves and the unique active one.     *)

(* What one step may do to the rows: nothing to an attempt but a move of    *)
(* the ledger, and to paymentStatus what that move asks for; whoever        *)
(* becomes active is let in by the index.                                   *)
RowsStep ==
  /\ \A a \in Attempts :
       \/ status'[a] = status[a] /\ payment'[a] = payment[a]
       \/ /\ status'[a] # status[a] => <<status[a], status'[a]>> \in Ledger!Moves
          /\ status'[a] # "none"
          /\ payment'[a] = DeriveSingle(status'[a])
  /\ \A a \in Attempts : status[a] # "none" => owner'[a] = owner[a]
  /\ \A a \in Attempts : status'[a] \in Active /\ status[a] \notin Active =>
       /\ IndexAllows(a, owner'[a], status'[a])
       /\ \A b \in Attempts \ {a} : status'[b] = status[b]

BookInv == PaymentCoherent /\ UniqueActive

LEMMA ActiveSome == "none" \notin Active
BY DEF Active, Ledger!Active

LEMMA RowsStepStays == ASSUME UNCHANGED <<status, payment, owner>> PROVE RowsStep
BY DEF RowsStep

(* One row takes status s with the matching paymentStatus.                  *)
LEMMA RowsStepWrites ==
  ASSUME TypeOK, owner' = owner, NEW a \in Attempts, NEW s, s # "none",
         s # status[a] => <<status[a], s>> \in Ledger!Moves,
         NoRowSet \/ RowSet(a, s, DeriveSingle(s)),
         s \in Active /\ status[a] \notin Active => IndexAllows(a, owner[a], s)
  PROVE  RowsStep
<1>1. \A b \in Attempts :
        \/ status'[b] = status[b] /\ payment'[b] = payment[b]
        \/ b = a /\ status'[b] = s /\ payment'[b] = DeriveSingle(s)
  BY DEF NoRowSet, RowSet, TypeOK, TableOK
<1> QED BY <1>1 DEF RowsStep

LEMMA RowsAlways ==
  ASSUME TypeOK, RowInv, RefreshesTracked, PaymentCoherent, [Next]_vars PROVE RowsStep
<1> USE DEF Ledger!Moves, Ledger!Outcomes
<1>1. ASSUME NEW r \in InitEnvs, CancelFound(r) PROVE RowsStep
  <2>1. /\ row[r] \in Attempts /\ owner' = owner
        /\ \/ NoRowSet
           \/ status[row[r]] = "initiated" /\ RowSet(row[r], "cancelled", "failed")
    BY <1>1, CancelEffect DEF Rest
  <2>2. CASE NoRowSet
    BY <2>1, <2>2, RowsStepStays DEF NoRowSet
  <2> QED BY <2>1, <2>2, RowsStepWrites DEF DeriveSingle, Active, Ledger!Active
<1>2. ASSUME NEW r \in Envs, ExpireFound(r) \/ MarkFailed(r) PROVE RowsStep
  <2>1. /\ row[r] \in Attempts /\ owner' = owner /\ status[row[r]] # "none"
        /\ NoRowSet \/ RowSet(row[r], "failed", "failed")
    BY <1>2, FailEffect DEF Rest, RowInv, RowsInHand, OnRow
  <2>2. status[row[r]] \in Ledger!Statuses
    BY <2>1 DEF TypeOK, TableOK
  <2> QED BY <2>1, <2>2, RowsStepWrites DEF DeriveSingle, Active, Ledger!Active, Ledger!Statuses
<1>3. ASSUME NEW r \in InitEnvs, InsertReceived(r) PROVE RowsStep
  <2>1. CASE NoRowSet /\ owner' = owner
    BY <2>1, RowsStepStays DEF NoRowSet
  <2>2. ASSUME NEW a \in Attempts, NEW ob \in Obligations, status[a] = "none",
               RowSet(a, "received", "pending"), IndexAllows(a, ob, "received"),
               owner' = [owner EXCEPT ![a] = ob]
        PROVE  RowsStep
    <3>1. /\ \A b \in Attempts \ {a} : /\ status'[b] = status[b] /\ payment'[b] = payment[b]
                                       /\ owner'[b] = owner[b]
          /\ status'[a] = "received" /\ payment'[a] = "pending" /\ owner'[a] = ob
      BY <2>2 DEF RowSet, TypeOK, TableOK
    <3> QED BY <2>2, <3>1 DEF RowsStep, DeriveSingle
  <2> QED BY <1>3, <2>1, <2>2, InsertEffect
<1>4. ASSUME NEW r \in InitEnvs, RecordToken(r) PROVE RowsStep
  <2>1. /\ row[r] \in Attempts /\ owner' = owner /\ status[row[r]] = "received"
        /\ NoRowSet \/ RowSet(row[r], "initiated", payment[row[r]])
    BY <1>4, RecordEffect DEF RowInv, RowsInHand, Inserting
  <2>2. payment[row[r]] = DeriveSingle("initiated")
    BY <2>1 DEF PaymentCoherent, DeriveSingle
  <2> QED BY <2>1, <2>2, RowsStepWrites DEF Active, Ledger!Active
<1>5. ASSUME NEW r \in ProcessEnvs, ClaimDecide(r) PROVE RowsStep
  <2>1. /\ row[r] \in Attempts /\ owner' = owner
        /\ \/ NoRowSet
           \/ Claimable(row[r]) /\ RowSet(row[r], "processing", payment[row[r]])
    BY <1>5, ClaimEffect DEF Rest
  <2>2. Claimable(row[r]) =>
          /\ status[row[r]] \in {"initiated", "processing"}
          /\ payment[row[r]] = DeriveSingle("processing")
    BY <2>1 DEF Claimable, IsStaleProcessing, PaymentCoherent, DeriveSingle
  <2>3. CASE NoRowSet
    BY <2>1, <2>3, RowsStepStays DEF NoRowSet
  <2> QED BY <2>1, <2>2, <2>3, RowsStepWrites DEF Active, Ledger!Active
<1>6. ASSUME NEW r \in ProcessEnvs, Persist(r) PROVE RowsStep
  <2>1. /\ row[r] \in Attempts /\ owner' = owner
        /\ answer[r] \in {"pending", "processed", "failed"}
        /\ \/ NoRowSet
           \/ /\ status[row[r]] = "processing"
              /\ RowSet(row[r], answer[r], DeriveSingle(answer[r]))
    BY <1>6, PersistEffect DEF TypeOK, EnvsOK
  <2>2. CASE NoRowSet
    BY <2>1, <2>2, RowsStepStays DEF NoRowSet
  <2> QED BY <2>1, <2>2, RowsStepWrites DEF Active, Ledger!Active
<1>7. ASSUME NEW r \in DetailsEnvs, DetailsRefresh(r) PROVE RowsStep
  <2>1. /\ row[r] \in Attempts /\ owner' = owner
        /\ answer[r] \in {"pending", "processed", "failed"}
        /\ status[row[r]] \in {"pending", "processed", "failed"}
        /\ \/ NoRowSet
           \/ /\ IndexAllows(row[r], owner[row[r]], answer[r])
              /\ RowSet(row[r], answer[r], DeriveSingle(answer[r]))
    BY <1>7, RefreshEffect DEF TypeOK, EnvsOK, RefreshesTracked, RowInv, TrackedRows
  <2>2. CASE NoRowSet
    BY <2>1, <2>2, RowsStepStays DEF NoRowSet
  <2> QED BY <2>1, <2>2, RowsStepWrites
<1>8. CASE Sweep
  <2>1. /\ owner' = owner
        /\ \A b \in Attempts :
             \/ status'[b] = status[b] /\ payment'[b] = payment[b]
             \/ status[b] = "initiated" /\ status'[b] = "cancelled" /\ payment'[b] = "failed"
    BY <1>8 DEF Sweep, Sweepable, OldestBatch, IsExpiredInitiated, keys
  <2> QED BY <2>1 DEF RowsStep, DeriveSingle, Active, Ledger!Active
<1>9. ASSUME UNCHANGED <<status, payment, owner>> PROVE RowsStep
  BY <1>9, RowsStepStays
<1> QED
  BY <1>1, <1>2, <1>3, <1>4, <1>5, <1>6, <1>7, <1>8, <1>9
  DEF Next, InitArrives, InitContinues, ProcessContinues, DetailsContinues, Envs,
      InitFindsNone, InitReuses, InitRetires, StartSession, ProcessLoad, ClaimLock,
      Complete, DetailsRead, DetailsQuery, Crash, CustomerSubmits, PayGovSettles,
      Tick, Recover, vars, table, keys

LEMMA BookInvStep == ASSUME TypeOK, BookInv, RowsStep, TypeOK' PROVE BookInv'
<1>1. PaymentCoherent'
  BY DEF RowsStep, BookInv, PaymentCoherent
<1>2. UniqueActive'
  <2> SUFFICES ASSUME NEW a \in Attempts, NEW b \in Attempts, owner'[a] = owner'[b],
                      status'[a] \in Active, status'[b] \in Active
               PROVE  a = b
    BY DEF UniqueActive, Ledger!OneActive, Active, Ledger!Active
  <2>1. CASE status[a] \in Active /\ status[b] \in Active
    BY <2>1, ActiveSome DEF RowsStep, BookInv, UniqueActive, Ledger!OneActive, Active
  <2>2. CASE status[a] \notin Active
    BY <2>2, ActiveSome DEF RowsStep, IndexAllows, Rows
  <2>3. CASE status[b] \notin Active
    BY <2>3, ActiveSome DEF RowsStep, IndexAllows, Rows
  <2> QED BY <2>1, <2>2, <2>3
<1> QED BY <1>1, <1>2 DEF BookInv

-----------------------------------------------------------------------------
(* The inductive invariant and what follows from it.                        *)

LEMMA IInvParts ==
  IInv <=> /\ TypeOK /\ RowInv /\ RefreshesTracked /\ ClaimInv /\ SessInv
           /\ BookInv /\ CancelledNeverCollected
BY SessInvMeans DEF IInv, RowInv, ClaimInv, BookInv

(* No request completes a cancelled row, and its session never got far.     *)
LEMMA CancelledFollows ==
  ASSUME ClaimInv, SessInv PROVE CancelledNeverCollected
BY DEF CancelledNeverCollected, ClaimInv, ClaimsAreFresh, Completing, InCompletion,
       SessInv, Fits

LEMMA InvInit == Init => IInv
<1> SUFFICES ASSUME Init PROVE IInv
  OBVIOUS
<1>1. TypeOK
  BY TypeInit
<1>2. /\ \A r \in Envs : pc[r] = "idle"
      /\ \A a \in Attempts : /\ status[a] = "none" /\ session[a] = "none"
                            /\ payment[a] = "pending" /\ tracked[a] = FALSE
      /\ handed = {}
  BY DEF Init
<1>3. RowInv /\ RefreshesTracked
  BY <1>2 DEF RowInv, RoleOf, RowsInHand, TrackedRows, LocksExclude, OnRow, Inserting,
              RefreshesTracked, Envs
<1>4. ClaimInv
  BY <1>2 DEF ClaimInv, ClaimsAreFresh, ExclusiveCompletion, Completing, InCompletion, Envs
<1>5. SessInv
  BY <1>2 DEF SessInv, Fits, HandFits
<1>6. BookInv
  BY <1>2 DEF BookInv, PaymentCoherent, UniqueActive, Ledger!OneActive, Ledger!Active
<1> QED BY <1>1, <1>3, <1>4, <1>5, <1>6, CancelledFollows, IInvParts

LEMMA InvStep == IInv /\ [Next]_vars => IInv'
<1> SUFFICES ASSUME IInv, [Next]_vars PROVE IInv'
  OBVIOUS
<1>1. TypeOK /\ RowInv /\ RefreshesTracked /\ ClaimInv /\ SessInv /\ BookInv
  BY IInvParts
<1>2. TypeOK'
  BY <1>1, TypeStep
<1>3. RowInv' /\ RefreshesTracked'
  BY <1>1, <1>2, RowInvStep, RefreshesTrackedStep
<1>4. ClaimInv'
  BY <1>1, <1>2, ClaimInvStep
<1>5. SessInv'
  BY <1>1, <1>2, SessInvStep
<1>6. BookInv'
  BY <1>1, <1>2, RowsAlways, BookInvStep DEF BookInv
<1>7. CancelledNeverCollected'
  BY <1>4, <1>5 DEF CancelledNeverCollected, ClaimInv, ClaimsAreFresh, Completing,
                    InCompletion, SessInv, Fits
<1>8. (TypeOK /\ RowInv /\ RefreshesTracked /\ ClaimInv /\ SessInv /\ BookInv
        /\ CancelledNeverCollected)'
  BY <1>2, <1>3, <1>4, <1>5, <1>6, <1>7
<1>9. SessionsMatch' /\ PaidMeansCollected'
  BY <1>5 DEF SessInv, Fits, HandFits, SessionsMatch, PaidMeansCollected
<1> QED BY <1>8, <1>9 DEF IInv, RowInv, ClaimInv, BookInv

(* The invariant the theorems below are read off.                           *)
THEOREM Inductive == Spec => []IInv
BY InvInit, InvStep, PTL DEF Spec

(* POST /process completes a token in one live request at a time, whatever  *)
(* dies, times out or is reclaimed.                                         *)
THEOREM OneCompletion == Spec => []ExclusiveCompletion
<1>1. IInv => ExclusiveCompletion
  BY DEF IInv
<1> QED BY <1>1, Inductive, PTL

(* At most one attempt of an obligation is active.                          *)
THEOREM OneActiveAttempt == Spec => []UniqueActive
<1>1. IInv => UniqueActive
  BY DEF IInv
<1> QED BY <1>1, Inductive, PTL

(* What the table says was paid, Pay.gov took.                              *)
THEOREM PaidWasCollected == Spec => []PaidMeansCollected
<1>1. IInv => PaidMeansCollected
  BY DEF IInv
<1> QED BY <1>1, Inductive, PTL

(* "cancelled" hides no payment, made or about to be made.                  *)
THEOREM CancelledUnpaid == Spec => []CancelledNeverCollected
<1>1. IInv => CancelledNeverCollected
  BY DEF IInv
<1> QED BY <1>1, Inductive, PTL

(* The two statuses of a row agree.                                         *)
THEOREM StatusesAgree == Spec => []PaymentCoherent
<1>1. IInv => PaymentCoherent
  BY DEF IInv
<1> QED BY <1>1, Inductive, PTL

(* A tracked attempt has left "processing" for good.                        *)
THEOREM TrackedForGood == Spec => []TrackedRows
<1>1. IInv => TrackedRows
  BY DEF IInv
<1> QED BY <1>1, Inductive, PTL

(* The portal implements the attempt ledger.                                *)
THEOREM PortalIsLedger == Spec => ImplementsLedger
<1>1. Init => Ledger!LedgerInit
  BY TypeInit DEF Init, TypeOK, TableOK, Ledger!LedgerInit
<1>2. IInv /\ [Next]_vars /\ IInv' => [Ledger!LedgerStep]_(Ledger!ledger)
  <2> SUFFICES ASSUME IInv, [Next]_vars, IInv' PROVE Ledger!LedgerStep
    OBVIOUS
  <2>1. RowsStep
    BY RowsAlways, IInvParts DEF BookInv
  <2>2. /\ status' \in [Attempts -> Ledger!Statuses \cup {"none"}]
        /\ owner' \in [Attempts -> Obligations]
    BY DEF IInv, TypeOK, TableOK
  <2>3. Ledger!OneActive'
    BY DEF IInv, UniqueActive
  <2> QED BY <2>1, <2>2, <2>3 DEF RowsStep, Ledger!LedgerStep
<1> QED BY <1>1, <1>2, Inductive, PTL DEF Spec, ImplementsLedger, Ledger!LedgerSpec

===============================================================================
