------------------------------- MODULE PrProofs -------------------------------
(***************************************************************************)
(* What holds of any number of pull requests, any list limit and any        *)
(* number of failures: every variable keeps to its domain, what earlier     *)
(* runs left never makes a later deploy fail, and an environment that was   *)
(* deployed stays whole.                                                    *)
(***************************************************************************)
EXTENDS PrEnvironments, FiniteSetTheorems, TLAPS

LEMMA TypeInit == Init => TypeOK
BY LimitAssumption DEF Init, TypeOK, NoSweep, Databases, Roles, Grants, Steps, Runs, Results

(* Every failed statement stays within the bound.                           *)
LEMMA FaultTypes == ASSUME TypeOK, Fault \/ NoFault PROVE faults' \in 0..MaxFaults
BY LimitAssumption DEF Fault, NoFault, TypeOK

LEMMA TypeNext == TypeOK /\ [Next]_vars => TypeOK'
<1> SUFFICES ASSUME TypeOK, [Next]_vars PROVE TypeOK'
  OBVIOUS
<1> USE LimitAssumption DEF TypeOK, Databases, Roles, Grants, Steps, Runs, Results, DeploySteps,
        CreateSteps, CleanupSteps
<1>1. ASSUME NEW p \in Prs, Open(p) \/ Push(p) \/ Close(p) PROVE TypeOK'
  BY <1>1 DEF Open, Push, Close
<1>2. ASSUME NEW p \in Prs, Resend(p) PROVE TypeOK'
  BY <1>2, FaultTypes DEF Resend, Go
<1>3. ASSUME NEW p \in Prs, Stray(p) PROVE TypeOK'
  BY <1>3, FaultTypes DEF Stray, CheckDatabase, CreateDatabase, DropDatabase, Fault, NoFault
<1>4. ASSUME NEW p \in Prs, StartDeploy(p) PROVE TypeOK'
  BY <1>4 DEF StartDeploy, Go
<1>5. ASSUME NEW p \in Prs, Apply(p) PROVE TypeOK'
  BY <1>5, FaultTypes DEF Apply, Go, Ends
<1>6. ASSUME NEW p \in Prs, CreateDb(p) PROVE TypeOK'
  BY <1>6, FaultTypes DEF CreateDb, CheckDatabase, CreateDatabase, DropDatabase, Go, Ends
<1>7. ASSUME NEW p \in Prs, ProvisionUser(p) PROVE TypeOK'
  BY <1>7, FaultTypes DEF ProvisionUser, Login, Go, Ends
<1>8. ASSUME NEW p \in Prs, Fill(p) PROVE TypeOK'
  BY <1>8, FaultTypes DEF Fill, Go, Ends
<1>9. ASSUME NEW p \in Prs, StartCleanup(p) PROVE TypeOK'
  BY <1>9 DEF StartCleanup, Go
<1>10. ASSUME NEW p \in Prs, DeprovisionUser(p) PROVE TypeOK'
  BY <1>10, FaultTypes DEF DeprovisionUser, Droppable, Go
<1>11. ASSUME NEW p \in Prs, DropDb(p) PROVE TypeOK'
  BY <1>11, FaultTypes DEF DropDb, DropDatabase, Go
<1>12. ASSUME NEW p \in Prs, Destroy(p) PROVE TypeOK'
  BY <1>12, FaultTypes DEF Destroy, Go
<1>13. CASE ListOpenPrs
  <2> DEFINE cut == Cardinality(open) > ListLimit
  <2>1. PICK l \in SUBSET open : sweep' = [sweep EXCEPT !.pc = "scanDbs", !.list = l, !.cut = cut]
    BY <1>13 DEF ListOpenPrs, Listed
  <2>2. cut \in BOOLEAN
    OBVIOUS
  <2> HIDE DEF cut
  <2> QED BY <1>13, <2>1, <2>2 DEF ListOpenPrs
<1>14. CASE GcDbs
  <2>0. UNCHANGED <<open, workspace, role, job, pending, stray, result, reopened>>
    BY <1>14 DEF GcDbs
  <2>1. CASE sweep.pc = "scanDbs"
    <3> DEFINE found == Collectable({p \in Prs : db[p] # "none"})
    <3>1. found \subseteq Prs
      BY DEF Collectable
    <3>2. /\ sweep' = [sweep EXCEPT !.pc = "dbs", !.todo = found]
          /\ UNCHANGED <<db, role, grants, faults, reopened, disturbed>>
      BY <1>14, <2>1 DEF GcDbs
    <3> HIDE DEF found
    <3> QED BY <2>0, <3>1, <3>2
  <2>2. ASSUME NEW p \in sweep.todo, NoFault, DropDatabase(p),
               sweep' = [sweep EXCEPT !.todo = @ \ {p}],
               disturbed' = IF Takeable(p) THEN disturbed \union {p} ELSE disturbed
        PROVE  TypeOK'
    BY <2>0, <2>2, FaultTypes DEF DropDatabase
  <2>3. ASSUME Fault, UNCHANGED <<db, grants, disturbed>>,
               sweep' = [sweep EXCEPT !.pc = "scanRoles", !.todo = {}]
        PROVE  TypeOK'
    BY <2>0, <2>3, FaultTypes
  <2>4. ASSUME UNCHANGED <<db, grants, disturbed, faults>>,
               sweep' = [sweep EXCEPT !.pc = "scanRoles"]
        PROVE  TypeOK'
    BY <2>0, <2>4
  <2> QED BY <1>14, <2>1, <2>2, <2>3, <2>4 DEF GcDbs
<1>15. CASE GcRoles
  <2>1. CASE sweep.pc = "scanRoles"
    <3> DEFINE found == Collectable({p \in Prs : role[p] # "none"})
    <3>1. found \subseteq Prs
      BY DEF Collectable
    <3>2. /\ sweep' = [sweep EXCEPT !.pc = "roles", !.todo = found]
          /\ UNCHANGED <<db, role, grants, faults, disturbed, open, workspace, job, pending, stray, result>>
      BY <1>15, <2>1 DEF GcRoles
    <3>3. reopened' \subseteq Prs
      BY <1>15 DEF GcRoles
    <3> HIDE DEF found
    <3> QED BY <3>1, <3>2, <3>3
  <2>2. CASE sweep.pc = "roles"
    <3>1. UNCHANGED <<open, workspace, db, grants, job, pending, stray, result>> /\ reopened' \subseteq Prs
      BY <1>15 DEF GcRoles
    <3>2. ASSUME NEW p \in sweep.todo, Fault \/ NoFault, sweep' = [sweep EXCEPT !.todo = @ \ {p}],
                 \/ role' = [role EXCEPT ![p] = "none"] /\ Droppable(p)
                 \/ role' = role,
                 disturbed' \subseteq disturbed \union {p}
          PROVE  TypeOK'
      BY <3>1, <3>2, FaultTypes DEF Droppable
    <3>3. ASSUME sweep' = NoSweep, UNCHANGED <<role, disturbed, faults>>
          PROVE  TypeOK'
      BY <3>1, <3>3 DEF NoSweep
    <3> QED BY <1>15, <2>2, <3>2, <3>3 DEF GcRoles
  <2> QED BY <1>15, <2>1, <2>2 DEF GcRoles
<1>16. CASE UNCHANGED vars
  BY <1>16 DEF vars
<1> QED
  BY <1>1, <1>2, <1>3, <1>4, <1>5, <1>6, <1>7, <1>8, <1>9, <1>10, <1>11, <1>12, <1>13,
     <1>14, <1>15, <1>16 DEF Next, Runner, Sweep

(* Every variable keeps to its domain; a grant is of a role in a database   *)
(* that are both there.                                                     *)
THEOREM EnvironmentsTyped == Spec => []TypeOK
BY TypeInit, TypeNext, PTL DEF Spec

(***************************************************************************)
(* What a deploy has behind it at each of its steps, unless the sweep or a  *)
(* create-db sent twice came between: it is why no statement refuses it,    *)
(* and what is left when it ends.                                           *)
(***************************************************************************)
Granted(p) == db[p] # "none" /\ role[p] = "current" /\ grants[p] = "all"

Behind(p) ==
  /\ job[p] = "create" => db[p] = "none"
  /\ job[p] \in {"role", "grant"} => db[p] # "none"
  /\ job[p] = "grant" => role[p] = "current"
  /\ job[p] \in {"migrate", "seed"} => Granted(p)
  /\ job[p] = "seed" => db[p] # "empty"
  /\ result[p] = "ready" => Granted(p) /\ db[p] = "seeded"

Safe(p) ==
  /\ stray[p] # "none" => p \in disturbed
  /\ job[p] \in DeploySteps \ {"apply"} \/ result[p] = "ready" => p \in workspace
  /\ result[p] = "ready" => job[p] = "idle"
  /\ result[p] = "refused" => p \in disturbed
  /\ p \in disturbed \/ Behind(p)

(* The list of the sweep under way still names everyone who was open when   *)
(* it was read and is open now, unless it was cut.                          *)
ListStands ==
  sweep.pc # "idle" /\ ~sweep.cut => open \ reopened \subseteq sweep.list

PrInv == /\ \A p \in Prs : Safe(p)
         /\ sweep.pc \in {"dbs", "roles"} => sweep.todo \cap sweep.list = {}
         /\ ListStands

LEMMA InvInit == Init => PrInv
BY DEF Init, PrInv, ListStands, Safe, Behind, NoSweep, DeploySteps, CreateSteps

(* What happens to one pull request leaves the others be.                   *)
LEMMA Unmoved ==
  ASSUME NEW q \in Prs, Safe(q), q \in workspace => q \in workspace',
         q \in disturbed => q \in disturbed',
         UNCHANGED <<stray[q], job[q], result[q], db[q], role[q], grants[q]>>
  PROVE  Safe(q)'
BY DEF Safe, Behind, Granted

Own(p) == Open(p) \/ Push(p) \/ Close(p) \/ Resend(p) \/ Stray(p) \/ Runner(p)

LEMMA Elsewhere ==
  ASSUME TypeOK, NEW p \in Prs, NEW q \in Prs \ {p}, Safe(q), Own(p)
  PROVE  Safe(q)'
<1> USE DEF TypeOK, Go, Ends, DropDatabase
<1>1. CASE Open(p) \/ Push(p) \/ Close(p)
  BY <1>1, Unmoved DEF Open, Push, Close
<1>2. CASE Resend(p) \/ Stray(p)
  BY <1>2, Unmoved DEF Resend, Stray, CheckDatabase, CreateDatabase
<1>3. CASE StartDeploy(p) \/ StartCleanup(p)
  BY <1>3, Unmoved DEF StartDeploy, StartCleanup
<1>4. CASE Apply(p) \/ CreateDb(p)
  BY <1>4, Unmoved DEF Apply, CreateDb, CheckDatabase, CreateDatabase
<1>5. CASE ProvisionUser(p) \/ Fill(p)
  BY <1>5, Unmoved DEF ProvisionUser, Fill
<1>6. CASE DeprovisionUser(p) \/ DropDb(p) \/ Destroy(p)
  BY <1>6, Unmoved DEF DeprovisionUser, DropDb, Destroy
<1> QED
  BY <1>1, <1>2, <1>3, <1>4, <1>5, <1>6 DEF Own, Runner

LEMMA OwnSteps ==
  ASSUME TypeOK, NEW p \in Prs, Safe(p), Own(p)
  PROVE  Safe(p)'
<1> USE DEF TypeOK, Safe, Behind, Granted, Go, Ends, DropDatabase, DeploySteps, CreateSteps
<1>1. CASE Open(p) \/ Push(p) \/ Close(p)
  BY <1>1 DEF Open, Push, Close
<1>2. CASE Resend(p)
  BY <1>2 DEF Resend
<1>3. CASE Stray(p)
  BY <1>3 DEF Stray, CheckDatabase, CreateDatabase
<1>4. CASE StartDeploy(p) \/ StartCleanup(p)
  BY <1>4 DEF StartDeploy, StartCleanup
<1>5. CASE Apply(p)
  BY <1>5 DEF Apply
<1>6. CASE CreateDb(p)
  BY <1>6 DEF CreateDb, CheckDatabase, CreateDatabase, Exists
<1>7. CASE ProvisionUser(p)
  BY <1>7 DEF ProvisionUser, Login
<1>8. CASE Fill(p)
  BY <1>8 DEF Fill, Databases
<1>9. CASE DeprovisionUser(p) \/ DropDb(p) \/ Destroy(p)
  BY <1>9 DEF DeprovisionUser, DropDb, Destroy
<1> QED
  BY <1>1, <1>2, <1>3, <1>4, <1>5, <1>6, <1>7, <1>8, <1>9 DEF Own, Runner

(* A list that is not cut is all of the open pull requests.                 *)
LEMMA ListWhole ==
  ASSUME TypeOK, NEW l \in Listed, Cardinality(open) =< ListLimit
  PROVE  l = open
<1> DEFINE n == Cardinality(open)
<1>1. IsFiniteSet(open) /\ l \subseteq open
  BY LimitAssumption, FS_Subset DEF TypeOK, Listed
<1>2. n \in Nat
  BY <1>1, FS_CardinalityType
<1>3. Min({ListLimit, n}) = n
  BY <1>2, LimitAssumption DEF Min
<1>4. Cardinality(l) = Cardinality(open)
  BY <1>3 DEF Listed
<1> QED BY <1>1, <1>4, FS_Subset

(* Once a sweep has read its list, what it may not take is on that list.    *)
LEMMA Untaken ==
  ASSUME TypeOK, PrInv, sweep.pc # "idle", NEW p \in Prs \ sweep.list
  PROVE  Takeable(p)
BY DEF TypeOK, PrInv, ListStands, Takeable

LEMMA ListKept ==
  ASSUME TypeOK, PrInv, Sweep
  PROVE  ListStands'
<1>1. CASE ListOpenPrs
  <2>1. PICK l \in Listed :
           sweep' = [sweep EXCEPT !.pc = "scanDbs", !.list = l, !.cut = Cardinality(open) > ListLimit]
    BY <1>1 DEF ListOpenPrs
  <2>2. IsFiniteSet(open)
    BY LimitAssumption, FS_Subset DEF TypeOK
  <2>3. Cardinality(open) \in Nat /\ ListLimit \in Nat
    BY <2>2, LimitAssumption, FS_CardinalityType
  <2>4. ~(Cardinality(open) > ListLimit) => l = open
    BY <2>3, ListWhole
  <2>5. sweep'.list = l /\ sweep'.cut = (Cardinality(open) > ListLimit)
    BY <2>1 DEF TypeOK
  <2> QED BY <1>1, <2>4, <2>5 DEF ListStands, ListOpenPrs
<1>2. CASE GcDbs
  <2>1. UNCHANGED <<open, reopened, sweep.list, sweep.cut>> /\ sweep.pc # "idle"
    BY <1>2 DEF GcDbs, TypeOK
  <2> QED BY <2>1 DEF PrInv, ListStands
<1>3. CASE GcRoles
  <2>1. UNCHANGED open /\ sweep.pc # "idle" /\ (sweep'.pc # "idle" => UNCHANGED reopened)
    BY <1>3 DEF GcRoles
  <2>2. NoSweep.pc = "idle"
    BY DEF NoSweep
  <2>3. sweep' = NoSweep \/ UNCHANGED <<sweep.list, sweep.cut>>
    <3>1. ASSUME sweep' = [sweep EXCEPT !.pc = "roles", !.todo = Collectable({p \in Prs : role[p] # "none"})]
          PROVE  UNCHANGED <<sweep.list, sweep.cut>>
      BY <3>1 DEF TypeOK
    <3>2. ASSUME NEW p, sweep' = [sweep EXCEPT !.todo = @ \ {p}]
          PROVE  UNCHANGED <<sweep.list, sweep.cut>>
      BY <3>2 DEF TypeOK
    <3> QED BY <1>3, <3>1, <3>2 DEF GcRoles
  <2> USE <2>2, <2>3
  <2> QED BY <2>1, <2>2 DEF PrInv, ListStands
<1> QED BY <1>1, <1>2, <1>3 DEF Sweep

(* The sweep takes only what it did not list, and then the history says so. *)
LEMMA SweepSteps ==
  ASSUME TypeOK, PrInv, Sweep
  PROVE  PrInv'
<1> USE DEF TypeOK
<1>1. UNCHANGED <<workspace, job, stray, result>>
  BY DEF Sweep, ListOpenPrs, GcDbs, GcRoles
<1>2. CASE ListOpenPrs
  <2>1. sweep'.pc = "scanDbs"
    BY <1>2 DEF ListOpenPrs
  <2>2. \A q \in Prs : Safe(q)'
    BY <1>1, <1>2, Unmoved DEF ListOpenPrs, PrInv
  <2> QED BY <2>1, <2>2, ListKept DEF PrInv
(* It finds what it may take, drops one of these, or passes on. *)
<1>3. ASSUME UNCHANGED <<db, role, grants, disturbed>>,
             sweep'.pc \in {"dbs", "roles"} => sweep'.todo \cap sweep'.list = {}
      PROVE  PrInv'
  BY <1>1, <1>3, Unmoved, ListKept DEF PrInv
<1>4. ASSUME NEW p \in sweep.todo, disturbed' = IF Takeable(p) THEN disturbed \union {p} ELSE disturbed,
             sweep.pc \in {"dbs", "roles"}, sweep' = [sweep EXCEPT !.todo = @ \ {p}],
             \A q \in Prs \ {p} : UNCHANGED <<db[q], role[q], grants[q]>>
      PROVE  PrInv'
  <2>1. p \in Prs \ sweep.list
    BY <1>4 DEF PrInv
  <2>4. p \in disturbed' /\ disturbed \subseteq disturbed'
    BY <1>4, <2>1, Untaken
  <2>2. ASSUME NEW q \in Prs PROVE Safe(q)'
    <3>1. CASE q = p
      BY <1>1, <1>4, <2>4, <3>1 DEF PrInv, Safe
    <3>2. CASE q # p
      BY <1>1, <1>4, <2>4, <3>2, Unmoved DEF PrInv
    <3> QED BY <3>1, <3>2
  <2>3. sweep'.todo \cap sweep'.list = {}
    BY <1>4 DEF PrInv
  <2> QED BY <2>2, <2>3, ListKept DEF PrInv
<1>5. CASE GcDbs
  <2>1. CASE sweep.pc = "scanDbs"
    BY <1>3, <1>5, <2>1 DEF GcDbs, Collectable
  <2>2. CASE sweep.pc = "dbs"
    BY <1>3, <1>4, <1>5, <2>2 DEF GcDbs, DropDatabase
  <2> QED BY <1>5, <2>1, <2>2 DEF GcDbs
<1>6. CASE GcRoles
  <2>1. CASE sweep.pc = "scanRoles"
    BY <1>3, <1>6, <2>1 DEF GcRoles, Collectable
  <2>2. CASE sweep.pc = "roles"
    <3>0. UNCHANGED <<db, grants>>
      BY <1>6 DEF GcRoles
    <3>1. ASSUME NEW p \in sweep.todo, UNCHANGED <<role, disturbed>>,
                 sweep' = [sweep EXCEPT !.todo = @ \ {p}]
          PROVE  PrInv'
      BY <1>3, <2>2, <3>0, <3>1 DEF PrInv
    <3>2. ASSUME NEW p \in sweep.todo, role' = [role EXCEPT ![p] = "none"],
                 sweep' = [sweep EXCEPT !.todo = @ \ {p}],
                 disturbed' = IF Takeable(p) THEN disturbed \union {p} ELSE disturbed
          PROVE  PrInv'
      BY <1>4, <2>2, <3>0, <3>2
    <3>3. ASSUME sweep' = NoSweep, UNCHANGED <<role, disturbed>>
          PROVE  PrInv'
      BY <1>3, <3>0, <3>3 DEF NoSweep
    <3>4. \/ /\ \E p \in sweep.todo :
                   /\ sweep' = [sweep EXCEPT !.todo = @ \ {p}]
                   /\ \/ /\ role' = [role EXCEPT ![p] = "none"]
                         /\ disturbed' = IF Takeable(p) THEN disturbed \union {p} ELSE disturbed
                      \/ UNCHANGED <<role, disturbed>>
          \/ sweep' = NoSweep /\ UNCHANGED <<role, disturbed>>
      BY <1>6, <2>2 DEF GcRoles
    <3> QED BY <3>1, <3>2, <3>3, <3>4
  <2> QED BY <1>6, <2>1, <2>2 DEF GcRoles
<1> QED
  BY <1>2, <1>5, <1>6 DEF Sweep

LEMMA InvNext == TypeOK /\ PrInv /\ [Next]_vars => PrInv'
<1> SUFFICES ASSUME TypeOK, PrInv, [Next]_vars PROVE PrInv'
  OBVIOUS
<1>1. ASSUME NEW p \in Prs, Own(p) PROVE PrInv'
  <2>1. UNCHANGED sweep
    BY <1>1 DEF Own, Open, Push, Close, Resend, Stray, Runner, StartDeploy, Apply, CreateDb,
                ProvisionUser, Fill, StartCleanup, DeprovisionUser, DropDb, Destroy
  <2>2. ListStands'
    <3>1. CASE Open(p)
      BY <2>1, <3>1 DEF Open, PrInv, ListStands
    <3>2. CASE Close(p)
      BY <2>1, <3>2 DEF Close, PrInv, ListStands
    <3>3. CASE ~Open(p) /\ ~Close(p)
      <4>1. UNCHANGED <<open, reopened>>
        BY <1>1, <3>3 DEF Own, Push, Resend, Stray, Runner, StartDeploy, Apply, CreateDb,
             ProvisionUser, Fill, StartCleanup, DeprovisionUser, DropDb, Destroy
      <4> QED BY <2>1, <4>1 DEF PrInv, ListStands
    <3> QED BY <3>1, <3>2, <3>3
  <2>3. sweep'.pc \in {"dbs", "roles"} => sweep'.todo \cap sweep'.list = {}
    BY <2>1 DEF PrInv
  <2>4. ASSUME NEW q \in Prs PROVE Safe(q)'
    BY <1>1, Elsewhere, OwnSteps DEF PrInv
  <2> QED BY <2>2, <2>3, <2>4 DEF PrInv
<1>2. CASE UNCHANGED vars
  BY <1>2 DEF vars, PrInv, ListStands, Safe, Behind, Granted
<1> QED
  BY <1>1, <1>2, SweepSteps DEF Next, Own

(* createDb and provisionUser look before they create, and each leaves what *)
(* the next command needs: a deploy is refused by PostgreSQL only when      *)
(* another run took its database or role.                                   *)
THEOREM NothingLeftRefuses == Spec => []LeftoversNeverRefuse
<1>1. PrInv => LeftoversNeverRefuse
  BY DEF PrInv, Safe, LeftoversNeverRefuse
<1> QED BY <1>1, InvInit, InvNext, TypeInit, TypeNext, PTL DEF Spec

(* An environment whose deploy succeeded keeps its seeded database, its     *)
(* role with the secret's password and all grants until its own cleanup.    *)
THEOREM ReadyStaysWhole == Spec => []ReadyIsWhole
<1>1. PrInv => ReadyIsWhole
  BY DEF PrInv, Safe, Behind, Granted, ReadyIsWhole
<1> QED BY <1>1, InvInit, InvNext, TypeInit, TypeNext, PTL DEF Spec
===============================================================================
