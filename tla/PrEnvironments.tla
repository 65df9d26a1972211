--------------------------- MODULE PrEnvironments ---------------------------
(***************************************************************************)
(* The databases and roles of the pull requests' environments: the        *)
(* commands create-db, provision-user, migrate, seed, deprovision-user,    *)
(* drop-db, gc-dbs and gc-roles of migrationHandler.ts, sent by the        *)
(* workflows cicd-dev.yml and pr-cleanup.yml, which share one concurrency  *)
(* group per pull request, and by gc-pr-dbs.yml, which shares none.        *)
(*                                                                         *)
(* A statement is a step; any of them may fail (MaxFaults), an answer of   *)
(* create-db may be lost and the command sent again while the first still  *)
(* runs (it becomes a stray), and pull requests open, close and reopen at  *)
(* any time.                                                               *)
(***************************************************************************)
EXTENDS Naturals, FiniteSets, FiniteSetsExt

CONSTANTS
  Prs,         \* pull requests
  DocPrs,      \* those that change documentation only, and need no environment
  ListLimit,   \* gh pr list --limit
  MaxFaults    \* bound: failed statements and lost answers, all together

ASSUME LimitAssumption ==
  /\ IsFiniteSet(Prs)
  /\ DocPrs \subseteq Prs
  /\ ListLimit \in Nat \ {0}
  /\ MaxFaults \in Nat

VARIABLES
  open,       \* the open pull requests
  workspace,  \* pull requests whose terraform workspace, and so whose runner, exists
  db,         \* [Prs -> Databases]
  role,       \* [Prs -> Roles]: "stale" has a password that is not the secret's
  grants,     \* [Prs -> Grants]: what the role may do in the database
  job,        \* [Prs -> Steps]: the run of the pull request's concurrency group
  pending,    \* [Prs -> Runs]: the run waiting for it, at most one
  stray,      \* [Prs -> step of a create-db whose answer was lost]
  result,     \* [Prs -> Results]: how the last deploy ended
  sweep,      \* the nightly run of gc-pr-dbs.yml
  faults,     \* failures so far
  reopened,   \* history: open pull requests, opened since the sweep under way read its list
  disturbed   \* history: pull requests whose database another run may rightly have taken

vars == <<open, workspace, db, role, grants, job, pending, stray, result, sweep, faults, reopened, disturbed>>

Databases == {"none", "empty", "migrated", "seeded"}
Roles == {"none", "stale", "current"}
Grants == {"none", "some", "all"}
CreateSteps == {"check", "create", "undo"}
DeploySteps == CreateSteps \union {"apply", "role", "grant", "migrate", "seed"}
CleanupSteps == {"deprovision", "dropRole", "dropDb", "destroy"}
Steps == {"idle"} \union DeploySteps \union CleanupSteps
Runs == {"none", "deploy", "cleanup"}
Results == {"none", "ready", "failed", "refused"}

NoSweep == [pc |-> "idle", list |-> {}, cut |-> FALSE, todo |-> {}]

TypeOK ==
  /\ open \subseteq Prs
  /\ workspace \subseteq Prs
  /\ db \in [Prs -> Databases]
  /\ role \in [Prs -> Roles]
  /\ grants \in [Prs -> Grants]
  /\ \A p \in Prs : grants[p] # "none" => db[p] # "none" /\ role[p] # "none"
  /\ job \in [Prs -> Steps]
  /\ pending \in [Prs -> Runs]
  /\ stray \in [Prs -> {"none"} \union CreateSteps]
  /\ result \in [Prs -> Results]
  /\ sweep \in [pc : {"idle", "scanDbs", "dbs", "scanRoles", "roles"}, list : SUBSET Prs, cut : BOOLEAN,
                todo : SUBSET Prs]
  /\ faults \in 0..MaxFaults
  /\ reopened \subseteq Prs
  /\ disturbed \subseteq Prs

Init ==
  /\ open = {} /\ workspace = {}
  /\ db = [p \in Prs |-> "none"]
  /\ role = [p \in Prs |-> "none"]
  /\ grants = [p \in Prs |-> "none"]
  /\ job = [p \in Prs |-> "idle"]
  /\ pending = [p \in Prs |-> "none"]
  /\ stray = [p \in Prs |-> "none"]
  /\ result = [p \in Prs |-> "none"]
  /\ sweep = NoSweep
  /\ faults = 0
  /\ reopened = {}
  /\ disturbed = {}

-----------------------------------------------------------------------------
Fault == faults < MaxFaults /\ faults' = faults + 1
NoFault == faults' = faults

(* (slip: what was granted outlives the database) *)
DropDatabaseOnly(p) == db' = [db EXCEPT ![p] = "none"] /\ UNCHANGED grants

(* DROP DATABASE IF EXISTS ... WITH (FORCE); what was granted in it goes. *)
DropDatabase(p) ==
  /\ db' = [db EXCEPT ![p] = "none"]
  /\ grants' = [grants EXCEPT ![p] = "none"]

(* DROP ROLE: PostgreSQL refuses it while the role holds a grant. *)
Droppable(p) == grants[p] = "none"

Go(p, step) == job' = [job EXCEPT ![p] = step]

(* The run of p's deploy ends: the workflow's step exits 1, or all is done. *)
Ends(p, how) == Go(p, "idle") /\ result' = [result EXCEPT ![p] = how]

-----------------------------------------------------------------------------
(* Pull requests, as GitHub reports them. A run that waits for the group   *)
(* gives way to one that comes later.                                      *)

Open(p) ==
  /\ p \notin open
  /\ open' = open \union {p}
  /\ reopened' = IF sweep.pc = "idle" THEN {} ELSE reopened \union {p}
  /\ pending' = [pending EXCEPT ![p] = "deploy"]
  /\ UNCHANGED <<workspace, db, role, grants, job, stray, result, sweep, faults, disturbed>>

Push(p) ==
  /\ p \in open
  /\ pending' = [pending EXCEPT ![p] = "deploy"]
  /\ UNCHANGED <<open, workspace, db, role, grants, job, stray, result, sweep, reopened, faults, disturbed>>

Close(p) ==
  /\ p \in open
  /\ open' = open \ {p}
  /\ pending' = [pending EXCEPT ![p] = "cleanup"]
  /\ reopened' = reopened \ {p}
  /\ UNCHANGED <<workspace, db, role, grants, job, stray, result, sweep, faults, disturbed>>

-----------------------------------------------------------------------------
(* cicd-dev.yml, pr_build_test_deploy: terraform apply, then the commands. *)

StartDeploy(p) ==
  /\ job[p] = "idle" /\ pending[p] = "deploy"
  /\ pending' = [pending EXCEPT ![p] = "none"]
  /\ Go(p, IF p \in DocPrs THEN "idle" ELSE "apply")
  /\ disturbed' = IF stray[p] = "none" THEN disturbed \ {p} ELSE disturbed
  /\ result' = [result EXCEPT ![p] = "none"]
  /\ UNCHANGED <<open, workspace, db, role, grants, stray, sweep, reopened, faults>>

Apply(p) ==
  /\ job[p] = "apply"
  /\ \/ NoFault /\ workspace' = workspace \union {p} /\ Go(p, "check") /\ UNCHANGED result
     \/ Fault /\ workspace' \in {workspace, workspace \union {p}} /\ Ends(p, "failed")
  /\ UNCHANGED <<open, db, role, grants, pending, stray, sweep, reopened, disturbed>>

(* (slip: a database without tables is not seen) *)
ExistsFilled(p) == db[p] \notin {"none", "empty"}

(* SELECT EXISTS(SELECT 1 FROM pg_database ...) *)
Exists(p) == db[p] # "none"

(* createDb's statements, each with the step it leads to: every error, the *)
(* failed check included, leads to "undo".                                 *)
CheckDatabase(p, to) ==
  /\ \/ NoFault /\ to = (IF Exists(p) THEN "role" ELSE "create")
     \/ Fault /\ to = "undo"
  /\ UNCHANGED <<db, grants>>

CreateDatabase(p, to) ==
  /\ \/ NoFault /\ db[p] = "none" /\ db' = [db EXCEPT ![p] = "empty"] /\ to = "role"
     \/ NoFault /\ db[p] # "none" /\ UNCHANGED db /\ to = "undo"
     \/ Fault /\ db[p] = "none" /\ db' \in {db, [db EXCEPT ![p] = "empty"]} /\ to = "undo"
  /\ UNCHANGED grants

(* Why createDb fails: the server refused CREATE DATABASE, or a statement  *)
(* failed; the model keeps the two apart by whether a fault was taken.     *)
CreateDb(p) ==
  /\ \/ /\ job[p] = "check"
        /\ \E to \in {"create", "undo", "role"} : CheckDatabase(p, to) /\ Go(p, to)
        /\ UNCHANGED result
     \/ /\ job[p] = "create"
        /\ \E to \in {"undo", "role"} : CreateDatabase(p, to) /\ Go(p, to)
        /\ result' = IF db[p] = "none" THEN result ELSE [result EXCEPT ![p] = "refused"]
     \/ /\ job[p] = "undo"
        /\ \/ NoFault /\ DropDatabase(p)
           \/ Fault /\ UNCHANGED <<db, grants>>
        /\ Ends(p, IF result[p] = "refused" THEN "refused" ELSE "failed")
  /\ UNCHANGED <<open, workspace, role, pending, stray, sweep, reopened, disturbed>>

(* The connection to the runner breaks before create-db has answered: the  *)
(* command line sends the command again, and the first goes on alone.      *)
Resend(p) ==
  /\ job[p] \in CreateSteps
  /\ stray[p] = "none"
  /\ Fault
  /\ stray' = [stray EXCEPT ![p] = job[p]]
  /\ Go(p, "check")
  /\ result' = [result EXCEPT ![p] = "none"]
  /\ disturbed' = disturbed \union {p}
  /\ UNCHANGED <<open, workspace, db, role, grants, pending, sweep, reopened>>

Stray(p) ==
  LET Onward(step) == stray' = [stray EXCEPT ![p] = IF step = "role" THEN "none" ELSE step]
  IN /\ \/ /\ stray[p] = "check"
           /\ \E to \in {"create", "undo", "role"} : CheckDatabase(p, to) /\ Onward(to)
        \/ /\ stray[p] = "create"
           /\ \E to \in {"undo", "role"} : CreateDatabase(p, to) /\ Onward(to)
        \/ /\ stray[p] = "undo"
           /\ \/ NoFault /\ DropDatabase(p)
              \/ Fault /\ UNCHANGED <<db, grants>>
           /\ Onward("role")
     /\ disturbed' = disturbed \union {p}
     /\ UNCHANGED <<open, workspace, role, job, pending, result, sweep, reopened>>

(* The role after CREATE ROLE or ALTER ROLE ... PASSWORD. *)
Login(p) == "current"

(* provisionUser: the role first, then, in the database, its grants and    *)
(* default privileges, which cover the tables later migrations create.     *)
ProvisionUser(p) ==
  /\ \/ /\ job[p] = "role"
        /\ \/ NoFault /\ role' = [role EXCEPT ![p] = Login(p)] /\ Go(p, "grant") /\ UNCHANGED result
           \/ Fault /\ UNCHANGED role /\ Ends(p, "failed")
        /\ UNCHANGED grants
     \/ /\ job[p] = "grant" /\ db[p] # "none" /\ role[p] # "none"
        /\ \/ NoFault /\ grants' = [grants EXCEPT ![p] = "all"] /\ Go(p, "migrate") /\ UNCHANGED result
           \/ /\ Fault
              /\ grants' \in {grants, [grants EXCEPT ![p] = IF @ = "all" THEN "all" ELSE "some"]}
              /\ Ends(p, "failed")
        /\ UNCHANGED role
     \/ /\ job[p] = "grant" /\ (db[p] = "none" \/ role[p] = "none")
        /\ Ends(p, "refused")
        /\ UNCHANGED <<role, grants, faults>>
  /\ UNCHANGED <<open, workspace, db, pending, stray, sweep, reopened, disturbed>>

(* migrate and seed: on a database that is there. *)
Fill(p) ==
  /\ \/ /\ job[p] = "migrate" /\ db[p] # "none"
        /\ \/ /\ NoFault
              /\ db' = [db EXCEPT ![p] = IF @ = "empty" THEN "migrated" ELSE @]
              /\ Go(p, "seed") /\ UNCHANGED result
           \/ Fault /\ UNCHANGED db /\ Ends(p, "failed")
     \/ /\ job[p] = "seed" /\ db[p] # "none"
        /\ \/ NoFault /\ db' = [db EXCEPT ![p] = IF @ = "migrated" THEN "seeded" ELSE @] /\ Ends(p, "ready")
           \/ Fault /\ UNCHANGED db /\ Ends(p, "failed")
     \/ /\ job[p] \in {"migrate", "seed"} /\ db[p] = "none"
        /\ Ends(p, "refused")
        /\ UNCHANGED <<db, faults>>
  /\ UNCHANGED <<open, workspace, role, grants, pending, stray, sweep, reopened, disturbed>>

-----------------------------------------------------------------------------
(* pr-cleanup.yml: both commands best-effort, then terraform destroy. *)

StartCleanup(p) ==
  /\ job[p] = "idle" /\ pending[p] = "cleanup"
  /\ pending' = [pending EXCEPT ![p] = "none"]
  /\ Go(p, IF p \in workspace THEN "deprovision" ELSE "idle")
  /\ result' = [result EXCEPT ![p] = "none"]
  /\ UNCHANGED <<open, workspace, db, role, grants, stray, sweep, reopened, faults, disturbed>>

(* deprovisionUser connects to the pull request's own database: without it *)
(* it fails, and the role stays for gc-roles.                              *)
DeprovisionUser(p) ==
  /\ \/ /\ job[p] = "deprovision"
        /\ \/ /\ NoFault
              /\ IF db[p] # "none" /\ role[p] # "none"
                 THEN grants' = [grants EXCEPT ![p] = "none"] /\ Go(p, "dropRole")
                 ELSE UNCHANGED grants /\ Go(p, "dropDb")
           \/ Fault /\ UNCHANGED grants /\ Go(p, "dropDb")
        /\ UNCHANGED role
     \/ /\ job[p] = "dropRole"
        /\ \/ NoFault /\ role' = [role EXCEPT ![p] = IF Droppable(p) THEN "none" ELSE @]
           \/ Fault /\ UNCHANGED role
        /\ Go(p, "dropDb")
        /\ UNCHANGED grants
  /\ UNCHANGED <<open, workspace, db, pending, stray, result, sweep, reopened, disturbed>>

DropDb(p) ==
  /\ job[p] = "dropDb"
  /\ \/ NoFault /\ DropDatabase(p)
     \/ Fault /\ UNCHANGED <<db, grants>>
  /\ Go(p, "destroy")
  /\ UNCHANGED <<open, workspace, role, pending, stray, result, sweep, reopened, disturbed>>

(* terraform destroy takes the secret along: a role that is left has a     *)
(* password no later secret will have.                                     *)
Destroy(p) ==
  /\ job[p] = "destroy"
  /\ \/ NoFault /\ workspace' = workspace \ {p}
     \/ Fault /\ UNCHANGED workspace
  /\ role' = [role EXCEPT ![p] = IF @ = "none" THEN "none" ELSE "stale"]
  /\ Go(p, "idle")
  /\ UNCHANGED <<open, db, grants, pending, stray, result, sweep, reopened, disturbed>>

-----------------------------------------------------------------------------
(* gc-pr-dbs.yml. Both commands refuse an empty list. *)

Listed == {l \in SUBSET open : Cardinality(l) = Min({ListLimit, Cardinality(open)})}

ListOpenPrs ==
  /\ sweep.pc = "idle"
  /\ open # {}
  /\ \E l \in Listed :
       sweep' = [sweep EXCEPT !.pc = "scanDbs", !.list = l, !.cut = Cardinality(open) > ListLimit]
  /\ UNCHANGED <<open, workspace, db, role, grants, job, pending, stray, result, faults, reopened, disturbed>>

(* When a sweep may take p's database or role: p is closed, was opened     *)
(* after the list was read, or was cut from a list longer than its limit.  *)
Takeable(p) == p \notin open \/ p \in reopened \/ sweep.cut

(* (slip: the list is passed, and not used) *)
CollectableAll(names) == names

(* (slip: only what still has a runner of its own is collected) *)
CollectableKnown(names) == (names \intersect workspace) \ sweep.list

(* The names of a scan that belong to no listed pull request. *)
Collectable(names) == names \ sweep.list

(* gcDbs: one scan, then a drop at a time; an error ends the command, and  *)
(* the workflow goes on to gc-roles.                                       *)
GcDbs ==
  /\ \/ /\ sweep.pc = "scanDbs"
        /\ sweep' = [sweep EXCEPT !.pc = "dbs", !.todo = Collectable({p \in Prs : db[p] # "none"})]
        /\ UNCHANGED <<db, grants, faults, disturbed>>
     \/ /\ sweep.pc = "dbs"
        /\ \E p \in sweep.todo :
             \/ /\ NoFault
                /\ DropDatabase(p)
                /\ sweep' = [sweep EXCEPT !.todo = @ \ {p}]
                /\ disturbed' = IF Takeable(p) THEN disturbed \union {p} ELSE disturbed
             \/ /\ Fault
                /\ sweep' = [sweep EXCEPT !.pc = "scanRoles", !.todo = {}]
                /\ UNCHANGED <<db, grants, disturbed>>
     \/ /\ sweep.pc = "dbs" /\ sweep.todo = {}
        /\ sweep' = [sweep EXCEPT !.pc = "scanRoles"]
        /\ UNCHANGED <<db, grants, faults, disturbed>>
  /\ UNCHANGED <<open, workspace, role, job, pending, stray, result, reopened>>

(* gcRoles: a role that cannot be dropped is reported, and the loop goes on. *)
GcRoles ==
  /\ \/ /\ sweep.pc = "scanRoles"
        /\ sweep' = [sweep EXCEPT !.pc = "roles", !.todo = Collectable({p \in Prs : role[p] # "none"})]
        /\ UNCHANGED <<role, disturbed, faults>>
     \/ /\ sweep.pc = "roles"
        /\ \E p \in sweep.todo :
             \/ /\ NoFault /\ Droppable(p)
                /\ role' = [role EXCEPT ![p] = "none"]
                /\ sweep' = [sweep EXCEPT !.todo = @ \ {p}]
                /\ disturbed' = IF Takeable(p) THEN disturbed \union {p} ELSE disturbed
             \/ /\ IF Droppable(p) THEN Fault ELSE NoFault
                /\ sweep' = [sweep EXCEPT !.todo = @ \ {p}]
                /\ UNCHANGED <<role, disturbed>>
     \/ /\ sweep.pc = "roles" /\ sweep.todo = {}
        /\ sweep' = NoSweep
        /\ UNCHANGED <<role, disturbed, faults>>
  /\ reopened' = IF sweep'.pc = "idle" THEN {} ELSE reopened
  /\ UNCHANGED <<open, workspace, db, grants, job, pending, stray, result>>

-----------------------------------------------------------------------------
Runner(p) ==
  \/ StartDeploy(p) \/ Apply(p) \/ CreateDb(p) \/ ProvisionUser(p) \/ Fill(p)
  \/ StartCleanup(p) \/ DeprovisionUser(p) \/ DropDb(p) \/ Destroy(p)

Sweep == ListOpenPrs \/ GcDbs \/ GcRoles

Next ==
  \/ \E p \in Prs : Open(p) \/ Push(p) \/ Close(p) \/ Resend(p) \/ Stray(p) \/ Runner(p)
  \/ Sweep

(* A run that is under way or waiting goes on, a handler ends within its   *)
(* timeout, and the sweep runs every night.                                *)
Fairness ==
  /\ \A p \in Prs : WF_vars(Runner(p)) /\ WF_vars(Stray(p))
  /\ WF_vars(Sweep)

Spec == Init /\ [][Next]_vars /\ Fairness

-----------------------------------------------------------------------------
(* An environment whose deploy succeeded stays whole (its seeded database, *)
(* its role with the secret's password and all grants) until its own       *)
(* cleanup, whatever deploys and cleanups of others do, whatever leftovers *)
(* it was built on, and through every sweep whose list is up to date: a    *)
(* pull request that was open when the list was read, and still is, keeps  *)
(* what it has. Not covered, because the code does it: a sweep that finds  *)
(* it closed, whose list is older than its (re)opening, or whose list was  *)
(* cut at its limit; and a create-db sent twice, whose second CREATE       *)
(* DATABASE fails and drops the database (createDb: catch).                *)
ReadyIsWhole ==
  \A p \in Prs :
    result[p] = "ready" /\ job[p] = "idle" /\ p \notin disturbed =>
      /\ p \in workspace
      /\ db[p] = "seeded"
      /\ role[p] = "current"
      /\ grants[p] = "all"

(* Leftovers of earlier deploys, cleanups and sweeps that failed half way  *)
(* never make PostgreSQL refuse a later deploy: it fails only with a       *)
(* statement that failed, after a sweep that could rightly take its        *)
(* database or role (Takeable), or after a create-db sent twice (createDb  *)
(* and provisionUser look before they create).                             *)
LeftoversNeverRefuse ==
  \A p \in Prs : result[p] = "refused" => p \in disturbed

(* What a closed pull request leaves goes in the end, whichever of its     *)
(* cleanup's commands failed, as long as some pull request is open: gc-dbs *)
(* and gc-roles refuse an empty list.                                      *)
OrphansGo ==
  \A p \in Prs :
    <>[](p \notin open /\ open # {}) => <>[](db[p] = "none" /\ role[p] = "none")
=============================================================================
