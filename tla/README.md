# USTC Payment Portal: formal model

TLA+ modules for the payment portal of the U.S. Tax Court
(`ustc-payment-portal`), the TLC configurations that model-check them and the
theorems the TLA+ proof system checks. Paths below are relative to the
repository root.

## 1. The system

The portal stands between court applications (clients) and Pay.gov. A client
creates a payment session for an *obligation* (its name and its own
`transactionReferenceId`), sends the payer to Pay.gov, and asks the portal to
complete the payment when the payer comes back. Each try is one *attempt*: a row
of the Postgres table `transactions`, named by its `agencyTrackingId`. Every
endpoint is a Lambda function; requests run concurrently in separate
environments and share nothing but the table and Pay.gov. Around that core stand
the dashboards that read the table, the migrations that change it while the
portal writes, and the pipelines that give each pull request a database.

### Components, their state, and what makes them correct

| Component | State | Operations | Correct when |
|---|---|---|---|
| `POST /init` (`src/useCases/initPayment.ts`) | none of its own | look up the in-flight attempt; hand out its token again, retire it, or insert a `received` row; `startOnlineCollection`; record the token | one active attempt per obligation; a failed init leaves the obligation retryable |
| `POST /process` (`src/useCases/processPayment.ts`) | none | load by token; claim under a `NOWAIT` row lock; `completeOnlineCollectionWithDetails` with one retry; conditional persist | one request completes a token; what Pay.gov took is in the books |
| `GET /details` (`src/useCases/getDetails.ts`) | none | read by reference; refresh the pending attempt from Pay.gov; persist | a refresh never records a payment Pay.gov did not take |
| Cancel-expired sweep (`src/useCases/cancelExpiredTransactions.ts`) | none | one `UPDATE` of the oldest expired rows, `SKIP LOCKED` | cancels only what never reached Pay.gov; every expired row goes |
| `transactions` (`src/db/TransactionModel.ts`) | the rows, the unique partial index, the `last_updated_at` trigger, row locks | the writes behind the four paths above | the attempt ledger (`AttemptLedger`) |
| Pay.gov client (`src/appContext.ts`, `src/entities/`) | an HTTPS agent | one SOAP call, at most two tries, faults turned into errors | a lost answer is never taken for a refusal |
| Client permissions (`src/clients/permissionsClient.ts`) | a cache with a TTL | load, validate, look up by role | a revoked client is refused within a TTL and a load |
| Connection (`src/db/knex.ts`) | the pool, the promise that creates it | get or create, once | one pool per environment; a failure is retried |
| Fee configuration (`src/config/fees.ts`) | static, versioned | the version active at a date | the version in force is unique; what was vouched for stays payable |
| Deploy health check (`src/useCases/runDeployHealthCheck.ts`) | none | four checks at once | healthy means the environment can pay |
| Court calendar (`src/utils/courtDayBounds.ts`) | none | bounds of days, weeks, months, quarters, fiscal years, and a year before | days tile the time line; years compare like for like |
| Transaction log and revenue summary (`src/useCases/getTransactionLog.ts`, `getRevenueSummary.ts`) | none | page, export, count, total, break down, several statements per answer | figures of one answer agree; an undisturbed export is exact |
| Attempt migrations (`db/migrations/20260424…`, `20260629…`, `20260805…`, `20260915…`) | the unique index, the rows they rewrite, the batches on record | up in batches, down by the last batch | each ends in a table its index accepts and rewrites no attempt it should not |
| Fee, amount and column migrations (all thirteen) | columns, required columns, backfills, the trigger | up and down | a level has its columns however it was reached; running code keeps working |
| Migration safety scanner (`src/migrationSafety/`, the CI gate) | the gate of a pull request | scan, acknowledge, approve | what passes unattended breaks no running release |
| Migration runner (`src/migrationHandler.ts`) | databases, roles, the migration lock | create, drop, provision, collect garbage, migrate, roll back, unlock, seed | an environment is whole after its deploy; leftovers go |
| OpenAPI text, metrics, power tuning, dev server, local stack, seed data, Terraform | — | — | out of scope |

### How they interact, and what is hard

Requests meet in the table. Between any two statements of one request another
request may run, the Lambda may die (it is killed after 27 s), and minutes or
hours may pass before the next one. `POST /process` takes a row lock for one
short transaction only and then protects its claim by the status `processing`
and its age: a claim older than ten minutes is presumed dead. Pay.gov is a
second, external record of the same attempt, and a call to it may take effect
without its answer arriving. A write may commit without its caller learning of
it. The answers of two refreshes may be written in either order.

Inside one environment the module load starts filling the caches while the first
request arrives, and a deploy health check asks for all of them at once: who
finishes last, and who failed, decides what stays cached. A dashboard answer is
put together from statements that each see their own moment, an export from
pages that may lie on two sides of a court midnight. A migration runs beside the
code that is deployed, which may be one release older or newer. The databases of
pull requests are handled by three workflows of which only two exclude each
other. The hazards this leads to are listed in `PROJECT.json`, each at its line.

## 2. Modules

| Module | What it is | Lines of source it stands for |
|---|---|---|
| `PaymentPortal` | the four payment paths over one table and Pay.gov, with time, crashes and failures | the use cases, `TransactionModel` writes, `appContext` |
| `PortalProperties` | its type invariant, safety, action and liveness properties, and the inductive invariant | — |
| `AttemptLedger` | the abstract specification: what the table promises about attempts | the statuses and the unique index |
| `PortalBooks` | `PaymentPortal` with a history, the attempts that went astray: when money Pay.gov took may be missing from the books, and the invariant behind it | — |
| `PortalProofs` | the theorems about `PaymentPortal` | — |
| `BookProofs` | the theorem about `PortalBooks`; extends it and `PortalProofs` | — |
| `FeeSchedule` | the fee configuration as functions | `config/fees.ts`, `validateClient.ts` |
| `LambdaEnvironment` | one execution environment: its caches, its prewarms, the request it serves, the health check; extends `FeeSchedule` | `permissionsClient.ts`, `knex.ts`, `lambdaHandler.ts`, the health checks |
| `LambdaProofs` | the theorems about `LambdaEnvironment` | — |
| `CourtCalendar` | the court's calendar as functions, with its properties at one instant | `courtDayBounds.ts` |
| `CalendarProofs` | the theorems about `CourtCalendar` | — |
| `TransactionLog` | the dashboards' requests as statements over a table that is being written; extends `CourtCalendar` | `getTransactionLog.ts`, `getRevenueSummary.ts`, `TransactionModel` queries, `transactionLogSort.ts` |
| `ReportProofs` | the theorems about `TransactionLog`; extends `CalendarProofs` | — |
| `SchemaMigrations` | the migrations that decide which attempts may coexist, run and rolled back under the portal's writes | four migrations, the runner |
| `SchemaProofs` | the theorems about `SchemaMigrations` | — |
| `ColumnMigrations` | all thirteen migrations as statements on columns and rows, the unique index and the check they may be refused by, the scanner, and the release that runs beside them | `db/migrations/`, `migrationSafety/`, `migrationHandler.ts` |
| `ColumnProofs` | the theorems about `ColumnMigrations`: the statements, the thirteen migrations, the scanner, the invariants | — |
| `PrEnvironments` | the databases and roles of pull requests, and the workflows that make and collect them | `migrationHandler.ts`, three workflows |
| `PrProofs` | the theorems about `PrEnvironments` | — |
| `MCPortal`, `MCBooks`, `MCLambda`, `MCReports`, `MCSchema`, `MCColumns`, `MCEnvironments` | instances for TLC | — |

How they compose. `PaymentPortal` instantiates `AttemptLedger`, which it is shown to
implement; `SchemaMigrations` extends it: the migrations take the portal's writes
from it and lead to a table that obeys it.
`LambdaEnvironment` decides who is let through to a use case and stops there;
`PaymentPortal` starts there. `TransactionLog` sees the portal's writes only as
`Receive` and `Settle`: which row changes when is `PaymentPortal`'s affair, what
a reader sees of it is this module's. `SchemaMigrations` and `ColumnMigrations`
divide the migrations: the first interleaves the statements of one upgrade with
live writes and knows statuses and the index only; the second knows columns,
values, days, the index and the release that runs, and takes a migration as one
step.

In every module a definition followed by a near-copy whose comment begins with
"(slip:" has as that copy the shape the code would have after a plausible
mistake; the specification does not use it. `PROJECT.json` (`mutants`) says
which property each slip breaks.

### PaymentPortal: correspondence with the code

State. A row of the table is an element of `Attempts`; its columns are the
functions `owner` (client and reference), `fee`, `status` (`transactionStatus`,
`"none"` before the insert), `payment` (`paymentStatus`), `token` and `tracked`
(whether `paygovToken` and `paygovTrackingId` are set), `created` and `updated`
(the ages of `createdAt` and `lastUpdatedAt`). `session` is Pay.gov's own record
of the attempt; `handed` the attempts whose token some client was given. Each
Lambda environment `r` has a control point `pc[r]`, the row it works on, what it
was asked (`ask`), Pay.gov's parsed answer and its age (`life`). `faults` are the
kinds of failure the world still exhibits.

Actions, one per database statement or Pay.gov call:

| Code | Actions |
|---|---|
| `initPayment`, `handleIfPaymentProcessedOrPending`, `resolveInFlightTransaction` | `InitFindsNone`, `InitReuses`, `InitRetires` (lookup and decision), then `CancelFound` or `ExpireFound` |
| `recordReceivedTransaction` / `createReceived` | `InsertReceived` |
| `StartOnlineCollectionRequest.makeSoapRequest` | `StartSession` |
| `updateToInitiated` | `RecordToken` |
| `safeUpdateToFailed`, `updateToFailed` after an error | `MarkFailed` |
| `loadAuthorizedContext` | `ProcessLoad` |
| `claimForProcessing` | `ClaimLock` (lock or contention), `ClaimDecide` (guards, patch, commit) |
| `CompleteOnlineCollectionWithDetailsRequest.makeSoapRequest`, `postHttpRequest` | `Complete` |
| `updateAfterPayGovResponse` | `Persist` (expects `processing`), `DetailsRefresh` (expects nothing) |
| `getDetails` | `DetailsRead`, `DetailsQuery`, `DetailsRefresh` |
| `cancelExpiredBatch` | `Sweep` |
| outside | `CustomerSubmits`, `PayGovSettles`, `Tick`, `Crash`, `Recover` |

Abstractions. A request the code refuses without writing is no action. A read and
the decision made from it, with no statement in between, are one step. Between
the row lock and the commit of a claim only the row itself is protected, so other
rows may change there; the sibling check and the patch that follows it are one
step, which the unique index makes harmless (a sibling cannot become paid while
the claimed row is active). The retries of `startOnlineCollection` and of
Pay.gov's `getDetails` are folded into one call that may or may not have taken
effect; those of the completion are not, because the second call meets what the
first one did. There is one clock. Amounts, dates, payment methods, metadata and
return codes are left out. `GET /details` refreshes at most one row
(`TrackedRows`, proved, and the unique index say why), so its fan-out is one
call.

### AttemptLedger

An attempt belongs to one obligation for good, its status moves along the graph
`Moves`, and at most one attempt of an obligation is active. `Moves` is what the
code really does, so it has edges a reader would not expect: an outcome may be
replaced by another one, and a cancelled attempt may be failed by a `POST /init`
that had decided so before. What no interleaving can produce is as telling:
nothing returns to `received` or `initiated`, nothing but `initiated` and
`processing` leads to `processing`, and nothing leads to `cancelled` except
`initiated`.

### FeeSchedule and LambdaEnvironment: correspondence with the code

One environment, which lives as long as the model runs. `secret` is what Secrets
Manager holds and `since` the instant it was last changed. `cache` is the
permissions cache; `readAt` is a history of when its value was read.
`knexInstance` and `initPromise` are the variables of `knex.ts`, the second naming
the task that connects; `pools` counts. `agent` is `httpsAgentCache`. The tasks
are the two prewarms of the module load, the one request an environment serves at
a time, and the four checks of `GET /health`, which runs in a function of its own
(`config.api` says which of the two this environment is).

| Code | Actions |
|---|---|
| module load of `lambdaHandler.ts` | `Init` (`Loaded`) |
| `lambdaHandler`: body, role | `Arrive`, `Refused` |
| `getClientPermissions`: cache or fetch | `CacheHit`, `CacheMiss`, `ReadSecret`, `LoadReturns`, `LoadFails` |
| `getClientByRoleArn`, `authorizeClient`, `validateClient`, the fee checks of `initPayment` | `Verdict`, on `ValidateClient` and `FeeForRequest` |
| `getKnex` | `KnexStep`, `KnexPromise`; `Connected`, `ConnectFails` settle it for all who wait |
| the use case | `Serve`, any answer: `PaymentPortal` has the rest |
| `runDeployHealthCheck` | `HealthCheck`, `AgentBuilt`, `CheckEnds`, `Report` |
| outside | `Publish`, `Tick` |

Abstractions. Keys are sets, so the order `validateClient` tries them in is a
choice between two refusals. A fetch reads the secret at one moment of its
duration, which is at most `MaxLoad`. Credentials and TLS settings are part of
the attempt to connect. A fee's amounts are kept, its texts are not.

### CourtCalendar and TransactionLog: correspondence with the code

An instant is an hour; every offset of `America/New_York` and every bound is a
whole number of hours. The rules of that zone are written out (`Daylight`); the
code takes them from `Intl`. Everything else is `courtDayBounds.ts` function by
function, its two-step search for an offset included, in which the hazards lie.
A date is found among `Years`; an instant is `Around` when two whole years on
either side of it are among them. The code knows every year, and so does the
calendar when `Years` is `Int`: then every instant is `Around`.

A request of the log or the summary is the set `todo` of statements it has yet to
run, in any order, each reading the table as it is (`ReadPage`, `ReadTotal`,
`ReadCounts`, `ReadTotals`, `ReadPrevious`, `ReadTallies`); `got` is what they
returned. `Ask` starts one, `Fail` is a statement's failure, `Answer` the
response, `NextPage` the export client's next request (the client is external; it
asks until page 1's total is covered). `Receive` and `Settle` are the portal's
writes with the trigger's `Stamp`. `PaymentStatus` folds `cancelled` into
`failed`, as the column does.

Abstractions. Metadata search and filters other than the status, and the labels
of payment methods, are left out; so are cents. A row's fee is one of the
configured ones or one that was retired.

### SchemaMigrations: correspondence with the code

Four of the thirteen migrations touch the unique index or the statuses; they are
numbered 1 to 4 in the module. `level` is how many are applied, `starts` the
levels at which the batches on record in `knex_migrations` began, `index` what
`idx_transactions_unique_active` covers (everything, for the plain constraint of
the first schema), `lock` knex's migration lock.

| Code | Actions |
|---|---|
| the portal, whatever request writes | `Write`: a move of `AttemptLedger` the index lets in |
| `migrate` (`knex.migrate.latest`) | `Upgrade`, all pending migrations of the release in one transaction |
| `20260805…` as the first pending one | `CheckPaid`, `PickSuperseded`, `Rewrite`, `Reindex` |
| `rollback` (`knex.migrate.rollback(undefined, false)`) | `StartRollback`, then one `Down` per migration |
| `unlock` | `Unlock`, used as the runbook says, when the run is dead |
| an error, a killed Lambda | `Abandon` |

The other migrations take the table's exclusive lock with their first statement
or consist of a single one, so a batch that begins with them is one step.
Migration 3 does not: it asks for double payments, then rewrites, then reindexes,
and the portal may write in between. Its `UPDATE` finds its rows in the snapshot
it starts with and, under READ COMMITTED, looks again only at the join on
`agency_tracking_id` when a row has changed meanwhile; `Rewrite` therefore
retires what `PickSuperseded` found. Ages are left out: migration 4 cancels any
set of initiated rows. That a migration's transaction is one transaction per
batch upwards and one per migration downwards is how knex runs them.

### ColumnMigrations: correspondence with the code

A migration is two sequences of statements, `up` and `down`, one definition per
file (`InitDb` to `CancelBacklog`; `Reindex` stands for `20260424…` and `20260629…`,
which only replace the index). `Apply` is what Postgres does with one statement:
columns and the columns an `INSERT` must fill, the rows' values, the trigger
(`holds`), the width of `paygov_token`. A statement fails when a column it names is
not there (`Resolves`), when it leaves a required column of a row without a value
(`Filled`), when a token is longer than its column (`Fits`), or when `20260805…`
finds an obligation paid twice and throws (`Check`); the migration then changed
nothing (`Run`). `Obligation[a]` is what attempt `a` is for, and `covered` the
statuses the unique index covers (`IndexUp`, `IndexDown`: what it covers after each
migration and each rollback; the down of `20260424…` leaves no constraint at all).
A migration whose rows do not fit its index is refused as well (`Went`), and the
index refuses a write of the portal (`Admits`). `Meets` has the conditions of the
updates that look at other attempts: `20260805…` retires what a covered attempt
stands beside, the down of `20260915…` restores a cancelled attempt that has no
return code and no covered one beside it. `Fresh[n]` is the empty database after `n`
migrations: what CI has, and what a release built on `n` migrations was tested with.
`db.day` is a clock of days.

| Code | Actions |
|---|---|
| `migrate`, one pending migration | `Up` |
| `rollback`, one migration | `Down` |
| `terraform apply`, forward or one release back | `DeployCode` |
| `scanSql`, the CI check and the deploy's gate | `ScanSql`, `CheckMigrationSafety`, `Approve` |
| `seed`, a fee version by hand | `Seed`, `AddVersion` |
| the release that runs | `CreateReceived`, `UpdateToInitiated`, `TryClaim` (from release 8 on), `UpdateAfterPayGovResponse` (any outcome), `CancelExpired` |

What a release names and what it fills in is taken from the schema it was built
on (`CodeTable`), not listed by hand, so the model asks the question the team
asks: does code built on one level run on another? The scanner works on clauses;
its regular expressions over text are left out. Drafts that narrow a type, add a
constraint or drop a default are left out too: no rule is about them (section 5).
So is a migration file that was changed or renamed, of which the check only warns.

### PrEnvironments: correspondence with the code

`job[p]` is the step of the run that holds pull request `p`'s concurrency group,
`pending[p]` the one run GitHub lets wait for it.

| Code | Actions |
|---|---|
| GitHub: opened, pushed to, closed | `Open`, `Push`, `Close` |
| `cicd-dev.yml`: changes, Terraform | `StartDeploy`, `Apply` |
| `create-db` (`createDb`, its `catch` included) | `CreateDb`: `CheckDatabase`, `CreateDatabase`, undo |
| `aws lambda invoke` sending it again | `Resend`; the first one goes on as `Stray` |
| `provision-user` | `ProvisionUser` |
| `migrate`, `seed` | `Fill` |
| `pr-cleanup.yml`: `deprovision-user`, `drop-db`, Terraform destroy | `StartCleanup`, `DeprovisionUser`, `DropDb`, `Destroy` |
| `gc-pr-dbs.yml`: the list, `gc-dbs`, `gc-roles` | `ListOpenPrs`, `GcDbs`, `GcRoles` |

`disturbed` is a history: the pull requests whose database or role was taken, since
their last deploy began, by a sweep that could rightly take it (`Takeable`: closed
now, (re)opened after the list was read, or the list was cut), or that sent a
`create-db` twice. A sweep that takes something else's is not among them.

## 3. Checks

| Run | Instance | Shows |
|---|---|---|
| `portal_faults` | 2 attempts, one environment of each function; crashes, unacknowledged writes, lost Pay.gov answers | `TypeOK`, `UniqueActive`, `PaymentCoherent`, `PaidMeansCollected`, and that every step is one of `AttemptLedger` (`ImplementsLedger`) |
| `portal_books` | 1 attempt, two `POST /init`, two `POST /process`, one `GET /details`, every failure | that what Pay.gov took is in the books unless the attempt went through one of three named steps (`BooksComplete`); `ExclusiveCompletion`, `CancelledNeverCollected`, `TrackedRows` |
| `portal_live_crash` | crashes until `Recover`, a client that keeps calling `POST /init` | `ProcessingLeaves` |
| `portal_live` | two obligations, Pay.gov fails until `Recover` | `ExpiredLeaves`, `ReceivedLeaves` |
| `environment` | each kind of function; three versions of the secret, one malformed; fees that start, change and are malformed | `OnePool`, `PromiseIsLive`, `RevocationTakesEffect`, `ValidatedStaysKnown`, `HealthyCanPay` |
| `reports` | 2,644 starting hours; 2 rows, three instants around a court midnight, four requests | `DaysTile`, `PeriodsOpenRight`, `YearsCompare`; `BreakdownMatchesCounts`, `PeriodsNested`, `ExportExact`, `PastDaysOnlyLose` |
| `schema_upgrade` | 3 attempts of 2 obligations, every release, abort and rollback | `UpgradeResolves`, `OnlyPaidSupersedes`, `LedgerKept` |
| `migrations` | all thirteen migrations; one attempt, two fees and a later version of one, 51 drafts; two attempts of one obligation | `ColumnsByLevel`, `OnlyKnownRefusals`, `UnattendedKeepsRelease`, `CancellationsKeepTheirDay` |
| `pr_databases` | a pull request with an environment, one without, a list that holds one; two failures | `ReadyIsWhole`, `LeftoversNeverRefuse`, `OrphansGo` |

Each run of a module with a `TypeOK` also checks that (of the portal, once).

Three runs refute what the repository says; `findings` in `PROJECT.json` quotes it:

| Run | Counterexample |
|---|---|
| `portal_twice` | a `POST /process` dies after Pay.gov collected, its row goes stale and is retired; or its answer is lost, the retry is refused and the row is failed: either way the next attempt is collected too |
| `portal_terminal` | nothing fails: two `GET /details` ask for one pending attempt, Pay.gov settles in between, the older answer is written last, and `processed` becomes `pending` |
| `schema_down` | two attempts of one obligation are cancelled; the rollback of migration 4 restores both at once and the index refuses it |

### Bounds, and why they are enough

The portal. Ages saturate just beyond the largest threshold the code compares
them with. In most portal runs, `TokenTTL = 2`,
`ProcessingStale = 2` and `LambdaTimeout = 1` stand for three hours, ten minutes
and 27 seconds; only their order matters, and that a request is always dead before
its claim is stale. There is one client and, but for `portal_live`, one reference:
no statement except the sweep touches two obligations, and the sweep treats rows
one by one. `MaxAttempts = 2` gives an attempt and its successor; what a third
adds is again a predecessor that is no longer active. `portal_books` needs one
attempt only, for a successor never touches its predecessor's row, and
`TokenTTL = 3`, so that a claim may go stale before its token expires, as well as
after; `portal_terminal` needs none and has a `TokenTTL` that no row reaches. `SweepBatch = 1` makes the
batch bind as soon as two rows are due. `portal_live` has two references, so that
the sweep has to choose, and pays for them with `LambdaTimeout = 0` and
`TokenTTL = ProcessingStale = 1`: requests still interleave step by step, but the
clock does not move while one is under way.

`environment`. `CacheTtl = MaxLoad = 1` and `Horizon = 4`: one load may overtake
another, its entry expire, and a change of the secret become older than both
together before the clock stops. Fees start at 1, 2, 3 and 9, so two become active
while the environment lives and one never does.

`reports`. The calendar is checked at every hour of three days around each change
of daylight saving and each opening of a quarter, around the 28 and 29 February
and the 1 March, and once a day, at a moving hour, for three years of which one is
a leap year; the year before each of them is part of the formula. The requests
then run from 30 September to 1 October 2030, when a day, a month, a quarter and a
fiscal year end together, with one write while each is served. Two rows, one of
them possibly of a retired fee, and a page size of one make every page boundary
fall between ties.

`migrations`. One attempt meets the values: two fees and a later version, both
lengths of token, every draft, two days, because a row is either of today or older.
Two interchangeable attempts of one obligation (symmetry) meet the statements and the
index that look at two rows, for all of these speak of a pair: with one fee, short
tokens and no draft, code that is never older than the schema (older code only writes
less), and a third day, so that one can be cancelled after the other (`MCBound`, the
run's constraint). Of the days of two rows the states keep only whether they are over
(`MCView`), which is all a statement or a property asks. A rollback
stops where a pull request adds a migration: `Down` asks for `gate = "none"`. A
release runs at most one migration away from the schema. The drafts are every
`ALTER TABLE` of one or two clauses out of the grammar, a dropped table, and the
expand, backfill, enforce sequence.

`pr_databases`. Databases, roles and groups of different pull requests never meet
except in the list of the sweep, so one environment and one pull request that only
makes the list longer are enough; `ListLimit = 1` stands for GitHub's 100.
`MaxFaults = 2` lets the repair of one failure fail as well.

`schema_upgrade` and `schema_down` use three interchangeable attempts of two
interchangeable obligations (symmetry; they check no liveness): an index conflict
needs two, and the third shows what happens beside it.

### Conditions and exceptions in the properties

`BooksComplete` lets an attempt go `astray` at three moments, each of them one step of
the code, and at no other; what is missing from the books is always one of them.

- `Unheard`: the completing request dies, loses Pay.gov's answer or cannot write it
  down (`processPayment.ts:228`, `:280`). Only with a failure.
- `Overtaken`: a claim is granted between the `SELECT` of a `POST /init` and its
  unconditional `UPDATE` to failed, when that request found the token exactly
  `MAX_TOKEN_AGE_MS` old (neither reusable nor expired) or the claim abandoned. No
  failure is needed for the first; at any other age of the token the claim is
  refused, which is what the theorem says.
- `Unowned`: a request without the claim is to fail the row, because the fee of a
  second `POST /process` could not be read (`processPayment.ts:84`) or a
  `POST /init` did not hear that its token was recorded, and another holds the claim.

`ExportExact` speaks of exports during which nothing was written and all of whose
pages mean the same days. Both conditions are needed: pages are separate
statements, and an export of "today" that runs over midnight changes its days.

`OnlyKnownRefusals` names what a migration may be refused for, each reason with the
state of the table it needs:

- down: long tokens, when `20260407143000…` shortens their column; two cancelled
  attempts of one obligation, both restored by `20260915…` (`schema_down`);
- up: an amount for a fee version whose key a rollback dropped; two attempts of one
  obligation that no index kept apart, when `20260424…` is applied again after its
  down, which leaves no constraint; an attempt in `processing`, written by a release
  ahead of the schema, beside another when `20260629…` covers that status; an
  obligation paid twice, on which `20260805…` throws; and a draft the scan flagged
  and a human approved.

`ReadyIsWhole` holds through every deploy, cleanup and repair of others and every
sweep whose list is up to date. Its exceptions are what `disturbed` names, because
the code does them: a sweep that finds the pull request closed, whose list was read
before it (re)opened or was cut at its limit, and a `create-db` sent twice.

`OrphansGo` assumes that some pull request stays open: `gc-dbs` and `gc-roles`
refuse an empty list, on purpose.

### Fairness

The portal. A request that has started runs on (strong fairness of its next steps:
Postgres queues a statement that waits for a row lock, so it is served however
often others take the lock in between) unless its environment dies. Time passes
(`WF Tick`); failures stop some day (`WF Recover`; without it nothing can be
promised); the scheduled sweep runs again and again (`SF Sweep`). Nobody is
obliged to send a request, except in `RetrySpec`, where a client keeps calling
`POST /init` for an obligation that is not paid, as the API documentation asks.

Pull requests. A run that is under way or waiting goes on, a `create-db` that was
given up by its caller ends (a Lambda has a timeout), and the nightly sweep keeps
running: weak fairness each. Failures are bounded by `MaxFaults`, which stands for
their stopping. Nobody is obliged to open or to push.

The other modules state no fairness, for they check safety only.

## 4. Proofs

| Theorem | Property | In words |
|---|---|---|
| `TypeCorrect` | `TypeOK` | every variable of the portal keeps its type |
| `OneCompletion` | `ExclusiveCompletion` | at most one request is completing an attempt |
| `OneActiveAttempt` | `UniqueActive` | at most one active attempt per obligation |
| `PaidWasCollected` | `PaidMeansCollected` | what the table calls paid, Pay.gov took |
| `CancelledUnpaid` | `CancelledNeverCollected` | a cancelled attempt was never taken |
| `StatusesAgree` | `PaymentCoherent` | the two status columns agree in every row |
| `TrackedForGood` | `TrackedRows` | a row with a tracking id is never claimed again |
| `PortalIsLedger` | `ImplementsLedger` | the portal implements `AttemptLedger` |
| `BooksKept` | `BooksComplete` | under every failure: what Pay.gov took is in the books, but for the attempts one of three named steps has met |
| `SchemaTyped` | `TypeOK` | every variable of the migrating table keeps its type |
| `UpgradeAlwaysResolves` | `UpgradeResolves` | without double payments, migration 3's index builds |
| `PaidSupersede` | `OnlyPaidSupersedes` | migration 3 retires only what a paid attempt superseded |
| `SchemaKeepsLedger` | `LedgerKept` | from migration 3 on the table is an attempt ledger |
| `EnvironmentTypes` | `TypeOK` | every variable of an environment keeps its type |
| `OnePoolEver` | `OnePool` | an environment creates at most one pool |
| `PromiseStaysLive` | `PromiseIsLive` | nobody joins an attempt to connect that is over |
| `ChangesTakeEffect` | `RevocationTakesEffect` | permissions are never older than a TTL and a load |
| `HealthyReportsHold` | `HealthyCanPay` | after a healthy report the environment can reach Pay.gov and its pool |
| `VouchedFeesStay` | `ValidatedStaysKnown` | a fee that was vouched for never becomes unknown |
| `EveryDayTiles` | — | at every instant: a court day ends where the next begins and holds its instants |
| `EveryPeriodOpens` | — | at every instant: weeks, months, quarters and fiscal years open where they should |
| `EveryYearCompares` | — | at every instant: the year before is compared like for like |
| `ReportProofs!TypesKept` | `TypeOK` | every variable of the log keeps its type |
| `CourtDaysTile` | `DaysTile` | the days of the log's clock tile the time line |
| `PeriodsOpen` | `PeriodsOpenRight` | its periods open where they should |
| `ComparedLikeForLike` | `YearsCompare` | its years compare like for like |
| `BreakdownsMatch` | `BreakdownMatchesCounts` | a breakdown adds up to the counts, whatever is written meanwhile |
| `TotalsNest` | `PeriodsNested` | no period's total is below that of a period inside it |
| `ExportsExact` | `ExportExact` | an undisturbed export holds each row of its days once |
| `ClosedDays` | `PastDaysOnlyLose` | a court day that is over never gains a payment |
| `UnflaggedKeepsRelease` | — | an `ALTER TABLE` without a finding keeps every release working that worked |
| `ColumnProofs!TypesKept` | `TypeOK` | every variable of the migrated database keeps its type |
| `EveryLevelItsColumns` | `ColumnsByLevel` | a level has its columns however it was reached |
| `UnattendedWorks` | `UnattendedKeepsRelease` | what no human looked at leaves the running release working |
| `CancellationsHeld` | `CancellationsKeepTheirDay` | no migration moves a cancellation to another day |
| `RefusalsKnown` | `OnlyKnownRefusals` | on what the portal wrote a migration is refused only for the reasons listed above |
| `EnvironmentsTyped` | `TypeOK` | databases, roles, grants and runs keep their types |
| `NothingLeftRefuses` | `LeftoversNeverRefuse` | no leftover makes a later deploy fail |
| `ReadyStaysWhole` | `ReadyIsWhole` | what was deployed stays whole until its cleanup, through every sweep whose list is up to date and complete |

What they assume. The portal's hold for every set of clients, references,
environments and failures, any number of attempts and any ages: the constants are
numbers and sets of the right kind (`SizeAssumption`, `EnvAssumption`,
`FaultAssumption`), and `TimeAssumption`, whose substance is
`LambdaTimeout < ProcessingStale`: a Lambda is dead before its claim is presumed
to be (27 seconds and ten minutes in `terraform/` and `src/db/TransactionModel.ts`).
Those of `LambdaProofs` hold for any fees, secrets, requests and functions, any
TTL and any longest load (`WindowAssumption`: they are numbers; `InputAssumption`:
there is some request; `ScheduleAssumption`: each fee has a sequence of versions).
Those of `PrProofs` hold for any finite set of pull requests, any limit of the list of
open ones and any number of failures (`LimitAssumption`). Those of `CalendarProofs` hold at every instant
that is `Around`, for any years (`YearsAssumption`: they are numbers). Those of
`ReportProofs` hold for any rows, fees, amounts, clock and number of writes
(`LogAssumption`: finitely many rows and fees, some fee configured, and every
instant `Around`) and for any requests the schema lets pass (`QueryAssumption`: a
page has a row). Those of `ColumnProofs` hold for any attempts, fees and amounts
(`FeeAssumption`: NULL is none of the values written and no known amount, a token
is short or long), any clock, and any drafts made of
the grammar's statements (`DraftAssumption`), however long, refused or destructive.
`CancellationsHeld` excludes the drafts that are about cancellations themselves
(`SparingDrafts`: a draft does not replace the trigger, cancel or restore rows, or
drop or rename `transaction_status`), as every draft of its run does.
`RefusalsKnown` asks of the drafts without a finding (`TriedDrafts`) that they went
through on a fresh database, as CI's `migrate:latest` makes them do on a pull
request (`.github/workflows/ci.yml:122`), and that they neither shorten a token nor
fill a column from the fees, throw on no row and rewrite no status. `MCColumns` assumes both of its drafts (`DraftsAsAssumed`), so TLC evaluates
them. `UnflaggedKeepsRelease` needs no assumption.

The portal's invariant. None of the theorems is inductive alone; `IInv` in
`PortalProperties` strengthens them in layers, each proved from those before it.

1. `RowInv` ties each request to the row it holds: what its control point says of
   the row's status, columns and lock (`RowsInHand`, `RoleOf`), and that only one
   request holds a row's lock (`LocksExclude`). `TrackedRows` is part of it,
   because a row that is claimed or refreshed must have its token.
2. `ClaimInv` says that a request between its claim and its answer is younger than
   `LambdaTimeout` and the claim no older than the request (`ClaimsAreFresh`). A
   second claim needs an age of `ProcessingStale`, so `ExclusiveCompletion`
   follows from `TimeAssumption`; this is the only place that uses it.
3. `SessInv` relates rows to Pay.gov's records (`SessionsMatch`): a status, or an
   answer a request holds but has not written, fits what Pay.gov has done by now.
   An answer is never wrong, only old, and whatever Pay.gov's record becomes later
   fits it too, so what is written late still fits. It rests on `ClaimInv` because
   the answer to a second completion of one token would not fit.
4. `RefreshesTracked` says that a refresh in flight works on a row that was
   tracked, which its unconditional write needs.
5. `BookInv` (`PaymentCoherent`, `UniqueActive`) follows from one fact about
   steps, `RowsStep`: every step is a move of the ledger the index lets in, and
   derives `paymentStatus` from the status. The refinement follows from the same
   fact.

`BooksKept` adds `BooksInv`, which says of the attempts that did not go astray: until
it has its answer a claimant's row is in `processing` and unpaid (`ClaimsHold`); what
a `POST /init` is about to retire is unpaid, nobody is completing it, and its token is
at its TTL or past it (`RetiresUnpaid`); what any request is about to fail is unpaid
and nobody is completing it, and a `POST /process` fails no row that could still be
claimed (`FailsUnpaid`). Of all attempts it says that an answer "failed" is final
(`FailuresFinal`) and that an initiated row has its token (`TokensRecorded`). The
proof has one step per action, and in each the three moments are the only places
where one of these facts breaks.

The migrations' invariant, `SchemaInv` in `SchemaProofs`, says that the rows fit
the index in force (Postgres), that the index is the one the applied migrations
call for (each drops before it creates), that only migration 3 works in steps, and
that a batch on record reaches down to the empty schema. `UpgradeResolves` needs
none of it: two siblings left active would both be paid. `OnlyPaidSupersedes`
needs migration 2's index.

The environment has three. `PoolInv`: whoever connects is the task the promise
names, there is no pool then, and a rejected promise is never kept. `FreshInv`:
what was read after the last change of the secret is the secret; a fetch under way
is at most `MaxLoad` old; an entry expires at most `MaxLoad + CacheTtl` after it
was read, whoever wrote it last. A decision taken later than that after a change
therefore rests on something read since. `HealthInv`: a check of the database that
reached its query found the pool, one of Pay.gov that succeeded found the agent (or
needs none), and neither is ever given up. `ValidatedStaysKnown` is inductive alone:
time only adds versions to those that have started, so some version is in force
later if one is now (`KnownForGood`), and the latest exists because finitely many
have started before it (`LeastNat`).

`PrInv` says what a deploy has behind it at each of its steps (the database was
looked for before it is created, is there before the role, the role before its
grants, those before the rows) unless its pull request is in `disturbed`: a sweep
took something that was not on its list, or a second `create-db` was sent. A sweep
collects nothing that is on its list, so whoever is not disturbed keeps all of it.

The calendar needs no invariant: its theorems are about one instant. What the code
finds by trying (`YearOf`, `MonthOf`, the first Sunday of a month) is first shown to
be the only year, month and day there is. Whether an instant is in daylight time is
then decided by two days of its year, and the two-step search of `StartOfZoneDay` is
right because the clock never changes within an hour of a court midnight: the first
guess may use the wrong offset, the second may not. `EveryYearCompares` follows a
date into the year before by cases on the leap day.

The log's invariant has four parts. `Typed`: the table's clock is `Around`, a
running request has answers of its type to the statements that have run, and an
export has so many pages of so many rows behind it. `CountsRead`: once a log's first page
has its counts, the successes among them are the sum of the tally; counts and tally
are one statement, which is why no write between two statements can part them. `TotalsRead`: the totals nest as soon as
they are read, because a period's bounds lie inside those of the period around it
(a fact about the calendar, `Around` again) and revenue is a sum of amounts that are
not negative. `ExportSoFar`: an export nothing disturbed has assembled exactly the
first `page * size` rows, in the order asked for, of the rows that match; `Upto`
names them, and one more page adds the next slice. TLC has checked these parts as
invariants of the run as well. Sums over rows and fees are folds over sets; that a
sum does not depend on the order, splits into two, and grows with its set is proved
from a least counterexample, since no induction theorem can be used. `ClosedDays`
needs one lemma on the writers (`Writers`: a row that becomes paid is stamped with
the present) and one on the calendar: a payment stamped now is not before the end of
a day that is over.

The migrations of columns are walked once, without rows. A `State` is a pair of
column sets and the columns `transactions` requires; `Step` says what one statement
makes of it, `Leads` what a migration does, and one lemma per migration and
direction says that it leads from the columns of its level, `At(n)`, to those of the
next (`LevelsLead`). `LeadsRun` carries this to databases: if `Run` succeeds, the
columns are where the walk ends, by a least counterexample over the positions of the
statements. The way down ends with fewer required columns than the way up began with
where `CreateFees` was rolled back (`BackTo`), so `Typed` has the columns of the
level exactly and its required ones as a bound (`OfLevel`); it also has the table
`Sound`: each row has a value for every column, none is NULL where it is required,
and its days are in order. `EveryLevelItsColumns` is part of it. That `Fresh[n]` is
`At(n)` (`FreshLevels`) also tells what a release's code names.

`UnattendedWorks` adds what became of a draft: once it has been applied, the columns
keep those of the last migration and require no more, unless a human approved it
(`Reviewed`, `Landed`). A migration without findings keeps columns (`Keeps`), by the
argument of `UnflaggedKeepsRelease` statement by statement, and those with findings
are found by computing the scan of all thirteen. `CancellationsHeld` adds that the
trigger holds from migration 12 on (`Holding`). A statement that does not touch
statuses cancels nobody (`SameStatus`); the one that does, the backlog's, comes after
it and dates nobody anew (`DayHeld`).

`RefusalsKnown` is about values and about pairs of attempts. A migration is refused
for its columns, which `Typed` rules out, for a row that lacks a value, for a double
payment, or for its index. Of values, most migrations ask nothing of
the rows (`Gentle`, `LevelsFine`), and neither does a clean draft: it went through
on the fresh database, whose columns are those of the level (`CleanDraftGoes`). The
other ones, three ups and two downs, fill a column before they require it: two
downs with a constant (`RefillRun`), the ups from the fees (`AmountRun`,
`KeyedUpdate`). These need `Held`: as long as no rollback dropped the key of a fee's
version, every fee a row names is a key the backfills know or the id of a fee whose
key is (`FeesHeld`), and a version is only there while fees have keys; `KeyedFees`,
that every fee has a key at all, holds even then. `Held` must be followed through
every migration, refused or not, and every write; the migrations keep it because
none writes a fee's column from anything else (`Mild`).

Of pairs, the invariant is `Unique`: no two attempts of an obligation are both in
statuses the index covers. The portal's writes keep it by `Admits`. `UpOnce` and
`DownOnce` say of each migration and each rollback that it keeps it too or is refused
for a reason on the list: most leave every attempt its status (`SameStatus`), so
only a wider index can find doubles, and those are of the statuses it gained; the
three that rewrite statuses (`Rewrites`) retire what a covered attempt stands beside
(`SupersededOnce`), uncover what they cancel (`BacklogOnce`), or restore what no
covered attempt stands beside, so that only two restored at once can meet
(`RestoredOnce`).

Model-checked only: the liveness properties (`ExpiredLeaves`, `ReceivedLeaves`,
`ProcessingLeaves`, `OrphansGo`), which are out of the prover's reach.
The refuted properties have no theorems.

## 5. Known limits of the code

What the models show of the code and no passing run claims otherwise. The first
three are the refuting runs above.

- A payment may be collected twice, after a crash or a lost answer (`portal_twice`).
- Two `GET /details` may write their answers in either order, so a `processed` row
  may be `pending` again (`getDetails.ts:163`, `portal_terminal`);
  `TransactionStatus.schema.ts:26` calls `processed` terminal. `AttemptLedger!Moves`
  has the edge.
- The rollback of `20260915…` may be refused (`schema_down`).
- `20260805…` throws where an obligation was paid twice before it, which until then
  no index excluded: two payments in `processed` did not conflict. Once
  `20260424…` is rolled back nothing keeps attempts apart, and applying it again may
  be refused (`OnlyKnownRefusals`).
- A `POST /init` that dies between its insert and the recorded token leaves a
  `received` row: no lookup finds it, no sweep cancels it, and it holds the unique
  index, so its obligation cannot be tried again. `src/openapi/registry.ts:158`
  says to retry "once the in-flight attempt finishes". `ReceivedLeaves` is checked
  without crashes for that reason.
- A `POST /init` that decides to fail a row at its TTL writes later and without a
  condition, over a payment recorded meanwhile (`initPayment.ts:346`).
- `getDetails.ts:66` assumes "all rows for a transactionReferenceId share the same
  fee key"; `POST /init` does not compare.
- A token exactly three hours old is neither reusable nor expired
  (`initPayment.ts:322`), so a payment claimed at that instant may be written over
  (`Overtaken`).
- `20260805…:60` may retire a payment recorded while its `UPDATE` runs.
- The `UPDATE`s of `20260408…`, `20260714…` and `20260721…` rewrite every row while
  the trigger dates it, so all rows move to the day of the migration; a sweep
  between the deploy of its code and the migration `20260914…` dates its
  cancellations the same way.
- `20260721…` gives every row the amount its fee has today, also those charged
  under a later version.
- The page of the log fails on a row whose fee left the configuration, where
  counts and breakdown keep it (`TransactionModel.ts:469`).
- `getRevenueSummary.ts:31` degrades without last year's totals, "matching
  getTransactionLog"; `getTransactionLog.ts:84` throws.
- `TransactionLog.schema.ts:177` asks export clients to compare their row count
  with page 1's total; a row that moves to an earlier page meanwhile is lost, its
  neighbour at the boundary is repeated, and the count still agrees.
- `docs/client-onboarding.md:143` lets a revocation take effect within the TTL; it
  is the TTL and the duration of one load (`RevocationTakesEffect`).
- The migration scanner flags dropped and renamed things and required columns. It
  does not flag a narrowed type, a new constraint or unique index, or a dropped
  default, which may break running code too; `UnattendedKeepsRelease` speaks of
  drafts without them.
- A `create-db` sent twice may drop the database it has just made
  (`migrationHandler.ts:463`); the sweep may drop that of a pull request that
  reopened since the list was read, and does drop those beyond the hundredth.

## 6. Not modelled, and what is left

Left out for good: XML and SOAP headers, request validation beyond its outcome,
error bodies and OpenAPI (wording); metrics (no state); `testCert`, the dev server,
power tuning, seed data and the local stack (development tooling); Terraform,
except for the Lambda timeout and the schedules; the regular expressions of the
scanner. The three older dashboard queries (`getRecentTransactions`,
`getTransactionsByStatus`, `getTransactionPaymentStatus`) are single reads without
a state or a second statement. Metadata search and payment-method labels of the
log are filters and texts.

Left to do: a theorem that the portal's writes are `SchemaMigrations`' writes under
the final schema.
