---------------------------- MODULE TransactionLog ----------------------------
(***************************************************************************)
(* What the dashboards read: GET /transaction-log, page by page or as an    *)
(* export, and GET /revenue-summary, over a table the portal keeps writing. *)
(* A request is several statements on the one connection of its pool, in    *)
(* no fixed order, each reading the table as it is at that moment.          *)
(***************************************************************************)
EXTENDS CourtCalendar, FiniteSetsExt, SequencesExt

CONSTANTS
  Attempts,        \* rows, 1..n in the order of their agencyTrackingId
  Fees,            \* fee keys
  Carries,         \* Carries[a]: those row a may carry
  Configured,      \* those staticFees has, in the order of their names
  Amount,          \* Amount[f]: transactionAmount of a row of fee f
  Instants,        \* when rows are written and requests made
  Starts,          \* when the model may begin
  Queries,         \* the requests
  MaxPageSize, MaxExportPageSize,
  MaxWrites        \* bound: writes while one request, or one export, is served

ASSUME LogAssumption ==
  /\ Instants \subseteq Nat /\ Starts \subseteq Nat
  /\ \A t \in Instants \cup Starts : Around(t)
  /\ Configured \in Seq(Fees) /\ Configured # <<>>
  /\ IsFiniteSet(Fees) /\ Amount \in [Fees -> Nat]
  /\ Attempts \subseteq Nat /\ IsFiniteSet(Attempts)
  /\ \A a \in Attempts : Carries[a] \subseteq Fees
  /\ MaxWrites \in Nat

(* The requests TransactionLogQuerySchema may let pass: a page has a row.   *)
ASSUME QueryAssumption ==
  /\ Queries # {}
  /\ Queries \subseteq [kind : {"log", "summary"}, days : Seq(Int), size : Nat \ {0},
                        export : BOOLEAN, only : STRING, totals : BOOLEAN,
                        breakdown : BOOLEAN, sort : STRING, order : STRING]

(* Configured is a sequence: a fee's place in it is its place by name.      *)
ConfiguredFees == Range(Configured)

VARIABLES
  now,
  row,        \* row[a]: [status, fee, updated]; status "none" before the insert
  query,      \* the request being served
  askedAt,    \* its reading of the clock
  page,       \* and page
  todo,       \* the statements it has yet to run
  got,        \* what they returned
  outcome,    \* "idle", "running", or the status code
  assembled,  \* the rows of the export so far
  expected,   \* page 1's total
  firstAt,    \* page 1's clock
  written     \* how often a row was written since page 1 was asked for

request == <<query, askedAt, page, todo, got, outcome>>
export  == <<assembled, expected, firstAt>>
vars    == <<now, row, request, export, written>>

(* paymentStatus, and for "failed" whether the attempt was cancelled.       *)
RowStatuses == {"pending", "success", "failed", "cancelled"}
PaymentStatus(status) == IF status = "cancelled" THEN "failed" ELSE status
Present == {a \in Attempts : row[a].status # "none"}

-----------------------------------------------------------------------------
(* The writers.  set_last_updated_at stamps every write but a cancellation, *)
(* so a cancelled attempt stays in the day it was last attempted.           *)
(* (slip: a payment stays in the day of its attempt, too)                   *)
StampAttempt(a, status) ==
  IF status \in {"cancelled", "success"} THEN row[a].updated ELSE now

Stamp(a, status) == IF status = "cancelled" THEN row[a].updated ELSE now

Write(a, new) == /\ now \in Instants
                 /\ row' = [row EXCEPT ![a] = new]
                 /\ IF outcome = "idle" THEN UNCHANGED written
                    ELSE written < MaxWrites /\ written' = written + 1
                 /\ UNCHANGED <<now, request, export>>

Receive(a, fee) == /\ row[a].status = "none"
                   /\ Write(a, [status |-> "pending", fee |-> fee, updated |-> now])

Outcomes == {"pending", "success", "failed"}
Settle(a, status) ==
  /\ \/ row[a].status \in Outcomes /\ status \in Outcomes
     \/ row[a].status = "pending" /\ status = "cancelled"
     \/ row[a].status = "cancelled" /\ status = "failed"
  /\ Write(a, [row[a] EXCEPT !.status = status, !.updated = Stamp(a, status)])

-----------------------------------------------------------------------------
(* TransactionLogQuerySchema.  A query is [kind, days, size, export, only,  *)
(* totals, breakdown, sort, order]; days are the court days of from and to. *)
Bounds(days) == [start |-> CourtDayBoundsForDate(days[1]).start,
                 end   |-> CourtDayBoundsForDate(days[2]).end]
ValidQuery(q) ==
  /\ Len(q.days) \in {0, 2}
  /\ Len(q.days) = 2 => Bounds(q.days).start < Bounds(q.days).end
  /\ q.size <= IF q.export THEN MaxExportPageSize ELSE MaxPageSize

(* Court bounds of the instants at which requests are made.                 *)
TodayAt    == [t \in Instants |-> CourtDayBounds(t)]
PeriodsAt  == [t \in Instants |-> CourtPeriodBounds(t)]
PreviousAt == [t \in Instants |-> PreviousCourtPeriodBounds(t)]
RangeOf    == [q \in {r \in Queries : Len(r.days) = 2} |-> Bounds(q.days)]
TimeframeOf(q, t) == IF q.days = <<>> THEN TodayAt[t] ELSE RangeOf[q]

Within(bounds) == {a \in Present : bounds.start <= row[a].updated /\ row[a].updated < bounds.end}
Paid(bounds)   == {a \in Within(bounds) : row[a].status = "success"}
Matching(q, t) == {a \in Within(TimeframeOf(q, t)) :
                     q.only \in {"any", PaymentStatus(row[a].status)}}

(* transactionLogOrderBy: a fee without a name comes last in both orders,   *)
(* and the tracking id breaks every tie.  (slip: it does not, so ties fall  *)
(* differently on every other page)                                         *)
NameOf(a) == CHOOSE i \in DOMAIN Configured : Configured[i] = row[a].fee
Named(a)  == row[a].fee \in ConfiguredFees
Key(a, q) == IF q.sort = "feeName" THEN NameOf(a) ELSE row[a].updated
Nulls(a, q) == q.sort = "feeName" /\ ~Named(a)
Before(a, b, q) ==
  IF Nulls(a, q) \/ Nulls(b, q) THEN ~Nulls(a, q)
  ELSE IF q.order = "asc" THEN Key(a, q) < Key(b, q) ELSE Key(a, q) > Key(b, q)
Tied(a, b, q) == /\ Nulls(a, q) <=> Nulls(b, q)
                 /\ Nulls(a, q) \/ Key(a, q) = Key(b, q)

EarlierLoosely(a, b, q) ==
  IF ~Tied(a, b, q) THEN Before(a, b, q) ELSE IF page % 2 = 0 THEN a > b ELSE a < b

Earlier(a, b, q) == IF Tied(a, b, q) THEN a < b ELSE Before(a, b, q)

OrderedBy(S, q) ==
  CHOOSE rows \in SetToSeqs(S) :
    \A i, j \in DOMAIN rows : i < j => Earlier(rows[i], rows[j], q)

Page(S, q) == LET all == OrderedBy(S, q) IN
  SubSeq(all, (page - 1) * q.size + 1, Min({page * q.size, Len(all)}))

Tally(S) == [f \in Fees |-> [qty |-> Cardinality({a \in S : row[a].fee = f}),
                             subtotal |-> Amount[f] * Cardinality({a \in S : row[a].fee = f})]]
Revenue(S) == SumFunctionOnSet([a \in Attempts |-> Amount[row[a].fee]], S)
TotalsToDate(periods) == [name \in PeriodNames |-> Revenue(Paid(periods[name]))]

Counts(S) == [s \in Outcomes |-> Cardinality({a \in S : PaymentStatus(row[a].status) = s})]

(* buildFeeBreakdown: every configured fee, and what else brought revenue.  *)
(* (slip: only the configured ones)                                         *)
BuildFeeBreakdownConfigured(tally) == [f \in ConfiguredFees |-> tally[f]]

BuildFeeBreakdown(tally) ==
  [f \in ConfiguredFees \cup {g \in Fees : tally[g].qty > 0} |-> tally[f]]

-----------------------------------------------------------------------------
(* The request.                                                             *)
NoTally  == [f \in Fees |-> [qty |-> 0, subtotal |-> 0]]
NoTotals == [name \in PeriodNames |-> 0]
Nothing == [rows |-> <<>>, total |-> 0, counts |-> [s \in Outcomes |-> 0], tally |-> NoTally,
            totals |-> NoTotals, fees |-> [name \in PeriodNames |-> NoTally],
            previous |-> NoTotals, trends |-> FALSE]

WithCounts(q, p) == ~q.export \/ p = 1
Statements(q, p) ==
  IF q.kind = "summary" THEN {"tallies", "previous"}
  ELSE {"page"} \cup {s \in {"total", "counts"} : WithCounts(q, p)}
                \cup {s \in {"totals", "previous"} : WithCounts(q, p) /\ q.totals}

Start(q, p) == /\ query' = q /\ page' = p /\ askedAt' = now
               /\ todo' = Statements(q, p)
               /\ got' = Nothing /\ outcome' = "running"

Ask(q) ==
  /\ outcome = "idle" /\ now \in Instants
  /\ IF ValidQuery(q)
     THEN Start(q, 1) /\ assembled' = <<>> /\ firstAt' = now /\ written' = 0
     ELSE /\ outcome' = "400"
          /\ UNCHANGED <<query, askedAt, page, todo, got, assembled, firstAt, written>>
  /\ UNCHANGED <<now, row, expected>>

Took(s, result) == /\ todo' = todo \ {s}
                   /\ got' = result
                   /\ UNCHANGED outcome

(* Whatever fails, the answer is a 500 and what it had read is dropped.      *)
(* (slip: the other statements' answers are still awaited)                  *)
FailedPending == outcome' = "500" /\ UNCHANGED <<todo, got>>

Failed == outcome' = "500" /\ todo' = {} /\ got' = Nothing

(* queryLog: the rows of the page; a fee without a name fails the request.  *)
ReadPage ==
  /\ "page" \in todo
  /\ LET rows == Page(Matching(query, askedAt), query) IN
       IF \E a \in Range(rows) : ~Named(a)
       THEN Failed
       ELSE Took("page", [got EXCEPT !.rows = rows])

ReadTotal ==
  /\ "total" \in todo
  /\ Took("total", [got EXCEPT !.total = Cardinality(Matching(query, askedAt))])

(* countsInRange, or with a breakdown countsAndFeeBreakdownInRange: both    *)
(* from one statement.  (slip: the tallies are a statement of their own)    *)
ReadCountsApart ==
  \/ /\ "counts" \in todo
     /\ todo' = (todo \ {"counts"}) \cup {"tallies"}
     /\ got' = [got EXCEPT !.counts = Counts(Within(TimeframeOf(query, askedAt)))]
     /\ UNCHANGED outcome
  \/ /\ "tallies" \in todo /\ query.kind = "log"
     /\ Took("tallies", [got EXCEPT !.tally = Tally(Paid(TimeframeOf(query, askedAt)))])

ReadCounts ==
  /\ "counts" \in todo
  /\ LET bounds == TimeframeOf(query, askedAt) IN
       Took("counts", [got EXCEPT !.counts = Counts(Within(bounds)),
                                  !.tally  = IF query.breakdown THEN Tally(Paid(bounds))
                                             ELSE @])

(* (slip: a statement for each period, the day's first)                     *)
ReadTotalsApart ==
  LET totals == TotalsToDate(PeriodsAt[askedAt]) IN
    \/ /\ "totals" \in todo
       /\ todo' = (todo \ {"totals"}) \cup {"longer"}
       /\ got' = [got EXCEPT !.totals["day"] = totals["day"]]
       /\ UNCHANGED outcome
    \/ /\ "longer" \in todo
       /\ Took("longer", [got EXCEPT !.totals = [totals EXCEPT !["day"] = got.totals["day"]]])

ReadTotals ==
  /\ "totals" \in todo
  /\ Took("totals", [got EXCEPT !.totals = TotalsToDate(PeriodsAt[askedAt])])

ReadPrevious ==
  /\ "previous" \in todo
  /\ Took("previous", [got EXCEPT !.previous = TotalsToDate(PreviousAt[askedAt]),
                                  !.trends = TRUE])

(* feeTalliesByPeriods: the summary's totals are the sums of its tallies.   *)
SummaryTotals(tallies) ==
  [name \in PeriodNames |-> SumFunction([f \in Fees |-> tallies[name][f].subtotal])]

ReadTallies ==
  /\ "tallies" \in todo /\ query.kind = "summary"
  /\ LET tallies == [name \in PeriodNames |-> Tally(Paid(PeriodsAt[askedAt][name]))] IN
       Took("tallies", [got EXCEPT !.fees = tallies, !.totals = SummaryTotals(tallies)])

Run == /\ outcome = "running"
       /\ ReadPage \/ ReadTotal \/ ReadCounts \/ ReadTotals \/ ReadPrevious \/ ReadTallies
       /\ UNCHANGED <<now, row, query, askedAt, page, export, written>>

(* A statement fails: the request does, but a summary without last year's   *)
(* totals only loses its trends.                                            *)
Fail(s) ==
  /\ outcome = "running" /\ s \in todo
  /\ IF query.kind = "summary" /\ s = "previous"
     THEN Took(s, got)
     ELSE Failed
  /\ UNCHANGED <<now, row, query, askedAt, page, export, written>>

Answer ==
  /\ outcome = "running" /\ todo = {}
  /\ outcome' = "200"
  /\ assembled' = assembled \o got.rows
  /\ expected' = IF page = 1 THEN got.total ELSE expected
  /\ UNCHANGED <<now, row, query, askedAt, page, todo, got, firstAt, written>>

(* The exporting client asks for pages until page 1's total is covered.     *)
MorePages == outcome = "200" /\ query.kind = "log" /\ query.export
             /\ page * query.size < expected
NextPage == /\ MorePages /\ now \in Instants
            /\ Start(query, page + 1)
            /\ UNCHANGED <<now, row, export, written>>

Idle == /\ query' = (CHOOSE q \in Queries : TRUE)
        /\ askedAt' = 0 /\ page' = 1 /\ todo' = {} /\ got' = Nothing /\ outcome' = "idle"
        /\ assembled' = <<>> /\ expected' = 0 /\ firstAt' = 0 /\ written' = 0

Forget == /\ outcome \notin {"idle", "running"} /\ ~MorePages
          /\ Idle
          /\ UNCHANGED <<now, row>>

Pass(t) == /\ t > now
           /\ now' = t
           /\ UNCHANGED <<row, request, export, written>>

Init == /\ now \in Starts
        /\ row = [a \in Attempts |-> [status |-> "none", fee |-> Configured[1], updated |-> 0]]
        /\ query = (CHOOSE q \in Queries : TRUE)
        /\ askedAt = 0 /\ page = 1 /\ todo = {} /\ got = Nothing /\ outcome = "idle"
        /\ assembled = <<>> /\ expected = 0 /\ firstAt = 0 /\ written = 0

Next == \/ \E a \in Attempts : \E f \in Carries[a] : Receive(a, f)
        \/ \E a \in Attempts, s \in RowStatuses : Settle(a, s)
        \/ \E q \in Queries : Ask(q)
        \/ Run \/ Answer \/ NextPage \/ Forget
        \/ \E s \in todo : Fail(s)
        \/ \E t \in Instants : Pass(t)

Spec == Init /\ [][Next]_vars

-----------------------------------------------------------------------------
(* What a dashboard may rely on.                                            *)

(* Every variable keeps to its domain; a request reads the clock it was     *)
(* asked at, and only it has statements to run.                             *)
TypeOK ==
  /\ now \in Int /\ askedAt <= now /\ firstAt <= now
  /\ row \in [Attempts -> [status : RowStatuses \cup {"none"}, fee : Fees, updated : Int]]
  /\ \A a \in Attempts : row[a].updated <= now
  /\ query \in Queries /\ page \in 1 .. Cardinality(Attempts) + 1
  /\ outcome \in {"idle", "running", "200", "400", "500"}
  /\ todo # {} => outcome = "running"
  /\ assembled \in Seq(Attempts) /\ expected \in 0 .. Cardinality(Attempts)
  /\ written \in 0 .. MaxWrites

(* The calendar holds at every instant the model may begin at.              *)
Beginning == Present = {} /\ outcome = "idle"
DaysTile         == Beginning => DayTiles(now)
PeriodsOpenRight == Beginning => PeriodOpens(now)
YearsCompare     == Beginning => LikeForLike(now)

(* counts.success is the sum of the breakdown's quantities, whatever is     *)
(* written while the log's statements run, and with revenue of fees that    *)
(* have left the configuration.                                             *)
BreakdownMatchesCounts ==
  outcome = "200" /\ query.kind = "log" /\ query.breakdown /\ page = 1 =>
    LET shown == BuildFeeBreakdown(got.tally) IN
      got.counts["success"] = SumFunction([f \in DOMAIN shown |-> shown[f].qty])

(* A period's total is never below that of a period inside it.              *)
PeriodsNested ==
  outcome = "200" /\ (query.kind = "summary" \/ query.totals) =>
    LET total == got.totals IN
      /\ total["day"] <= total["week"] /\ total["day"] <= total["month"]
      /\ total["month"] <= total["quarter"] /\ total["quarter"] <= total["fiscalYear"]

(* An export during which nothing was written, over the days it named or    *)
(* within one court day, is every matching row once, whatever is sorted by  *)
(* and however many rows tie.                                               *)
Exported == outcome = "200" /\ query.kind = "log" /\ query.export /\ ~MorePages
ExportExact ==
  Exported /\ written = 0 /\ TimeframeOf(query, firstAt) = TimeframeOf(query, askedAt) =>
    /\ Range(assembled) = Matching(query, askedAt)
    /\ Len(assembled) = expected /\ expected = Cardinality(Range(assembled))

(* A court day that is over never gains a payment: what it reported can     *)
(* only shrink, when a later write moves a row to its own day.              *)
CourtDays == {CourtDayBounds(t) : t \in Instants}
PastDaysOnlyLose ==
  [][\A day \in CourtDays : day.end <= now => Paid(day)' \subseteq Paid(day)]_vars
===============================================================================
