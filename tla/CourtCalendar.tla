---------------------------- MODULE CourtCalendar ----------------------------
(***************************************************************************)
(* The court's calendar: which instants bound its days, weeks, months,      *)
(* quarters and fiscal years, and the periods of the year before they are   *)
(* compared with.  An instant is a whole number of hours of UTC since       *)
(* 1970-01-01; a day is a whole number of days since then.                  *)
(***************************************************************************)
EXTENDS Integers

CONSTANT Years   \* the years that instants may fall in

ASSUME YearsAssumption == Years \subseteq Int

PeriodNames == {"day", "week", "month", "quarter", "fiscalYear"}

(* Civil dates, as Date.UTC reads them: a day beyond its month runs on.     *)
Leap(y) == y % 4 = 0 /\ (y % 100 # 0 \/ y % 400 = 0)
DaysBefore(y, m) ==
  <<0, 31, 59, 90, 120, 151, 181, 212, 243, 273, 304, 334>>[m]
  + (IF m > 2 /\ Leap(y) THEN 1 ELSE 0)
NewYear(y) == 365 * (y - 1970) + (y - 1969) \div 4 - (y - 1901) \div 100
              + (y - 1601) \div 400
Day(y, m, d) == NewYear(y) + DaysBefore(y, m) + d - 1
Weekday(day) == (day + 4) % 7

YearOf(day)  == CHOOSE y \in Years : day < NewYear(y + 1) /\ NewYear(y) <= day
MonthOf(day) ==
  LET y == YearOf(day) IN
    CHOOSE m \in 1..12 : /\ m < 12 => day < Day(y, m + 1, 1)
                         /\ Day(y, m, 1) <= day
DateOf(day)  == LET m == MonthOf(day) IN
  [year |-> YearOf(day), month |-> m, day |-> day - Day(YearOf(day), m, 1) + 1]

(* Instants with two whole years on either side: what the calendar reckons *)
(* with, a year back included, has a year.                                  *)
Around(t) ==
  \E y \in Years : /\ (y - 3) .. (y + 2) \subseteq Years
                   /\ NewYear(y) <= t \div 24 /\ t \div 24 < NewYear(y + 1)

(* America/New_York: daylight saving from 2 a.m. of the second Sunday in    *)
(* March to 2 a.m. of the first Sunday in November.                         *)
FirstSunday(y, m) == LET first == Day(y, m, 1) IN
  first + ((7 - Weekday(first)) % 7)
Daylight(t) == LET y == YearOf((t - 5) \div 24) IN
  24 * (FirstSunday(y, 3) + 7) + 7 <= t /\ t < 24 * FirstSunday(y, 11) + 6
ZoneOffset(t) == IF Daylight(t) THEN -4 ELSE -5

LocalDay(t)  == (t + ZoneOffset(t)) \div 24
LocalHour(t) == (t + ZoneOffset(t)) % 24
PartsInZone(t) == DateOf(LocalDay(t))

(* (slip: the court keeps a fixed EST)                                      *)
StartOfZoneDayEst(day) == 24 * day + 5

(* The first guess may use the offset of the other side of a change.        *)
StartOfZoneDay(day) ==
  LET naive == 24 * day
      first == naive - ZoneOffset(naive)
  IN naive - ZoneOffset(first)

(* (slip: an hour that was skipped lands before the change)                 *)
ZonedDateTimeEarly(day, hour) ==
  LET naive == 24 * day + hour IN naive - ZoneOffset(naive - ZoneOffset(naive))

(* An hour skipped in March lands after the change.                         *)
ZonedDateTimeToUtc(day, hour) ==
  LET naive    == 24 * day + hour
      first    == naive - ZoneOffset(naive)
      resolved == naive - ZoneOffset(first)
  IN IF LocalHour(resolved) = hour THEN resolved ELSE first

ShiftCourtYear(t, delta) ==
  LET now  == PartsInZone(t)
      year == now.year + delta
      day  == IF now.month = 2 /\ now.day = 29 /\ ~Leap(year) THEN 28 ELSE now.day
  IN ZonedDateTimeToUtc(Day(year, now.month, day), LocalHour(t))

CourtDayBoundsForDate(day) == [start |-> StartOfZoneDay(day),
                               end   |-> StartOfZoneDay(day + 1)]
CourtDayBounds(t) == CourtDayBoundsForDate(LocalDay(t))

(* Every period is to date: it opens at a court midnight and ends at t.     *)
(* (slip: October closes the fiscal year)                                   *)
OpeningDayNovember(name, t) ==
  LET now == PartsInZone(t) IN
    CASE name = "day"     -> LocalDay(t)
      [] name = "week"    -> LocalDay(t) - Weekday(LocalDay(t))
      [] name = "month"   -> Day(now.year, now.month, 1)
      [] name = "quarter" -> Day(now.year, now.month - ((now.month - 1) % 3), 1)
      [] OTHER            -> Day(IF now.month > 10 THEN now.year ELSE now.year - 1, 10, 1)

OpeningDay(name, t) ==
  LET now == PartsInZone(t) IN
    CASE name = "day"     -> LocalDay(t)
      [] name = "week"    -> LocalDay(t) - Weekday(LocalDay(t))
      [] name = "month"   -> Day(now.year, now.month, 1)
      [] name = "quarter" -> Day(now.year, now.month - ((now.month - 1) % 3), 1)
      [] OTHER            -> Day(IF now.month >= 10 THEN now.year ELSE now.year - 1, 10, 1)
CourtPeriodBounds(t) ==
  [name \in PeriodNames |-> [start |-> StartOfZoneDay(OpeningDay(name, t)), end |-> t]]

(* A year earlier, and for the week the same weekdays and the same clock.   *)
(* (slip: the week, too, ends on the shifted date)                          *)
PreviousCourtPeriodBoundsByDate(t) == CourtPeriodBounds(ShiftCourtYear(t, -1))

PreviousCourtPeriodBounds(t) ==
  LET shifted == ShiftCourtYear(t, -1)
      sunday  == OpeningDay("week", shifted)
      sameDay == ZonedDateTimeToUtc(sunday + Weekday(LocalDay(t)), LocalHour(t))
  IN [CourtPeriodBounds(shifted) EXCEPT !["week"].end = sameDay]

-----------------------------------------------------------------------------
(* The properties of the calendar at one instant t.                         *)

(* Court days tile the time line: t lies in its day, which has 23 to 25     *)
(* hours, starts at a court midnight, and ends where the next day starts.   *)
DayTiles(t) ==
  LET today == CourtDayBounds(t) IN
    /\ today.start <= t /\ t < today.end
    /\ today.end - today.start \in 23..25
    /\ LocalHour(today.start) = 0 /\ LocalDay(today.start) = LocalDay(t)
    /\ CourtDayBounds(today.end).start = today.end

(* Each period opens at a court midnight on the right date, not after t,    *)
(* and t does not reach the opening of the next one.                        *)
PeriodOpens(t) ==
  LET months(opens) == 12 * (PartsInZone(t).year - opens.year)
                       + PartsInZone(t).month - opens.month
  IN \A name \in PeriodNames :
       LET start == CourtPeriodBounds(t)[name].start
           opens == PartsInZone(start)
       IN /\ start <= t /\ LocalHour(start) = 0
          /\ CASE name = "day"     -> LocalDay(start) = LocalDay(t)
               [] name = "week"    -> Weekday(LocalDay(start)) = 0 /\ LocalDay(t) - LocalDay(start) < 7
               [] name = "month"   -> opens.day = 1 /\ months(opens) = 0
               [] name = "quarter" -> opens.day = 1 /\ opens.month \in {1, 4, 7, 10} /\ months(opens) < 3
               [] name = "fiscalYear" -> opens.day = 1 /\ opens.month = 10 /\ months(opens) < 12

(* The year before is compared like for like: as many days into the period, *)
(* at the same hour (the next one if it was skipped), the week on the same  *)
(* weekday.  Only a 29 February falls back one day.                         *)
LikeForLike(t) ==
  LET leapDay  == PartsInZone(t).month = 2 /\ PartsInZone(t).day = 29
      current  == CourtPeriodBounds(t)
      previous == PreviousCourtPeriodBounds(t)
      days(p)  == LocalDay(p.end) - LocalDay(p.start)
      hour     == LocalHour(t)
  IN \A name \in {"day", "week", "month"} :
       LET before == previous[name] IN
         /\ before.start <= before.end /\ before.end < current[name].start
         /\ days(before) = days(current[name])
                           - (IF leapDay /\ name = "month" THEN 1 ELSE 0)
         /\ \/ LocalHour(before.end) = hour
            \/ LocalHour(before.end) = hour + 1 /\ LocalHour(before.end - 1) = hour - 1
=============================================================================
