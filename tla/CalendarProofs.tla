---------------------------- MODULE CalendarProofs ----------------------------
(* The calendar's properties at every instant, for any years that reach     *)
(* three before its own and two after: that a court midnight, although      *)
(* guessed from an offset that may be the wrong one, opens its day; that    *)
(* the days tile the time line; that every period opens where it should;    *)
(* and that the year before is compared like for like. The argument is      *)
(* arithmetic: a day has one year and one month, the two changes of         *)
(* daylight saving lie well inside the year and apart from any midnight,    *)
(* and a year back is 364 to 368 days.                                      *)
EXTENDS CourtCalendar, TLAPS

-----------------------------------------------------------------------------
(* Years and months.                                                        *)

(* A year has 365 days, or 366 when it leaps.                               *)
LEMMA YearLength ==
  ASSUME NEW y \in Int
  PROVE  /\ NewYear(y) \in Int
         /\ NewYear(y + 1) = NewYear(y) + (IF Leap(y) THEN 366 ELSE 365)
BY DEF NewYear, Leap

(* A year is over before any later one begins.                              *)
LEMMA YearsInOrder ==
  ASSUME NEW y \in Int, NEW z \in Int, y < z
  PROVE  NewYear(y + 1) <= NewYear(z)
BY DEF NewYear

(* The days before each month, one by one: the provers do not index a       *)
(* sequence by a variable.                                                  *)
LEMMA MonthTable ==
  ASSUME NEW y \in Int
  PROVE  /\ DaysBefore(y, 1) = 0 /\ DaysBefore(y, 2) = 31
         /\ DaysBefore(y, 3) = 59 + (IF Leap(y) THEN 1 ELSE 0)
         /\ DaysBefore(y, 4) = 90 + (IF Leap(y) THEN 1 ELSE 0)
         /\ DaysBefore(y, 5) = 120 + (IF Leap(y) THEN 1 ELSE 0)
         /\ DaysBefore(y, 6) = 151 + (IF Leap(y) THEN 1 ELSE 0)
         /\ DaysBefore(y, 7) = 181 + (IF Leap(y) THEN 1 ELSE 0)
         /\ DaysBefore(y, 8) = 212 + (IF Leap(y) THEN 1 ELSE 0)
         /\ DaysBefore(y, 9) = 243 + (IF Leap(y) THEN 1 ELSE 0)
         /\ DaysBefore(y, 10) = 273 + (IF Leap(y) THEN 1 ELSE 0)
         /\ DaysBefore(y, 11) = 304 + (IF Leap(y) THEN 1 ELSE 0)
         /\ DaysBefore(y, 12) = 334 + (IF Leap(y) THEN 1 ELSE 0)
BY DEF DaysBefore

(* A month has at least 28 days and is over before any later one begins.    *)
LEMMA MonthsInOrder ==
  ASSUME NEW y \in Int, NEW m \in 1..12, NEW n \in 1..12, m < n
  PROVE  /\ DaysBefore(y, m) \in 0..335
         /\ m < 12 => DaysBefore(y, m) + 28 <= DaysBefore(y, m + 1)
         /\ m < 12 => DaysBefore(y, m + 1) <= DaysBefore(y, n)
<1>1. m \in {1, 2, 3, 4, 5, 6, 7, 8, 9, 10, 11, 12} /\ n \in {1, 2, 3, 4, 5, 6, 7, 8, 9, 10, 11, 12}
  OBVIOUS
<1> QED BY <1>1, MonthTable

(* The years cover a day: one of them contains it.                          *)
Covered(day) == \E y \in Years : NewYear(y) <= day /\ day < NewYear(y + 1)

(* At most one year contains a day, so that it is the one YearOf chooses.   *)
LEMMA YearIs ==
  ASSUME NEW day \in Int, NEW y \in Years, NewYear(y) <= day, day < NewYear(y + 1)
  PROVE  YearOf(day) = y
<1>1. ASSUME NEW z \in Years, NewYear(z) <= day, day < NewYear(z + 1)
      PROVE  z = y
  <2>1. y \in Int /\ z \in Int
    BY YearsAssumption
  <2>2. NewYear(y) \in Int /\ NewYear(y + 1) \in Int /\ NewYear(z) \in Int /\ NewYear(z + 1) \in Int
    BY <2>1, YearLength
  <2>3. ~(z < y)
    BY <1>1, <2>1, <2>2, YearsInOrder
  <2>4. ~(y < z)
    BY <1>1, <2>1, <2>2, YearsInOrder
  <2> QED BY <2>1, <2>3, <2>4
<1> QED BY <1>1 DEF YearOf

(* The year YearOf chooses contains the day, if any does.                   *)
LEMMA YearFound ==
  ASSUME NEW day \in Int, Covered(day)
  PROVE  /\ YearOf(day) \in Years /\ YearOf(day) \in Int
         /\ NewYear(YearOf(day)) <= day /\ day < NewYear(YearOf(day) + 1)
<1>1. PICK y \in Years : NewYear(y) <= day /\ day < NewYear(y + 1)
  BY DEF Covered
<1> QED BY <1>1, YearIs, YearsAssumption

(* The first of a month, without the detour of Date.UTC.                    *)
LEMMA DayIs ==
  ASSUME NEW y \in Int, NEW m \in 1..12
  PROVE  /\ Day(y, m, 1) \in Int
         /\ Day(y, m, 1) = NewYear(y) + DaysBefore(y, m)
<1>1. NewYear(y) \in Int
  BY YearLength
<1>2. DaysBefore(y, m) \in Int
  BY m \in {1, 2, 3, 4, 5, 6, 7, 8, 9, 10, 11, 12}, MonthTable
<1> QED BY <1>1, <1>2 DEF Day

(* The month of a day is the one whose first it has reached, and not the    *)
(* next one's.                                                              *)
LEMMA MonthIs ==
  ASSUME NEW day \in Int, NEW y \in Int, YearOf(day) = y, NEW m \in 1..12,
         Day(y, m, 1) <= day, m < 12 => day < Day(y, m + 1, 1)
  PROVE  MonthOf(day) = m
<1> DEFINE in(k) == (k < 12 => day < Day(y, k + 1, 1)) /\ Day(y, k, 1) <= day
<1>1. ASSUME NEW k \in 1..12, in(k) PROVE k = m
  <2>1. \A a, b \in 1..12 : a < b => a + 1 \in 1..12 /\ Day(y, a + 1, 1) <= Day(y, b, 1)
    <3>1. SUFFICES ASSUME NEW a \in 1..12, NEW b \in 1..12, a < b
                   PROVE  a + 1 \in 1..12 /\ Day(y, a + 1, 1) <= Day(y, b, 1)
      OBVIOUS
    <3>2. a + 1 \in 1..12
      BY <3>1
    <3>3. DaysBefore(y, a + 1) <= DaysBefore(y, b)
      BY <3>1, MonthsInOrder
    <3>4. DaysBefore(y, a + 1) \in Int /\ DaysBefore(y, b) \in Int /\ NewYear(y) \in Int
      BY <3>2, YearLength, MonthTable, a + 1 \in {1, 2, 3, 4, 5, 6, 7, 8, 9, 10, 11, 12},
         b \in {1, 2, 3, 4, 5, 6, 7, 8, 9, 10, 11, 12}
    <3>5. /\ Day(y, a + 1, 1) = NewYear(y) + DaysBefore(y, a + 1)
          /\ Day(y, b, 1) = NewYear(y) + DaysBefore(y, b)
      BY <3>2, DayIs
    <3> QED BY <3>2, <3>3, <3>4, <3>5
  <2>2. \A a \in 1..12 : Day(y, a, 1) \in Int
    BY DayIs
  <2>3. ~(k < m)
    BY <1>1, <2>1, <2>2
  <2>4. ~(m < k)
    BY <1>1, <2>1, <2>2
  <2> QED BY <2>3, <2>4
<1>2. in(m)
  OBVIOUS
<1>3. MonthOf(day) = CHOOSE k \in 1..12 : in(k)
  BY DEF MonthOf
<1> QED BY <1>1, <1>2, <1>3

(* The month MonthOf chooses contains the day: of the twelve firsts one is  *)
(* the last not to be later.                                                *)
LEMMA MonthFound ==
  ASSUME NEW day \in Int, Covered(day), NEW y, y = YearOf(day), NEW m, m = MonthOf(day)
  PROVE  /\ m \in 1..12 /\ Day(y, m, 1) <= day
         /\ m < 12 => day < Day(y, m + 1, 1)
<1> DEFINE in(k) == (k < 12 => day < Day(y, k + 1, 1)) /\ Day(y, k, 1) <= day
<1>1. y \in Int /\ NewYear(y) <= day
  BY YearFound
<1>2. \E k \in 1..12 : in(k)
  <2>1. \A k \in 1..12 : Day(y, k, 1) \in Int
    BY <1>1, DayIs
  <2>2. Day(y, 1, 1) <= day
    BY <1>1, DayIs, MonthTable, YearLength
  <2> DEFINE D(k) == Day(y, k, 1)
  <2>3. /\ D(1) \in Int /\ D(2) \in Int /\ D(3) \in Int /\ D(4) \in Int /\ D(5) \in Int
        /\ D(6) \in Int /\ D(7) \in Int /\ D(8) \in Int /\ D(9) \in Int /\ D(10) \in Int
        /\ D(11) \in Int /\ D(12) \in Int
    BY <2>1
  <2>4. ASSUME \A k \in 1..12 : ~in(k)
        PROVE  FALSE
    <3>1. ASSUME NEW k \in 1..12, k < 12, D(k) <= day PROVE D(k + 1) <= day
      <4>1. ~(day < D(k + 1))
        BY <2>4, <3>1
      <4>2. k + 1 \in 1..12
        BY <3>1
      <4> QED BY <2>1, <4>1, <4>2
    <3>2. D(2) <= day /\ D(3) <= day /\ D(4) <= day /\ D(5) <= day /\ D(6) <= day /\ D(7) <= day
      <4> HIDE DEF D
      <4> QED BY <2>2, <3>1 DEF D
    <3>3. D(8) <= day /\ D(9) <= day /\ D(10) <= day /\ D(11) <= day /\ D(12) <= day
      <4> HIDE DEF D
      <4> QED BY <3>1, <3>2
    <3> QED BY <2>4, <3>3
  <2> QED BY <2>4
<1>3. m = CHOOSE k \in 1..12 : in(k)
  BY DEF MonthOf
<1> QED BY <1>2, <1>3

-----------------------------------------------------------------------------
(* Daylight saving.                                                         *)

(* The clocks change on two days of a year, well inside it.                 *)
Spring(y) == FirstSunday(y, 3) + 7
Fall(y)   == FirstSunday(y, 11)

(* Spring's change is in the first three months and autumn's in the last    *)
(* three, whatever weekday the year begins on.                              *)
LEMMA ChangesInside ==
  ASSUME NEW y \in Int
  PROVE  /\ Spring(y) \in Int /\ Fall(y) \in Int
         /\ NewYear(y) + 60 <= Spring(y) /\ Spring(y) <= NewYear(y) + 80
         /\ NewYear(y) + 300 <= Fall(y) /\ Fall(y) <= NewYear(y) + 320
<1>1. /\ Day(y, 3, 1) = NewYear(y) + DaysBefore(y, 3)
      /\ Day(y, 11, 1) = NewYear(y) + DaysBefore(y, 11)
  BY DayIs
<1>2. NewYear(y) \in Int
  BY YearLength
<1>3. ASSUME NEW n \in Int PROVE n + ((7 - Weekday(n)) % 7) \in n .. (n + 6)
  BY <1>3 DEF Weekday
<1> QED BY <1>1, <1>2, <1>3, MonthTable DEF Spring, Fall, FirstSunday

(* Whichever year the reckoning of t falls in, a day around y is in         *)
(* daylight time exactly between the changes of y.                          *)
LEMMA DaylightIs ==
  ASSUME NEW y \in Years, y - 1 \in Years, y + 1 \in Years,
         NEW t \in Int, 24 * NewYear(y) - 24 <= t, t <= 24 * NewYear(y + 1) + 24
  PROVE  Daylight(t) <=> 24 * Spring(y) + 7 <= t /\ t < 24 * Fall(y) + 6
<1> DEFINE day == (t - 5) \div 24
           z == YearOf(day)
<1>1. y \in Int /\ day \in Int
  BY YearsAssumption
<1>2. /\ NewYear(y) \in Int /\ NewYear(y + 1) \in NewYear(y) + 365 .. NewYear(y) + 366
      /\ NewYear(y) \in NewYear(y - 1) + 365 .. NewYear(y - 1) + 366
      /\ NewYear(y + 2) \in NewYear(y + 1) + 365 .. NewYear(y + 1) + 366
      /\ NewYear(y - 1) \in Int /\ NewYear(y + 2) \in Int
  <2>1. y - 1 \in Int /\ y + 1 \in Int /\ (y - 1) + 1 = y /\ (y + 1) + 1 = y + 2 /\ y + 2 \in Int
    BY <1>1
  <2>2. /\ NewYear(y - 1) \in Int /\ NewYear(y) \in Int /\ NewYear(y + 1) \in Int
        /\ NewYear(y + 2) \in Int
    BY <1>1, <2>1, YearLength
  <2>3. /\ NewYear((y - 1) + 1) = NewYear(y - 1) + (IF Leap(y - 1) THEN 366 ELSE 365)
        /\ NewYear(y + 1) = NewYear(y) + (IF Leap(y) THEN 366 ELSE 365)
        /\ NewYear((y + 1) + 1) = NewYear(y + 1) + (IF Leap(y + 1) THEN 366 ELSE 365)
    BY <1>1, <2>1, YearLength
  <2> QED BY <2>1, <2>2, <2>3
<1>3. 24 * day <= t - 5 /\ t - 5 < 24 * day + 24
  BY <1>1
<1>4. Daylight(t) <=> 24 * Spring(z) + 7 <= t /\ t < 24 * Fall(z) + 6
  BY DEF Daylight, Spring, Fall
<1> HIDE DEF day, z
<1>5. /\ NewYear(y) + 60 <= Spring(y) /\ Spring(y) <= NewYear(y) + 80
      /\ NewYear(y) + 300 <= Fall(y) /\ Fall(y) <= NewYear(y) + 320
      /\ Spring(y) \in Int /\ Fall(y) \in Int
  BY <1>1, ChangesInside
<1>6. CASE day < NewYear(y)
  <2>1. z = y - 1
    BY <1>1, <1>2, <1>3, <1>6, YearIs, (y - 1) + 1 = y DEF z
  <2>2. Fall(z) <= NewYear(y - 1) + 320 /\ Fall(z) \in Int
    BY <1>1, <2>1, ChangesInside, y - 1 \in Int
  <2> QED BY <1>2, <1>3, <1>4, <1>5, <1>6, <2>2, <1>1
<1>7. CASE NewYear(y) <= day /\ day < NewYear(y + 1)
  BY <1>1, <1>4, <1>7, YearIs DEF z
<1>8. CASE NewYear(y + 1) <= day
  <2>1. z = y + 1
    BY <1>1, <1>2, <1>3, <1>8, YearIs, (y + 1) + 1 = y + 2 DEF z
  <2>2. NewYear(y + 1) + 60 <= Spring(z) /\ Spring(z) \in Int
    BY <1>1, <2>1, ChangesInside, y + 1 \in Int
  <2> QED BY <1>2, <1>3, <1>4, <1>5, <1>8, <2>2, <1>1
<1> QED BY <1>1, <1>2, <1>6, <1>7, <1>8

(* A day in a year whose neighbours are years, too.                         *)
Surrounded(day) ==
  \E y \in Years : /\ y - 1 \in Years /\ y + 1 \in Years
                   /\ NewYear(y) <= day /\ day < NewYear(y + 1)

(* Of the hours from a midnight of UTC on, up to the next court midnight,   *)
(* the zone has one offset, or it changes at 7 in spring or 6 in autumn:    *)
(* after the court's midnight and before its next one.                      *)
LEMMA ZoneOfDay ==
  ASSUME NEW day \in Int, Surrounded(day)
  PROVE  \/ \A h \in 0..29 : ZoneOffset(24 * day + h) = -5
         \/ \A h \in 0..29 : ZoneOffset(24 * day + h) = -4
         \/ \A h \in 0..29 : ZoneOffset(24 * day + h) = IF h < 7 THEN -5 ELSE -4
         \/ \A h \in 0..29 : ZoneOffset(24 * day + h) = IF h < 6 THEN -4 ELSE -5
<1>1. PICK y \in Years : /\ y - 1 \in Years /\ y + 1 \in Years
                         /\ NewYear(y) <= day /\ day < NewYear(y + 1)
  BY DEF Surrounded
<1>2. y \in Int /\ NewYear(y) \in Int /\ NewYear(y + 1) \in Int
  BY YearsAssumption, YearLength
<1>3. Spring(y) \in Int /\ Fall(y) \in Int /\ Spring(y) + 200 <= Fall(y)
  BY <1>2, ChangesInside
<1>4. ASSUME NEW h \in 0..29
      PROVE  ZoneOffset(24 * day + h) =
               IF 24 * Spring(y) + 7 <= 24 * day + h /\ 24 * day + h < 24 * Fall(y) + 6
               THEN -4 ELSE -5
  <2>1. 24 * day + h \in Int /\ 24 * NewYear(y) - 24 <= 24 * day + h
        /\ 24 * day + h <= 24 * NewYear(y + 1) + 24
    BY <1>1, <1>2
  <2> QED BY <1>1, <2>1, DaylightIs DEF ZoneOffset
<1>5. CASE day < Spring(y) \/ day > Fall(y)
  BY <1>3, <1>4, <1>5
<1>6. CASE day = Spring(y)
  BY <1>3, <1>4, <1>6
<1>7. CASE Spring(y) < day /\ day < Fall(y)
  BY <1>3, <1>4, <1>7
<1>8. CASE day = Fall(y)
  BY <1>3, <1>4, <1>8
<1> QED BY <1>3, <1>5, <1>6, <1>7, <1>8

-----------------------------------------------------------------------------
(* Court days.                                                              *)

(* A court midnight is 4 or 5 hours after that of UTC, as the offset at     *)
(* that midnight has it: the first guess was right.                         *)
LEMMA Midnight ==
  ASSUME NEW day \in Int, Surrounded(day)
  PROVE  /\ ZoneOffset(24 * day) \in {-4, -5}
         /\ StartOfZoneDay(day) = 24 * day - ZoneOffset(24 * day)
         /\ ZoneOffset(StartOfZoneDay(day)) = ZoneOffset(24 * day)
<1> DEFINE Z(h) == ZoneOffset(24 * day + h)
<1>0. \/ \A h \in 0..29 : Z(h) = -5
      \/ \A h \in 0..29 : Z(h) = -4
      \/ \A h \in 0..29 : Z(h) = IF h < 7 THEN -5 ELSE -4
      \/ \A h \in 0..29 : Z(h) = IF h < 6 THEN -4 ELSE -5
  BY ZoneOfDay
<1>1. \A h \in 0..5 : Z(h) = Z(0)
  <2> HIDE DEF Z
  <2> QED BY <1>0
<1>2. ZoneOffset(24 * day) \in {-4, -5}
  BY DEF ZoneOffset
<1>3. 24 * day + 0 = 24 * day
  OBVIOUS
<1>4. 24 * day - ZoneOffset(24 * day) \in {24 * day + 4, 24 * day + 5}
  BY <1>2
<1>5. ZoneOffset(24 * day - ZoneOffset(24 * day)) = ZoneOffset(24 * day)
  BY <1>1, <1>3, <1>4
<1> QED BY <1>2, <1>5 DEF StartOfZoneDay

(* An instant is of the court day between whose midnights it lies.          *)
LEMMA DayOf ==
  ASSUME NEW day \in Int, Surrounded(day), Surrounded(day + 1), NEW t \in Int
  PROVE  LocalDay(t) = day <=> StartOfZoneDay(day) <= t /\ t < StartOfZoneDay(day + 1)
<1> DEFINE z == ZoneOffset(t)
           a == ZoneOffset(24 * day)
           b == ZoneOffset(24 * (day + 1))
<1>1. z \in {-4, -5} /\ a \in {-4, -5} /\ b \in {-4, -5}
  BY DEF ZoneOffset
<1>2. StartOfZoneDay(day) = 24 * day - a /\ StartOfZoneDay(day + 1) = 24 * day + 24 - b
  BY Midnight
<1>3. LocalDay(t) = day <=> 24 * day <= t + z /\ t + z < 24 * day + 24
  <2>1. t + z \in Int
    BY <1>1
  <2> QED BY <2>1 DEF LocalDay
<1>4. ASSUME t - 24 * day \in 0..29
      PROVE  /\ t - 24 * day < 6 => z = a
             /\ t - 24 * day >= 24 => z = b
  <2>1. /\ z = ZoneOffset(24 * day + (t - 24 * day)) /\ a = ZoneOffset(24 * day + 0)
        /\ b = ZoneOffset(24 * day + 24)
    <3>1. 24 * day + (t - 24 * day) = t /\ 24 * day + 0 = 24 * day /\ 24 * day + 24 = 24 * (day + 1)
      OBVIOUS
    <3> QED BY <3>1
  <2> HIDE DEF z, a, b
  <2> QED BY <1>4, <2>1, ZoneOfDay
<1> HIDE DEF z, a, b
<1> QED BY <1>1, <1>2, <1>3, <1>4

(* Where a court day starts the court's clock shows midnight of that day.   *)
LEMMA MidnightIsLocal ==
  ASSUME NEW day \in Int, Surrounded(day), Surrounded(day + 1)
  PROVE  /\ StartOfZoneDay(day) \in Int
         /\ LocalDay(StartOfZoneDay(day)) = day /\ LocalHour(StartOfZoneDay(day)) = 0
<1> DEFINE a == ZoneOffset(24 * day)
<1>1. StartOfZoneDay(day) = 24 * day - a /\ ZoneOffset(StartOfZoneDay(day)) = a /\ a \in {-4, -5}
  BY Midnight
<1>2. StartOfZoneDay(day) + ZoneOffset(StartOfZoneDay(day)) = 24 * day
  BY <1>1
<1>3. StartOfZoneDay(day) \in Int
  BY <1>1
<1> HIDE DEF a
<1> QED BY <1>2, <1>3 DEF LocalDay, LocalHour

(* Court midnights come in the order of their days.                         *)
LEMMA MidnightsInOrder ==
  ASSUME NEW c \in Int, NEW d \in Int, Surrounded(c), Surrounded(d)
  PROVE  /\ c <= d => StartOfZoneDay(c) <= StartOfZoneDay(d)
         /\ c < d => StartOfZoneDay(c) < StartOfZoneDay(d)
<1>1. StartOfZoneDay(c) = 24 * c - ZoneOffset(24 * c) /\ ZoneOffset(24 * c) \in {-4, -5}
  BY Midnight
<1>2. StartOfZoneDay(d) = 24 * d - ZoneOffset(24 * d) /\ ZoneOffset(24 * d) \in {-4, -5}
  BY Midnight
<1>3. c = d => StartOfZoneDay(c) = StartOfZoneDay(d)
  OBVIOUS
<1> QED BY <1>1, <1>2, <1>3

(* Days up to two years from such a year have their neighbours' years.      *)
LEMMA DaysAround ==
  ASSUME NEW y \in Years, (y - 3) .. (y + 2) \subseteq Years,
         NEW day \in Int, NewYear(y - 2) <= day, day < NewYear(y + 2)
  PROVE  Surrounded(day) /\ Covered(day)
<1>1. y \in Int
  BY YearsAssumption
<1>2. ASSUME NEW k \in -2 .. 1, NewYear(y + k) <= day, day < NewYear(y + (k + 1))
      PROVE  Surrounded(day)
  <2>1. y + k \in Years /\ (y + k) - 1 \in Years /\ (y + k) + 1 \in Years
    BY <1>1
  <2>2. (y + k) + 1 = y + (k + 1)
    BY <1>1
  <2> QED BY <1>2, <2>1, <2>2 DEF Surrounded
<1>3. /\ NewYear(y - 2) \in Int /\ NewYear(y - 1) \in Int /\ NewYear(y) \in Int
      /\ NewYear(y + 1) \in Int /\ NewYear(y + 2) \in Int
  BY <1>1, YearLength
<1>4. /\ y - 2 = y + (-2) /\ y - 1 = y + (-1) /\ y = y + 0
      /\ -1 = -2 + 1 /\ 0 = -1 + 1 /\ 1 = 0 + 1 /\ 2 = 1 + 1
  BY <1>1
<1>5. Surrounded(day)
  <2>1. CASE day < NewYear(y - 1)
    BY <1>2, <1>4, <2>1
  <2>2. CASE NewYear(y - 1) <= day /\ day < NewYear(y)
    BY <1>2, <1>4, <2>2
  <2>3. CASE NewYear(y) <= day /\ day < NewYear(y + 1)
    BY <1>2, <1>4, <2>3
  <2>4. CASE NewYear(y + 1) <= day
    BY <1>2, <1>4, <2>4
  <2> QED BY <1>3, <2>1, <2>2, <2>3, <2>4
<1> QED BY <1>5 DEF Surrounded, Covered

(* The court day of t is the day of UTC or the one before.                  *)
LEMMA LocalDayNear ==
  ASSUME NEW t \in Int
  PROVE  LocalDay(t) \in (t \div 24 - 1) .. (t \div 24)
<1>1. ZoneOffset(t) \in {-4, -5}
  BY DEF ZoneOffset
<1>2. t + ZoneOffset(t) \in {t - 4, t - 5}
  BY <1>1
<1> QED BY <1>2 DEF LocalDay

(* The days up to 700 before the court day of t and 300 after it have their *)
(* neighbours' years: those the periods and the year before are reckoned    *)
(* with.                                                                    *)
LEMMA NearbyDays ==
  ASSUME NEW t \in Int, Around(t)
  PROVE  \A k \in -700 .. 300 : Surrounded(LocalDay(t) + k) /\ Covered(LocalDay(t) + k)
<1>1. PICK y \in Years : /\ (y - 3) .. (y + 2) \subseteq Years
                         /\ NewYear(y) <= t \div 24 /\ t \div 24 < NewYear(y + 1)
  BY DEF Around
<1>2. y \in Int /\ t \div 24 \in Int
  BY YearsAssumption
<1>3. /\ NewYear(y - 1) + 365 <= NewYear(y) /\ NewYear(y - 2) + 365 <= NewYear(y - 1)
      /\ NewYear(y + 1) + 365 <= NewYear(y + 2)
      /\ NewYear(y - 2) \in Int /\ NewYear(y - 1) \in Int /\ NewYear(y) \in Int
      /\ NewYear(y + 1) \in Int /\ NewYear(y + 2) \in Int
  <2>1. /\ (y - 1) + 1 = y /\ (y - 2) + 1 = y - 1 /\ (y + 1) + 1 = y + 2
        /\ y - 1 \in Int /\ y - 2 \in Int /\ y + 1 \in Int /\ y + 2 \in Int
    BY <1>2
  <2>2. /\ NewYear(y - 2) \in Int /\ NewYear(y - 1) \in Int /\ NewYear(y) \in Int
        /\ NewYear(y + 1) \in Int /\ NewYear(y + 2) \in Int
    BY <1>2, <2>1, YearLength
  <2>3. /\ NewYear((y - 1) + 1) = NewYear(y - 1) + (IF Leap(y - 1) THEN 366 ELSE 365)
        /\ NewYear((y - 2) + 1) = NewYear(y - 2) + (IF Leap(y - 2) THEN 366 ELSE 365)
        /\ NewYear((y + 1) + 1) = NewYear(y + 1) + (IF Leap(y + 1) THEN 366 ELSE 365)
    BY <2>1, YearLength
  <2> QED BY <2>1, <2>2, <2>3
<1>4. TAKE k \in -700 .. 300
<1>5. LocalDay(t) \in Int /\ t \div 24 - 1 <= LocalDay(t) /\ LocalDay(t) <= t \div 24
  BY <1>2, LocalDayNear
<1>6. LocalDay(t) + k \in Int /\ NewYear(y - 2) <= LocalDay(t) + k /\ LocalDay(t) + k < NewYear(y + 2)
  BY <1>1, <1>2, <1>3, <1>5
<1> QED BY <1>1, <1>6, DaysAround

(* The year of the court day of t has its neighbours, too.                  *)
LEMMA TodaySurrounded ==
  ASSUME NEW t \in Int, Around(t)
  PROVE  Surrounded(LocalDay(t))
<1>1. LocalDay(t) + 0 = LocalDay(t) /\ 0 \in -700 .. 300
  BY LocalDayNear
<1>2. Surrounded(LocalDay(t) + 0)
  BY <1>1, NearbyDays
<1> QED BY <1>1, <1>2

(* Court days tile the time line, whatever the instant: clocks that change  *)
(* lengthen or shorten a day and neither lose nor repeat a midnight.        *)
THEOREM EveryDayTiles == ASSUME NEW t \in Int, Around(t) PROVE DayTiles(t)
<1> DEFINE day == LocalDay(t)
           S(k) == StartOfZoneDay(day + k)
<1>1. day \in Int
  BY LocalDayNear
<1>2. /\ Surrounded(day) /\ Surrounded(day + 1) /\ Surrounded(day + 2)
  <2>1. day + 0 = day
    BY <1>1
  <2> QED BY <2>1, NearbyDays
<1> HIDE DEF day
<1>3. CourtDayBounds(t) = [start |-> StartOfZoneDay(day), end |-> StartOfZoneDay(day + 1)]
  BY DEF CourtDayBounds, CourtDayBoundsForDate, day
<1>4. StartOfZoneDay(day) <= t /\ t < StartOfZoneDay(day + 1)
  BY <1>1, <1>2, DayOf DEF day
<1>5. StartOfZoneDay(day + 1) - StartOfZoneDay(day) \in 23..25
  <2>1. /\ StartOfZoneDay(day) = 24 * day - ZoneOffset(24 * day)
        /\ ZoneOffset(24 * day) \in {-4, -5}
        /\ StartOfZoneDay(day + 1) = 24 * (day + 1) - ZoneOffset(24 * (day + 1))
        /\ ZoneOffset(24 * (day + 1)) \in {-4, -5}
    BY <1>1, <1>2, Midnight
  <2> QED BY <1>1, <2>1
<1>6. LocalHour(StartOfZoneDay(day)) = 0 /\ LocalDay(StartOfZoneDay(day)) = day
  BY <1>1, <1>2, MidnightIsLocal
<1>7. LocalDay(StartOfZoneDay(day + 1)) = day + 1
  BY <1>1, <1>2, MidnightIsLocal, (day + 1) + 1 = day + 2
<1>8. CourtDayBounds(StartOfZoneDay(day + 1)).start = StartOfZoneDay(day + 1)
  BY <1>7 DEF CourtDayBounds, CourtDayBoundsForDate
<1> QED BY <1>3, <1>4, <1>5, <1>6, <1>8 DEF DayTiles, day

-----------------------------------------------------------------------------
(* Periods.                                                                 *)

(* A day's date is the year and month that contain it.                      *)
LEMMA DateIs ==
  ASSUME NEW day \in Int, NEW y \in Years, NewYear(y) <= day, day < NewYear(y + 1),
         NEW m \in 1..12, Day(y, m, 1) <= day, m < 12 => day < Day(y, m + 1, 1)
  PROVE  DateOf(day) = [year |-> y, month |-> m, day |-> day - Day(y, m, 1) + 1]
<1>1. YearOf(day) = y /\ y \in Int
  BY YearIs, YearsAssumption
<1>2. MonthOf(day) = m
  BY <1>1, MonthIs
<1> QED BY <1>1, <1>2 DEF DateOf

(* A month has 28 to 31 days, in its year.                                  *)
LEMMA MonthLength ==
  ASSUME NEW y \in Int, NEW m \in 1..12
  PROVE  /\ Day(y, m, 1) \in Int /\ NewYear(y) \in Int /\ NewYear(y + 1) \in Int
         /\ NewYear(y) <= Day(y, m, 1) /\ Day(y, m, 1) + 28 <= NewYear(y + 1)
         /\ m < 12 => /\ Day(y, m + 1, 1) \in Int
                      /\ Day(y, m, 1) + 28 <= Day(y, m + 1, 1)
                      /\ Day(y, m + 1, 1) <= Day(y, m, 1) + 31
         /\ m = 12 => NewYear(y + 1) = Day(y, m, 1) + 31
<1>1. m \in {1, 2, 3, 4, 5, 6, 7, 8, 9, 10, 11, 12}
  OBVIOUS
<1>2. Day(y, m, 1) = NewYear(y) + DaysBefore(y, m)
  BY DayIs
<1>3. m < 12 => Day(y, m + 1, 1) = NewYear(y) + DaysBefore(y, m + 1)
  <2>1. m < 12 => m + 1 \in 1..12
    OBVIOUS
  <2> QED BY <2>1, DayIs
<1>4. /\ NewYear(y) \in Int /\ NewYear(y + 1) = NewYear(y) + (IF Leap(y) THEN 366 ELSE 365)
  BY YearLength
<1>5. /\ DaysBefore(y, m) \in 0..335
      /\ m < 12 => /\ DaysBefore(y, m + 1) \in Int
                   /\ DaysBefore(y, m) + 28 <= DaysBefore(y, m + 1)
                   /\ DaysBefore(y, m + 1) <= DaysBefore(y, m) + 31
      /\ m = 12 => DaysBefore(y, m) + 31 = (IF Leap(y) THEN 366 ELSE 365)
      /\ DaysBefore(y, m) + 28 <= (IF Leap(y) THEN 366 ELSE 365)
  BY <1>1, MonthTable
<1> QED BY <1>2, <1>3, <1>4, <1>5

(* The first of a month has the date that it is named by.                   *)
LEMMA FirstOfMonth ==
  ASSUME NEW y \in Years, NEW m \in 1..12
  PROVE  DateOf(Day(y, m, 1)) = [year |-> y, month |-> m, day |-> 1]
<1>1. y \in Int
  BY YearsAssumption
<1>2. /\ NewYear(y) <= Day(y, m, 1) /\ Day(y, m, 1) < NewYear(y + 1) /\ Day(y, m, 1) \in Int
      /\ m < 12 => Day(y, m, 1) < Day(y, m + 1, 1)
  <2>1. /\ Day(y, m, 1) \in Int /\ NewYear(y + 1) \in Int
        /\ NewYear(y) <= Day(y, m, 1) /\ Day(y, m, 1) + 28 <= NewYear(y + 1)
        /\ m < 12 => Day(y, m + 1, 1) \in Int /\ Day(y, m, 1) + 28 <= Day(y, m + 1, 1)
    BY <1>1, MonthLength
  <2> QED BY <2>1
<1>3. DateOf(Day(y, m, 1)) = [year |-> y, month |-> m, day |-> Day(y, m, 1) - Day(y, m, 1) + 1]
  BY <1>2, DateIs
<1> QED BY <1>2, <1>3

(* What the court's date of an instant says of its day.                     *)
LEMMA Parts ==
  ASSUME NEW t \in Int, Surrounded(LocalDay(t)), NEW day, day = LocalDay(t),
         NEW y, y = PartsInZone(t).year, NEW m, m = PartsInZone(t).month
  PROVE  /\ day \in Int /\ y \in Int /\ m \in 1..12
         /\ y \in Years /\ y - 1 \in Years
         /\ NewYear(y) <= day /\ day < NewYear(y + 1)
         /\ Day(y, m, 1) <= day /\ day <= Day(y, m, 1) + 30
         /\ m < 12 => day < Day(y, m + 1, 1)
         /\ PartsInZone(t) = [year |-> y, month |-> m, day |-> day - Day(y, m, 1) + 1]
<1>1. day \in Int
  BY LocalDayNear
<1>2. Surrounded(day) /\ Covered(day)
  BY DEF Surrounded, Covered
<1>3. y = YearOf(day) /\ m = MonthOf(day)
  BY DEF PartsInZone, DateOf
<1>4. y \in Years /\ y \in Int /\ NewYear(y) <= day /\ day < NewYear(y + 1)
  BY <1>1, <1>2, <1>3, YearFound
<1>5. m \in 1..12 /\ Day(y, m, 1) <= day /\ (m < 12 => day < Day(y, m + 1, 1))
  BY <1>1, <1>2, <1>3, MonthFound
<1>6. y - 1 \in Years
  <2>1. PICK z \in Years : /\ z - 1 \in Years
                           /\ NewYear(z) <= day /\ day < NewYear(z + 1)
    BY <1>2 DEF Surrounded
  <2>2. y = z
    BY <1>1, <1>3, <2>1, YearIs
  <2> QED BY <2>1, <2>2
<1>7. day <= Day(y, m, 1) + 30
  <2>1. /\ Day(y, m, 1) \in Int /\ NewYear(y + 1) \in Int
        /\ m < 12 => Day(y, m + 1, 1) \in Int /\ Day(y, m + 1, 1) <= Day(y, m, 1) + 31
        /\ m = 12 => NewYear(y + 1) = Day(y, m, 1) + 31
    BY <1>4, <1>5, MonthLength
  <2> QED BY <1>1, <1>4, <1>5, <2>1
<1>8. PartsInZone(t) = [year |-> y, month |-> m, day |-> day - Day(y, m, 1) + 1]
  BY <1>1, <1>4, <1>5, DateIs DEF PartsInZone
<1> QED BY <1>1, <1>4, <1>5, <1>6, <1>7, <1>8

(* The first day of each period of an instant.                              *)
LEMMA Openings ==
  ASSUME NEW t \in Int, Surrounded(LocalDay(t)), NEW day, day = LocalDay(t),
         NEW y, y = PartsInZone(t).year, NEW m, m = PartsInZone(t).month
  PROVE  /\ OpeningDay("day", t) = day
         /\ OpeningDay("week", t) = day - Weekday(day) /\ Weekday(day) \in 0..6
         /\ OpeningDay("month", t) = Day(y, m, 1)
         /\ \E q \in {1, 4, 7, 10} : /\ q <= m /\ m <= q + 2
                                     /\ OpeningDay("quarter", t) = Day(y, q, 1)
         /\ OpeningDay("fiscalYear", t) = Day(IF m >= 10 THEN y ELSE y - 1, 10, 1)
<1>1. day \in Int /\ y \in Int /\ m \in 1..12
  BY Parts
<1>2. /\ OpeningDay("day", t) = day
      /\ OpeningDay("week", t) = day - Weekday(day)
      /\ OpeningDay("month", t) = Day(y, m, 1)
      /\ OpeningDay("quarter", t) = Day(y, m - ((m - 1) % 3), 1)
      /\ OpeningDay("fiscalYear", t) = Day(IF m >= 10 THEN y ELSE y - 1, 10, 1)
  BY DEF OpeningDay
<1>3. Weekday(day) \in 0..6
  BY <1>1 DEF Weekday
<1>4. m - ((m - 1) % 3) \in {1, 4, 7, 10} /\ m - ((m - 1) % 3) <= m /\ m <= m - ((m - 1) % 3) + 2
  BY <1>1
<1> QED BY <1>2, <1>3, <1>4

(* Periods lie one in the other, and none is longer than a year.            *)
LEMMA OpeningsNested ==
  ASSUME NEW t \in Int, Surrounded(LocalDay(t))
  PROVE  /\ \A name \in PeriodNames : /\ OpeningDay(name, t) \in Int
                                      /\ LocalDay(t) - 400 <= OpeningDay(name, t)
                                      /\ OpeningDay(name, t) <= LocalDay(t)
         /\ OpeningDay("month", t) <= OpeningDay("day", t)
         /\ OpeningDay("week", t) <= OpeningDay("day", t)
         /\ OpeningDay("quarter", t) <= OpeningDay("month", t)
         /\ OpeningDay("fiscalYear", t) <= OpeningDay("quarter", t)
<1> DEFINE day == LocalDay(t)
           y == PartsInZone(t).year
           m == PartsInZone(t).month
           O(name) == OpeningDay(name, t)
<1>1. /\ day \in Int /\ y \in Int /\ m \in 1..12
      /\ NewYear(y) <= day /\ day < NewYear(y + 1)
      /\ Day(y, m, 1) <= day /\ day <= Day(y, m, 1) + 30
  BY Parts
<1>2. /\ O("day") = day /\ O("week") = day - Weekday(day) /\ Weekday(day) \in 0..6
      /\ O("month") = Day(y, m, 1)
      /\ \E q \in {1, 4, 7, 10} : q <= m /\ m <= q + 2 /\ O("quarter") = Day(y, q, 1)
      /\ O("fiscalYear") = Day(IF m >= 10 THEN y ELSE y - 1, 10, 1)
  BY Openings
<1> HIDE DEF day, y, m, O
<1>3. PICK q \in {1, 4, 7, 10} : q <= m /\ m <= q + 2 /\ O("quarter") = Day(y, q, 1)
  BY <1>2
<1>4. y - 1 \in Int /\ (y - 1) + 1 = y /\ q \in 1..12
  BY <1>1, <1>3
<1>5. /\ NewYear(y) \in Int /\ NewYear(y - 1) \in Int
      /\ NewYear(y) = NewYear(y - 1) + (IF Leap(y - 1) THEN 366 ELSE 365)
      /\ NewYear(y + 1) = NewYear(y) + (IF Leap(y) THEN 366 ELSE 365)
  BY <1>1, <1>4, YearLength
<1>6. /\ Day(y, m, 1) = NewYear(y) + DaysBefore(y, m)
      /\ Day(y, q, 1) = NewYear(y) + DaysBefore(y, q)
      /\ Day(y, 10, 1) = NewYear(y) + DaysBefore(y, 10)
      /\ Day(y - 1, 10, 1) = NewYear(y - 1) + DaysBefore(y - 1, 10)
  BY <1>1, <1>4, DayIs, 10 \in 1..12
<1>7. m \in {1, 2, 3, 4, 5, 6, 7, 8, 9, 10, 11, 12}
  BY <1>1
<1>8. /\ DaysBefore(y, q) \in Int /\ DaysBefore(y, m) \in Int
      /\ DaysBefore(y, q) <= DaysBefore(y, m) /\ 0 <= DaysBefore(y, q)
      /\ DaysBefore(y, m) <= DaysBefore(y, q) + 62
      /\ DaysBefore(y - 1, 10) \in {273, 274} /\ DaysBefore(y, 10) \in {273, 274}
      /\ m >= 10 => DaysBefore(y, q) = DaysBefore(y, 10)
      /\ m < 10 => DaysBefore(y, m) <= 244
  <2>1. DaysBefore(y - 1, 10) \in {273, 274} /\ DaysBefore(y, 10) \in {273, 274}
    BY <1>1, <1>4, MonthTable
  <2>2. \/ q = 1 /\ m \in {1, 2, 3}
        \/ q = 4 /\ m \in {4, 5, 6}
        \/ q = 7 /\ m \in {7, 8, 9}
        \/ q = 10 /\ m \in {10, 11, 12}
    <3>1. q = 1 \/ q = 4 \/ q = 7 \/ q = 10
      OBVIOUS
    <3> QED BY <1>1, <1>3, <3>1
  <2>3. CASE q = 1 /\ m \in {1, 2, 3}
    <3>1. /\ DaysBefore(y, 1) \in Int /\ DaysBefore(y, 2) \in Int /\ DaysBefore(y, 3) \in Int
          /\ DaysBefore(y, 1) <= DaysBefore(y, 2) /\ DaysBefore(y, 2) <= DaysBefore(y, 3)
          /\ DaysBefore(y, 3) <= DaysBefore(y, 1) + 62 /\ 0 <= DaysBefore(y, 1)
          /\ DaysBefore(y, 3) <= 244
      BY <1>1, MonthTable
    <3> QED BY <2>1, <2>3, <3>1
  <2>4. CASE q = 4 /\ m \in {4, 5, 6}
    <3>1. /\ DaysBefore(y, 4) \in Int /\ DaysBefore(y, 5) \in Int /\ DaysBefore(y, 6) \in Int
          /\ DaysBefore(y, 4) <= DaysBefore(y, 5) /\ DaysBefore(y, 5) <= DaysBefore(y, 6)
          /\ DaysBefore(y, 6) <= DaysBefore(y, 4) + 62 /\ 0 <= DaysBefore(y, 4)
          /\ DaysBefore(y, 6) <= 244
      BY <1>1, MonthTable
    <3> QED BY <2>1, <2>4, <3>1
  <2>5. CASE q = 7 /\ m \in {7, 8, 9}
    <3>1. /\ DaysBefore(y, 7) \in Int /\ DaysBefore(y, 8) \in Int /\ DaysBefore(y, 9) \in Int
          /\ DaysBefore(y, 7) <= DaysBefore(y, 8) /\ DaysBefore(y, 8) <= DaysBefore(y, 9)
          /\ DaysBefore(y, 9) <= DaysBefore(y, 7) + 62 /\ 0 <= DaysBefore(y, 7)
          /\ DaysBefore(y, 9) <= 244
      BY <1>1, MonthTable
    <3> QED BY <2>1, <2>5, <3>1
  <2>6. CASE q = 10 /\ m \in {10, 11, 12}
    <3>1. /\ DaysBefore(y, 10) \in Int /\ DaysBefore(y, 11) \in Int /\ DaysBefore(y, 12) \in Int
          /\ DaysBefore(y, 10) <= DaysBefore(y, 11) /\ DaysBefore(y, 11) <= DaysBefore(y, 12)
          /\ DaysBefore(y, 12) <= DaysBefore(y, 10) + 62 /\ 0 <= DaysBefore(y, 10)
      BY <1>1, MonthTable
    <3> QED BY <2>1, <2>6, <3>1
  <2> QED BY <2>2, <2>3, <2>4, <2>5, <2>6
<1>9. CASE m >= 10
  <2>1. O("fiscalYear") = Day(y, 10, 1)
    BY <1>2, <1>9
  <2> QED BY <1>1, <1>2, <1>3, <1>5, <1>6, <1>8, <1>9, <2>1 DEF PeriodNames, O, day
<1>10. CASE m < 10
  <2>1. O("fiscalYear") = Day(y - 1, 10, 1)
    BY <1>1, <1>2, <1>10
  <2> QED BY <1>1, <1>2, <1>3, <1>5, <1>6, <1>8, <1>10, <2>1 DEF PeriodNames, O, day
<1> QED BY <1>1, <1>9, <1>10

(* Each period opens at a court midnight, on the right date, not after the  *)
(* instant and not a period too early.                                      *)
THEOREM EveryPeriodOpens == ASSUME NEW t \in Int, Around(t) PROVE PeriodOpens(t)
<1> DEFINE day == LocalDay(t)
           y == PartsInZone(t).year
           m == PartsInZone(t).month
           O(name) == OpeningDay(name, t)
           S(name) == StartOfZoneDay(O(name))
<1>0. Surrounded(LocalDay(t))
  BY TodaySurrounded
<1>1. /\ day \in Int /\ y \in Int /\ m \in 1..12 /\ y \in Years /\ y - 1 \in Years
      /\ day <= Day(y, m, 1) + 30
  BY <1>0, Parts
<1>2. ASSUME NEW name \in PeriodNames
      PROVE  /\ CourtPeriodBounds(t)[name].start = S(name)
             /\ S(name) <= t /\ LocalHour(S(name)) = 0 /\ LocalDay(S(name)) = O(name)
  <2>1. O(name) \in Int /\ day - 400 <= O(name) /\ O(name) <= day
    BY <1>0, OpeningsNested
  <2>2. \A k \in -700 .. 300 : Surrounded(day + k)
    BY NearbyDays
  <2>3. Surrounded(O(name)) /\ Surrounded(O(name) + 1) /\ Surrounded(day) /\ Surrounded(day + 1)
    <3>1. /\ O(name) = day + (O(name) - day) /\ O(name) - day \in -700 .. 300
          /\ O(name) + 1 = day + (O(name) - day + 1) /\ O(name) - day + 1 \in -700 .. 300
          /\ day = day + 0 /\ 0 \in -700 .. 300 /\ 1 \in -700 .. 300
      BY <1>1, <2>1
    <3> HIDE DEF day, O
    <3> QED BY <2>2, <3>1
  <2>4. StartOfZoneDay(day) <= t
    BY <1>1, <2>3, DayOf
  <2>5. S(name) <= StartOfZoneDay(day)
    BY <1>1, <2>1, <2>3, MidnightsInOrder
  <2>6. S(name) \in Int /\ LocalHour(S(name)) = 0 /\ LocalDay(S(name)) = O(name)
    BY <2>1, <2>3, MidnightIsLocal
  <2>7. StartOfZoneDay(day) \in Int
    BY <1>1, <2>3, MidnightIsLocal
  <2>8. CourtPeriodBounds(t)[name].start = S(name)
    BY DEF CourtPeriodBounds
  <2> QED BY <2>4, <2>5, <2>6, <2>7, <2>8
<1>3. /\ O("day") = day /\ O("week") = day - Weekday(day) /\ Weekday(day) \in 0..6
      /\ O("month") = Day(y, m, 1)
      /\ \E q \in {1, 4, 7, 10} : q <= m /\ m <= q + 2 /\ O("quarter") = Day(y, q, 1)
      /\ O("fiscalYear") = Day(IF m >= 10 THEN y ELSE y - 1, 10, 1)
  BY <1>0, Openings
<1> DEFINE months(opens) == 12 * (PartsInZone(t).year - opens.year)
                            + PartsInZone(t).month - opens.month
<1>4. ASSUME NEW z \in Years, NEW n \in 1..12, NEW name \in PeriodNames, O(name) = Day(z, n, 1)
      PROVE  PartsInZone(S(name)) = [year |-> z, month |-> n, day |-> 1]
  BY <1>2, <1>4, FirstOfMonth DEF PartsInZone
<1>5. Weekday(O("week")) = 0
  BY <1>1, <1>3 DEF Weekday
<1>6. LET opens == PartsInZone(S("month")) IN opens.day = 1 /\ months(opens) = 0
  <2>1. PartsInZone(S("month")) = [year |-> y, month |-> m, day |-> 1]
    BY <1>1, <1>3, <1>4 DEF PeriodNames
  <2> QED BY <1>1, <2>1
<1>7. LET opens == PartsInZone(S("quarter")) IN
        opens.day = 1 /\ opens.month \in {1, 4, 7, 10} /\ months(opens) < 3
  <2>1. PICK q \in {1, 4, 7, 10} : q <= m /\ m <= q + 2 /\ O("quarter") = Day(y, q, 1)
    BY <1>3
  <2>2. PartsInZone(S("quarter")) = [year |-> y, month |-> q, day |-> 1]
    BY <1>1, <1>4, <2>1 DEF PeriodNames
  <2> QED BY <1>1, <2>1, <2>2
<1>8. LET opens == PartsInZone(S("fiscalYear")) IN
        opens.day = 1 /\ opens.month = 10 /\ months(opens) < 12
  <2>1. PartsInZone(S("fiscalYear")) =
          [year |-> IF m >= 10 THEN y ELSE y - 1, month |-> 10, day |-> 1]
    BY <1>1, <1>3, <1>4 DEF PeriodNames
  <2> QED BY <1>1, <2>1
<1>9. LocalDay(t) = LocalDay(S("day")) /\ LocalDay(t) - LocalDay(S("week")) < 7
  BY <1>1, <1>2, <1>3 DEF PeriodNames
<1>10. Weekday(LocalDay(S("week"))) = 0
  BY <1>2, <1>5 DEF PeriodNames
<1>11. SUFFICES ASSUME NEW name \in PeriodNames
       PROVE  LET start == CourtPeriodBounds(t)[name].start
                  opens == PartsInZone(start)
              IN /\ start <= t /\ LocalHour(start) = 0
                 /\ CASE name = "day"     -> LocalDay(start) = LocalDay(t)
                      [] name = "week"    -> /\ Weekday(LocalDay(start)) = 0
                                             /\ LocalDay(t) - LocalDay(start) < 7
                      [] name = "month"   -> opens.day = 1 /\ months(opens) = 0
                      [] name = "quarter" -> /\ opens.day = 1 /\ opens.month \in {1, 4, 7, 10}
                                             /\ months(opens) < 3
                      [] name = "fiscalYear" -> /\ opens.day = 1 /\ opens.month = 10
                                                /\ months(opens) < 12
  BY DEF PeriodOpens
<1>12. CourtPeriodBounds(t)[name].start = S(name) /\ S(name) <= t /\ LocalHour(S(name)) = 0
  BY <1>2
<1> HIDE DEF S, months, O
<1>13. CASE name = "day"
  BY <1>9, <1>12, <1>13
<1>14. CASE name = "week"
  BY <1>9, <1>10, <1>12, <1>14
<1>15. CASE name = "month"
  BY <1>6, <1>12, <1>15
<1>16. CASE name = "quarter"
  BY <1>7, <1>12, <1>16
<1>17. CASE name = "fiscalYear"
  BY <1>8, <1>12, <1>17
<1> QED BY <1>13, <1>14, <1>15, <1>16, <1>17 DEF PeriodNames

-----------------------------------------------------------------------------
(* The year before.                                                         *)

(* An hour of a court day is found on that day; one that spring skips is    *)
(* found after the change.                                                  *)
LEMMA HourFound ==
  ASSUME NEW day \in Int, Surrounded(day), NEW hour \in 0..23,
         NEW r, r = ZonedDateTimeToUtc(day, hour)
  PROVE  /\ r \in Int /\ LocalDay(r) = day
         /\ \/ LocalHour(r) = hour
            \/ LocalHour(r) = hour + 1 /\ LocalHour(r - 1) = hour - 1
<1> DEFINE Z(k) == ZoneOffset(24 * day + k)
           naive == 24 * day + hour
           f == naive - ZoneOffset(naive)
           g == naive - ZoneOffset(f)
           first == f - 24 * day
           resolved == g - 24 * day
<1>1. \/ \A k \in 0..29 : Z(k) = -5
      \/ \A k \in 0..29 : Z(k) = -4
      \/ \A k \in 0..29 : Z(k) = IF k < 7 THEN -5 ELSE -4
      \/ \A k \in 0..29 : Z(k) = IF k < 6 THEN -4 ELSE -5
  BY ZoneOfDay
<1>2. ZoneOffset(naive) \in {-4, -5} /\ ZoneOffset(f) \in {-4, -5}
  BY DEF ZoneOffset
<1>3. /\ f \in Int /\ g \in Int /\ first \in 4..28 /\ resolved \in 4..28
      /\ f = 24 * day + first /\ g = 24 * day + resolved
      /\ first = hour - ZoneOffset(naive) /\ resolved = hour - ZoneOffset(f)
  <2>1. naive \in Int /\ 24 * day \in Int /\ naive - 24 * day = hour
    OBVIOUS
  <2>2. f \in Int /\ first = hour - ZoneOffset(naive) /\ f = 24 * day + first
    <3> HIDE DEF naive
    <3> QED BY <1>2, <2>1
  <2> HIDE DEF f, naive, first
  <2>3. g \in Int /\ resolved = hour - ZoneOffset(f) /\ g = 24 * day + resolved
    BY <1>2, <2>1
  <2> HIDE DEF resolved, g
  <2> QED BY <1>2, <2>2, <2>3
<1>4. r = IF LocalHour(24 * day + resolved) = hour THEN 24 * day + resolved
          ELSE 24 * day + first
  <2>1. r = IF LocalHour(g) = hour THEN g ELSE f
    BY DEF ZonedDateTimeToUtc
  <2> HIDE DEF f, g, first, resolved
  <2> QED BY <1>3, <2>1
<1>5. ASSUME NEW k \in 0..29
      PROVE  /\ LocalHour(24 * day + k) = (k + Z(k)) % 24
             /\ k + Z(k) \in 0..23 => LocalDay(24 * day + k) = day
  <2>1. Z(k) \in {-4, -5} /\ 24 * day + k + ZoneOffset(24 * day + k) = 24 * day + (k + Z(k))
    BY DEF ZoneOffset
  <2>2. ASSUME NEW n \in Int PROVE (24 * day + n) % 24 = n % 24
    OBVIOUS
  <2>3. ASSUME NEW n \in 0..23 PROVE (24 * day + n) \div 24 = day
    OBVIOUS
  <2>4. k + Z(k) \in Int
    BY <2>1
  <2> HIDE DEF Z
  <2> QED BY <2>1, <2>2, <2>3, <2>4 DEF LocalHour, LocalDay
<1>6. ASSUME NEW k \in 0..29, k + Z(k) \in 0..23
      PROVE  LocalHour(24 * day + k) = k + Z(k) /\ LocalDay(24 * day + k) = day
  <2>1. \A n \in 0..23 : n % 24 = n
    OBVIOUS
  <2> HIDE DEF Z
  <2> QED BY <1>5, <1>6, <2>1
<1>8. first = hour - Z(hour) /\ resolved = hour - Z(first)
  <2>1. ZoneOffset(naive) = Z(hour)
    OBVIOUS
  <2> HIDE DEF naive
  <2>2. ZoneOffset(f) = ZoneOffset(24 * day + first)
    <3> HIDE DEF f, first
    <3> QED BY <1>3
  <2> HIDE DEF f, first, resolved
  <2> QED BY <1>3, <2>1, <2>2
<1> HIDE DEF Z, f, g, first, resolved
<1>9. CASE (\A k \in 0..29 : Z(k) = -5) \/ (\A k \in 0..29 : Z(k) = -4)
  <2>1. resolved = first /\ Z(resolved) = Z(hour) /\ resolved + Z(resolved) = hour
    BY <1>3, <1>8, <1>9
  <2> QED BY <1>3, <1>4, <1>6, <2>1
<1>10. CASE \A k \in 0..29 : Z(k) = IF k < 7 THEN -5 ELSE -4
  <2>1. CASE hour # 2
    <3>1. resolved + Z(resolved) = hour
      BY <1>3, <1>8, <1>10, <2>1
    <3> QED BY <1>3, <1>4, <1>6, <3>1
  <2>2. CASE hour = 2
    <3>1. first = 7 /\ resolved = 6
      BY <1>3, <1>8, <1>10, <2>2
    <3>2. Z(6) = -5 /\ Z(7) = -4
      BY <1>10
    <3>3. /\ LocalHour(24 * day + 6) = 1 /\ LocalHour(24 * day + 7) = 3
          /\ LocalDay(24 * day + 7) = day
      BY <1>6, <3>2
    <3>4. r = 24 * day + 7 /\ r - 1 = 24 * day + 6
      BY <1>4, <2>2, <3>1, <3>3
    <3> QED BY <2>2, <3>3, <3>4
  <2> QED BY <2>1, <2>2
<1>11. CASE \A k \in 0..29 : Z(k) = IF k < 6 THEN -4 ELSE -5
  <2>1. resolved + Z(resolved) = hour
    BY <1>3, <1>8, <1>11
  <2> QED BY <1>3, <1>4, <1>6, <2>1
<1> QED BY <1>1, <1>9, <1>10, <1>11

(* The same date of the year before, 29 February falling back a day, and    *)
(* the same hour, or the one after a skipped one.                           *)
LEMMA YearShifted ==
  ASSUME NEW t \in Int, Surrounded(LocalDay(t)),
         NEW y, y = PartsInZone(t).year, NEW m, m = PartsInZone(t).month,
         NEW d, d = PartsInZone(t).day,
         NEW e, e = Day(y - 1, m, IF m = 2 /\ d = 29 THEN 28 ELSE d),
         Surrounded(e),
         NEW s, s = ShiftCourtYear(t, -1)
  PROVE  /\ e \in Int /\ e <= LocalDay(t) - 364 /\ LocalDay(t) - 368 <= e
         /\ e < Day(y, m, 1) - 300
         /\ s \in Int /\ LocalDay(s) = e
         /\ PartsInZone(s) = [year |-> y - 1, month |-> m, day |-> IF m = 2 /\ d = 29 THEN 28 ELSE d]
         /\ \/ LocalHour(s) = LocalHour(t)
            \/ LocalHour(s) = LocalHour(t) + 1 /\ LocalHour(s - 1) = LocalHour(t) - 1
<1> DEFINE day == LocalDay(t)
           f == IF m = 2 /\ d = 29 THEN 28 ELSE d
<1>1. /\ day \in Int /\ y \in Int /\ m \in 1..12 /\ y \in Years /\ y - 1 \in Years
      /\ NewYear(y) <= day /\ day < NewYear(y + 1)
      /\ Day(y, m, 1) <= day
      /\ m < 12 => day < Day(y, m + 1, 1)
      /\ d = day - Day(y, m, 1) + 1
  BY Parts
<1> HIDE DEF day
<1>2. y - 1 \in Int /\ (y - 1) + 1 = y /\ y + 1 \in Int
  BY <1>1
<1>3. /\ NewYear(y - 1) \in Int /\ NewYear(y) \in Int /\ NewYear(y + 1) \in Int
      /\ NewYear(y) = NewYear(y - 1) + (IF Leap(y - 1) THEN 366 ELSE 365)
      /\ NewYear(y + 1) = NewYear(y) + (IF Leap(y) THEN 366 ELSE 365)
  BY <1>1, <1>2, YearLength
<1>4. Leap(y) => ~Leap(y - 1)
  BY <1>1 DEF Leap
<1>5. /\ Day(y, m, 1) = NewYear(y) + DaysBefore(y, m)
      /\ Day(y - 1, m, 1) = NewYear(y - 1) + DaysBefore(y - 1, m)
      /\ m < 12 => /\ Day(y, m + 1, 1) = NewYear(y) + DaysBefore(y, m + 1)
                   /\ Day(y - 1, m + 1, 1) = NewYear(y - 1) + DaysBefore(y - 1, m + 1)
  <2>1. m < 12 => m + 1 \in 1..12
    BY <1>1
  <2> QED BY <1>1, <1>2, <2>1, DayIs
<1>6. m \in {1, 2, 3, 4, 5, 6, 7, 8, 9, 10, 11, 12}
  BY <1>1
<1>7. /\ DaysBefore(y, m) \in Int /\ DaysBefore(y - 1, m) \in Int
      /\ m < 12 => DaysBefore(y, m + 1) \in Int /\ DaysBefore(y - 1, m + 1) \in Int
      /\ m <= 2 => DaysBefore(y, m) = DaysBefore(y - 1, m)
      /\ m > 2 => DaysBefore(y, m) - DaysBefore(y - 1, m) =
                    (IF Leap(y) THEN 1 ELSE 0) - (IF Leap(y - 1) THEN 1 ELSE 0)
      /\ m < 12 /\ m # 2 => DaysBefore(y, m + 1) - DaysBefore(y, m)
                            = DaysBefore(y - 1, m + 1) - DaysBefore(y - 1, m)
      /\ m = 2 => /\ DaysBefore(y, 3) = DaysBefore(y, 2) + 28 + (IF Leap(y) THEN 1 ELSE 0)
                  /\ DaysBefore(y - 1, 3) = DaysBefore(y - 1, 2) + 28 + (IF Leap(y - 1) THEN 1 ELSE 0)
      /\ m = 12 => /\ DaysBefore(y, m) = 334 + (IF Leap(y) THEN 1 ELSE 0)
                   /\ DaysBefore(y - 1, m) = 334 + (IF Leap(y - 1) THEN 1 ELSE 0)
      /\ DaysBefore(y, m) >= 0
      /\ DaysBefore(y - 1, m) >= 0 /\ DaysBefore(y - 1, m) <= 335
      /\ m < 12 => DaysBefore(y - 1, m + 1) <= 335
  BY <1>1, <1>2, <1>6, MonthTable
<1>8. d \in Int /\ f \in Int /\ 1 <= f /\ f <= d /\ d <= f + 1
  <2>1. Day(y, m, 1) \in Int
    BY <1>1, MonthLength
  <2>2. d \in Int /\ 1 <= d
    BY <1>1, <2>1
  <2> QED BY <2>2
<1>9. e = Day(y - 1, m, 1) + f - 1
  BY <1>2, <1>3, <1>5, <1>7, <1>8 DEF Day
<1>10. /\ e \in Int /\ Day(y - 1, m, 1) <= e
       /\ m < 12 => e < Day(y - 1, m + 1, 1)
       /\ NewYear(y - 1) <= e /\ e < NewYear((y - 1) + 1)
  <2>1. CASE m = 2
    BY <1>1, <1>2, <1>3, <1>4, <1>5, <1>7, <1>8, <1>9, <2>1
  <2>2. CASE m = 12
    BY <1>1, <1>2, <1>3, <1>4, <1>5, <1>7, <1>8, <1>9, <2>2
  <2>3. CASE m # 2 /\ m < 12
    BY <1>1, <1>2, <1>3, <1>4, <1>5, <1>7, <1>8, <1>9, <2>3
  <2> QED BY <1>1, <2>1, <2>2, <2>3
<1>11. e <= day - 364 /\ day - 368 <= e /\ e < Day(y, m, 1) - 300
  <2> DEFINE b == DaysBefore(y, m)
             c == DaysBefore(y - 1, m)
  <2>1. /\ day = NewYear(y) + b + d - 1 /\ e = NewYear(y - 1) + c + f - 1
        /\ b \in Int /\ c \in Int /\ c <= 335 /\ b >= 0
    BY <1>1, <1>2, <1>3, <1>5, <1>7, <1>8, <1>9
  <2>2. b - c \in {-1, 0, 1} /\ (m <= 2 => b = c)
        /\ NewYear(y) + b \in NewYear(y - 1) + c + 365 .. NewYear(y - 1) + c + 366
    BY <1>1, <1>3, <1>4, <1>7
  <2>3. f <= 31
    <3>1. CASE m = 12
      BY <1>1, <1>3, <1>5, <1>7, <1>8, <3>1
    <3>2. CASE m < 12
      <4>1. DaysBefore(y, m + 1) <= b + 31
        <5>1. Day(y, m + 1, 1) <= Day(y, m, 1) + 31
          BY <1>1, <3>2, MonthLength
        <5> QED BY <1>3, <1>5, <1>7, <3>2, <5>1
      <4> QED BY <1>1, <1>3, <1>5, <1>7, <1>8, <3>2, <4>1
    <3> QED BY <1>1, <3>1, <3>2
  <2> HIDE DEF b, c, f
  <2>4. e < Day(y, m, 1) - 300
    <3>1. Day(y, m, 1) = NewYear(y) + b
      BY <1>5 DEF b
    <3> QED BY <1>3, <1>8, <2>1, <2>2, <2>3, <3>1
  <2> QED BY <1>3, <1>8, <2>1, <2>2, <2>4
<1>12. DateOf(e) = [year |-> y - 1, month |-> m, day |-> f]
  <2>1. e - Day(y - 1, m, 1) + 1 = f
    BY <1>2, <1>3, <1>5, <1>7, <1>8, <1>9
  <2> QED BY <1>1, <1>10, <2>1, DateIs
<1>13. s = ZonedDateTimeToUtc(e, LocalHour(t))
  <2>1. d = 29 /\ m = 2 => ~Leap(y - 1)
    BY <1>1, <1>3, <1>4, <1>5, <1>7
  <2>2. s = ZonedDateTimeToUtc(Day(y + (-1), m, IF m = 2 /\ d = 29 /\ ~Leap(y + (-1)) THEN 28
                                             ELSE d), LocalHour(t))
    BY DEF ShiftCourtYear
  <2>3. y + (-1) = y - 1
    BY <1>1
  <2> QED BY <2>1, <2>2, <2>3
<1>14. LocalHour(t) \in 0..23
  <2>1. t + ZoneOffset(t) \in Int
    BY DEF ZoneOffset
  <2> QED BY <2>1 DEF LocalHour
<1>15. /\ s \in Int /\ LocalDay(s) = e
       /\ \/ LocalHour(s) = LocalHour(t)
          \/ LocalHour(s) = LocalHour(t) + 1 /\ LocalHour(s - 1) = LocalHour(t) - 1
  BY <1>10, <1>13, <1>14, HourFound
<1> QED BY <1>10, <1>11, <1>12, <1>15 DEF PartsInZone, day

(* Every instant is compared with the year before like for like.            *)
THEOREM EveryYearCompares == ASSUME NEW t \in Int, Around(t) PROVE LikeForLike(t)
<1> DEFINE day == LocalDay(t)
           y == PartsInZone(t).year
           m == PartsInZone(t).month
           d == PartsInZone(t).day
           hour == LocalHour(t)
           back == IF m = 2 /\ d = 29 THEN 28 ELSE d
           e == Day(y - 1, m, back)
           s == ShiftCourtYear(t, -1)
           sunday == e - Weekday(e)
           w == sunday + Weekday(day)
           u == ZonedDateTimeToUtc(w, hour)
           after(r) == \/ LocalHour(r) = hour
                       \/ LocalHour(r) = hour + 1 /\ LocalHour(r - 1) = hour - 1
<1>1. Surrounded(day)
  BY TodaySurrounded
<1>2. /\ day \in Int /\ y \in Int /\ m \in 1..12 /\ y \in Years /\ y - 1 \in Years
      /\ Day(y, m, 1) <= day /\ day <= Day(y, m, 1) + 30
      /\ d = day - Day(y, m, 1) + 1
  BY <1>1, Parts
<1>a. /\ day = LocalDay(t) /\ y = PartsInZone(t).year /\ m = PartsInZone(t).month
      /\ d = PartsInZone(t).day /\ hour = LocalHour(t) /\ s = ShiftCourtYear(t, -1)
      /\ e = Day(y - 1, m, IF m = 2 /\ d = 29 THEN 28 ELSE d)
      /\ back = IF m = 2 /\ d = 29 THEN 28 ELSE d
  OBVIOUS
<1> HIDE DEF day, y, m, d, hour, s
<1>3. ASSUME NEW x \in Int, day - 700 <= x, x <= day + 300
      PROVE  Surrounded(x)
  <2>0. day \in Int /\ day = LocalDay(t)
    BY <1>2, <1>a
  <2>1. x = LocalDay(t) + (x - day) /\ x - day \in -700 .. 300
    BY <1>3, <2>0
  <2> QED BY <2>1, NearbyDays
<1>4. e \in Int /\ day - 500 <= e /\ e <= day - 200
  <2>1. /\ Day(y, m, 1) \in Int /\ Day(y, m, 1) = NewYear(y) + DaysBefore(y, m)
        /\ Day(y - 1, m, 1) = NewYear(y - 1) + DaysBefore(y - 1, m)
    BY <1>2, y - 1 \in Int, DayIs
  <2>2. e = NewYear(y - 1) + DaysBefore(y - 1, m) + back - 1
    BY DEF Day
  <2>3. /\ NewYear(y - 1) \in Int /\ NewYear(y) = NewYear(y - 1) + (IF Leap(y - 1) THEN 366 ELSE 365)
    <3>1. y - 1 \in Int /\ (y - 1) + 1 = y
      BY <1>2
    <3> QED BY <3>1, YearLength
  <2>4. DaysBefore(y, m) \in 0..335 /\ DaysBefore(y - 1, m) \in 0..335
        /\ DaysBefore(y, m) <= DaysBefore(y - 1, m) + 1
        /\ DaysBefore(y - 1, m) <= DaysBefore(y, m) + 1
    BY <1>2, MonthTable, y - 1 \in Int, m \in {1, 2, 3, 4, 5, 6, 7, 8, 9, 10, 11, 12}
  <2>5. back \in Int /\ d \in Int /\ 1 <= d /\ d <= 31 /\ d - 1 <= back /\ back <= d
    <3>1. d \in Int /\ 1 <= d /\ d <= 31
      BY <1>2, <2>1
    <3> HIDE DEF d
    <3> QED BY <3>1
  <2> HIDE DEF back, e
  <2>6. day = NewYear(y) + DaysBefore(y, m) + d - 1
    BY <1>2, <2>1, <2>5
  <2>7. day \in Int /\ 1 <= d /\ d <= 31 /\ d \in Int
    BY <1>2, <2>5
  <2>8. DaysBefore(y, m) \in Int /\ DaysBefore(y - 1, m) \in Int
        /\ DaysBefore(y, m) <= DaysBefore(y - 1, m) + 1
        /\ DaysBefore(y - 1, m) <= DaysBefore(y, m) + 1
    BY <2>4
  <2>9. NewYear(y - 1) \in Int /\ NewYear(y) \in Int
        /\ NewYear(y - 1) + 365 <= NewYear(y) /\ NewYear(y) <= NewYear(y - 1) + 366
    BY <2>3
  <2> QED BY <2>2, <2>5, <2>6, <2>7, <2>8, <2>9
<1>5. /\ e \in Int /\ e <= day - 364 /\ day - 368 <= e
      /\ e < Day(y, m, 1) - 300
      /\ s \in Int /\ LocalDay(s) = e
      /\ PartsInZone(s) = [year |-> y - 1, month |-> m, day |-> back]
      /\ after(s)
  <2>1. Surrounded(LocalDay(t)) /\ Surrounded(e)
    <3> HIDE DEF e
    <3> QED BY <1>1, <1>2, <1>3, <1>4, <1>a
  <2> HIDE DEF e, back
  <2> QED BY <1>a, <2>1, YearShifted
<1> HIDE DEF back, e
<1>6. back = d \/ (m = 2 /\ d = 29 /\ back = 28)
  BY DEF back
<1>7. /\ Surrounded(e) /\ Surrounded(LocalDay(s)) /\ Weekday(e) \in 0..6 /\ Weekday(day) \in 0..6
  BY <1>2, <1>3, <1>5 DEF Weekday
<1>8. /\ OpeningDay("day", s) = e /\ OpeningDay("week", s) = sunday
      /\ OpeningDay("month", s) = Day(y - 1, m, 1)
  <2>1. e = LocalDay(s) /\ y - 1 = PartsInZone(s).year /\ m = PartsInZone(s).month
    BY <1>5
  <2> QED BY <1>5, <1>7, <2>1, Openings
<1>9. /\ OpeningDay("day", t) = day /\ OpeningDay("week", t) = day - Weekday(day)
      /\ OpeningDay("month", t) = Day(y, m, 1)
  BY <1>1, Openings DEF day, y, m
<1>10. /\ Day(y, m, 1) \in Int /\ Day(y - 1, m, 1) \in Int
       /\ Day(y - 1, m, 1) = e - back + 1 /\ Day(y, m, 1) = day - d + 1
       /\ d \in 1..31 /\ back \in 1..31
  <2>1. Day(y, m, 1) \in Int /\ Day(y - 1, m, 1) \in Int
    BY <1>2, y - 1 \in Int, DayIs
  <2>2. back = e - Day(y - 1, m, 1) + 1
    <3>1. PartsInZone(s) = [year |-> y - 1, month |-> m, day |-> e - Day(y - 1, m, 1) + 1]
      <4>1. e = LocalDay(s) /\ y - 1 = PartsInZone(s).year /\ m = PartsInZone(s).month
        BY <1>5
      <4> QED BY <1>5, <1>7, <4>1, Parts
    <3> QED BY <1>5, <3>1
  <2>3. d \in 1..31
    BY <1>2, <2>1
  <2> QED BY <1>2, <1>5, <1>6, <2>1, <2>2, <2>3
<1>11. hour \in 0..23
  <2>1. t + ZoneOffset(t) \in Int
    BY DEF ZoneOffset
  <2> QED BY <2>1 DEF LocalHour, hour
<1>12. w \in Int /\ sunday \in Int /\ sunday <= w /\ w <= sunday + 6 /\ w < day - Weekday(day)
       /\ sunday <= e /\ e <= sunday + 6
  BY <1>2, <1>5, <1>7
<1>13. Surrounded(w) /\ Surrounded(sunday)
  BY <1>2, <1>3, <1>5, <1>7, <1>12
<1>14. u \in Int /\ LocalDay(u) = w /\ after(u)
  BY <1>11, <1>12, <1>13, HourFound
<1> HIDE DEF sunday, w, u
<1> DEFINE current  == CourtPeriodBounds(t)
           previous == PreviousCourtPeriodBounds(t)
<1>15. /\ current["day"] = [start |-> StartOfZoneDay(day), end |-> t]
       /\ current["week"] = [start |-> StartOfZoneDay(day - Weekday(day)), end |-> t]
       /\ current["month"] = [start |-> StartOfZoneDay(Day(y, m, 1)), end |-> t]
  BY <1>9 DEF CourtPeriodBounds, PeriodNames
<1>16. /\ previous["day"] = [start |-> StartOfZoneDay(e), end |-> s]
       /\ previous["week"] = [start |-> StartOfZoneDay(sunday), end |-> u]
       /\ previous["month"] = [start |-> StartOfZoneDay(Day(y - 1, m, 1)), end |-> s]
  <2>1. previous = [CourtPeriodBounds(s) EXCEPT !["week"].end = u]
    BY <1>8 DEF PreviousCourtPeriodBounds, s, w, u, day, hour
  <2>2. CourtPeriodBounds(s) =
          [name \in PeriodNames |-> [start |-> StartOfZoneDay(OpeningDay(name, s)), end |-> s]]
    BY DEF CourtPeriodBounds
  <2>3. "day" \in PeriodNames /\ "week" \in PeriodNames /\ "month" \in PeriodNames
    BY DEF PeriodNames
  <2> HIDE DEF previous
  <2> QED BY <1>8, <2>1, <2>2, <2>3
<1> HIDE DEF current, previous
(* An instant of a day lies before the midnight of a later one, and not     *)
(* before that of an earlier one.                                           *)
<1>17. ASSUME NEW r \in Int, NEW a \in Int, NEW b \in Int,
              day - 600 <= a, a <= LocalDay(r), LocalDay(r) < b, b <= day + 200
       PROVE  /\ StartOfZoneDay(a) <= r /\ r < StartOfZoneDay(b)
              /\ LocalDay(StartOfZoneDay(a)) = a /\ LocalDay(StartOfZoneDay(b)) = b
  <2>1. LocalDay(r) \in Int
    BY LocalDayNear
  <2>2. /\ Surrounded(a) /\ Surrounded(b) /\ Surrounded(LocalDay(r)) /\ Surrounded(LocalDay(r) + 1)
        /\ Surrounded(a + 1) /\ Surrounded(b + 1)
    BY <1>2, <1>3, <1>17, <2>1
  <2>3. StartOfZoneDay(LocalDay(r)) <= r /\ r < StartOfZoneDay(LocalDay(r) + 1)
    BY <2>1, <2>2, DayOf
  <2>4. StartOfZoneDay(a) <= StartOfZoneDay(LocalDay(r))
    BY <1>17, <2>1, <2>2, MidnightsInOrder
  <2>5. StartOfZoneDay(LocalDay(r) + 1) <= StartOfZoneDay(b)
    BY <1>17, <2>1, <2>2, MidnightsInOrder
  <2>6. /\ StartOfZoneDay(a) \in Int /\ StartOfZoneDay(b) \in Int
        /\ LocalDay(StartOfZoneDay(a)) = a /\ LocalDay(StartOfZoneDay(b)) = b
    BY <2>2, MidnightIsLocal
  <2>7. StartOfZoneDay(LocalDay(r)) \in Int /\ StartOfZoneDay(LocalDay(r) + 1) \in Int
    BY <2>1, <2>2, Midnight
  <2> QED BY <2>3, <2>4, <2>5, <2>6, <2>7
<1> DEFINE days(p) == LocalDay(p.end) - LocalDay(p.start)
           leapDay == m = 2 /\ d = 29
           fine(name) == LET before == previous[name] IN
             /\ before.start <= before.end /\ before.end < current[name].start
             /\ days(before) = days(current[name]) - (IF leapDay /\ name = "month" THEN 1 ELSE 0)
             /\ after(before.end)
<1>18. fine("day")
  <2>1. /\ StartOfZoneDay(e) <= s /\ s < StartOfZoneDay(day)
        /\ LocalDay(StartOfZoneDay(e)) = e /\ LocalDay(StartOfZoneDay(day)) = day
    <3>1. /\ day - 600 <= e /\ e <= LocalDay(s) /\ LocalDay(s) < day /\ day <= day + 200
          /\ s \in Int /\ e \in Int /\ day \in Int
      BY <1>2, <1>5
    <3> QED BY <1>17, <3>1
  <2> QED BY <1>2, <1>5, <1>15, <1>16, <1>a, <2>1
<1>19. fine("week")
  <2>1. /\ StartOfZoneDay(sunday) <= u /\ u < StartOfZoneDay(day - Weekday(day))
        /\ LocalDay(StartOfZoneDay(sunday)) = sunday
        /\ LocalDay(StartOfZoneDay(day - Weekday(day))) = day - Weekday(day)
    BY <1>2, <1>5, <1>7, <1>12, <1>14, <1>17
  <2>2. w = sunday + Weekday(day)
    BY DEF w
  <2> QED BY <1>2, <1>7, <1>12, <1>14, <1>15, <1>16, <1>a, <2>1, <2>2
<1>20. fine("month")
  <2>1. /\ StartOfZoneDay(Day(y - 1, m, 1)) <= s /\ s < StartOfZoneDay(Day(y, m, 1))
        /\ LocalDay(StartOfZoneDay(Day(y - 1, m, 1))) = Day(y - 1, m, 1)
        /\ LocalDay(StartOfZoneDay(Day(y, m, 1))) = Day(y, m, 1)
    <3> DEFINE a == Day(y - 1, m, 1)
               b == Day(y, m, 1)
    <3>1. /\ day - 600 <= a /\ a <= LocalDay(s) /\ LocalDay(s) < b /\ b <= day + 200
          /\ s \in Int /\ a \in Int /\ b \in Int
      <4>1. /\ a \in Int /\ b \in Int /\ a = e - back + 1 /\ b = day - d + 1
            /\ d \in 1..31 /\ back \in 1..31
        BY <1>10
      <4>2. e < b - 300
        BY <1>5
      <4> HIDE DEF a, b
      <4> QED BY <1>2, <1>5, <4>1, <4>2
    <3>2. /\ StartOfZoneDay(a) <= s /\ s < StartOfZoneDay(b)
          /\ LocalDay(StartOfZoneDay(a)) = a /\ LocalDay(StartOfZoneDay(b)) = b
      <4> HIDE DEF a, b
      <4> QED BY <1>17, <3>1
    <3> QED BY <3>2
  <2> DEFINE a == Day(y - 1, m, 1)
             b == Day(y, m, 1)
  <2>2. /\ a \in Int /\ b \in Int /\ a = e - back + 1 /\ b = day - d + 1
        /\ d \in 1..31 /\ back \in 1..31
    BY <1>10
  <2>3. /\ previous["month"] = [start |-> StartOfZoneDay(a), end |-> s]
        /\ current["month"] = [start |-> StartOfZoneDay(b), end |-> t]
        /\ StartOfZoneDay(a) <= s /\ s < StartOfZoneDay(b)
        /\ LocalDay(StartOfZoneDay(a)) = a /\ LocalDay(StartOfZoneDay(b)) = b
    BY <1>15, <1>16, <2>1
  <2> HIDE DEF a, b
  <2> QED BY <1>2, <1>5, <1>6, <1>a, <2>2, <2>3
<1> HIDE DEF after, days
<1>21. \A name \in {"day", "week", "month"} : fine(name)
  BY <1>18, <1>19, <1>20
<1> QED
  BY <1>21 DEF LikeForLike, after, days, current, previous, m, d, hour
===============================================================================
