------------------------------ MODULE MCReports ------------------------------
(* Instances of TransactionLog: the clock may begin at any hour around a     *)
(* change of daylight saving, a leap day or the end of a period, and payment *)
(* rows are written at a few instants on both sides of a court midnight.     *)
EXTENDS TransactionLog

MCYears == 2023..2032

Noon(y, m, d) == 24 * Day(y, m, d) + 17

MCInstants == {Noon(2030, 9, 30), Noon(2030, 10, 1), Noon(2030, 10, 1) + 1}

(* Three full days of hours from each of these days on.                     *)
Corners == {Day(y, m, d) : y \in {2027, 2028, 2029}, m \in {1, 4, 7, 10}, d \in {1}}
           \cup {FirstSunday(y, 3) + 7 : y \in 2026..2029}
           \cup {FirstSunday(y, 11) : y \in 2026..2029}
           \cup {Day(2028, 2, 29), Day(2029, 3, 1), Day(2029, 2, 28)}
MCStarts == {24 * (d - 1) + k : d \in Corners, k \in 0..71}
            \cup {24 * d + 3 * (d % 8) + 2 : d \in Day(2027, 1, 1) .. Day(2029, 12, 31)}

MCConfigured == <<"petition">>
MCFees == {"petition", "retired"}
MCCarries == [a \in {1, 2} |-> IF a = 1 THEN {"petition"} ELSE MCFees]
MCAmount == [f \in MCFees |-> IF f = "petition" THEN 60 ELSE 5]

Log(days, size, all, only, totals, breakdown, sort, order) ==
  [kind |-> "log", days |-> days, size |-> size, export |-> all, only |-> only,
   totals |-> totals, breakdown |-> breakdown, sort |-> sort, order |-> order]
September30 == Day(2030, 9, 30)
Quarter == <<September30, September30 + 1>>
MCQueries ==
  {Log(Quarter, 2, FALSE, "success", TRUE, TRUE, "feeName", "asc"),
   Log(<<>>, 1, TRUE, "any", FALSE, FALSE, "lastUpdatedAt", "desc"),
   Log(<<Quarter[2], Quarter[1]>>, 1, TRUE, "any", FALSE, FALSE, "lastUpdatedAt", "asc"),
   [Log(<<>>, 1, FALSE, "any", FALSE, FALSE, "feeName", "asc") EXCEPT !.kind = "summary"]}
=============================================================================
