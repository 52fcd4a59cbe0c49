------------------------------ MODULE USHolidays -------------------------------
(***************************************************************************)
(* The dates of the market calendar's tables, as days numbered from        *)
(* 1 January 2025, a Wednesday, to the end of 2027. No leap year is among  *)
(* them.                                                                   *)
(***************************************************************************)
EXTENDS Naturals, FiniteSetsExt

\* The days of the year before the first of each month.
Elapsed == <<0, 31, 59, 90, 120, 151, 181, 212, 243, 273, 304, 334>>

Date(year, month, day) == 365 * (year - 2025) + Elapsed[month] + day - 1

DayOfMonth(d) ==
  LET inYear == d % 365
  IN inYear + 1 - Max({Elapsed[month] : month \in {m \in 1..12 : Elapsed[m] <= inYear}})

\* From Sunday, which is 0.
Weekday(d) == (d + 3) % 7

IsWeekend(d) == Weekday(d) \in {0, 6}

usHolidays ==
  {Date(2025, 1, 1), Date(2025, 1, 20), Date(2025, 2, 17), Date(2025, 4, 18),
   Date(2025, 5, 26), Date(2025, 6, 19), Date(2025, 7, 4), Date(2025, 9, 1),
   Date(2025, 11, 27), Date(2025, 12, 25),
   Date(2026, 1, 1), Date(2026, 1, 19), Date(2026, 2, 16), Date(2026, 4, 3),
   Date(2026, 5, 25), Date(2026, 6, 19), Date(2026, 7, 3), Date(2026, 9, 7),
   Date(2026, 11, 26), Date(2026, 12, 25),
   Date(2027, 1, 1), Date(2027, 1, 18), Date(2027, 2, 15), Date(2027, 3, 26),
   Date(2027, 5, 31), Date(2027, 6, 18), Date(2027, 7, 5), Date(2027, 9, 6),
   Date(2027, 11, 25), Date(2027, 12, 24)}

usEarlyCloses ==
  {Date(2025, 7, 3), Date(2025, 11, 28), Date(2025, 12, 24),
   Date(2026, 7, 2), Date(2026, 11, 27), Date(2026, 12, 24),
   Date(2027, 7, 2), Date(2027, 11, 26), Date(2027, 12, 23)}
================================================================================
