----------------------------- MODULE MCMarketFeed ------------------------------
EXTENDS MarketFeed, FiniteSets, USHolidays

\* A quote, one with a negative bid and a price of its own (5), and a trade more than half
\* above the first.
MCQuotes == {[bid |-> 10, ask |-> 10], [bid |-> -1, ask |-> 11]}

MCTrades == {[price |-> 16, size |-> 1]}

--------------------------------------------------------------------------------
(* The calendar of the process, on the tables of the code, against a definition by *)
(* enumeration. TLC evaluates it before it starts.                                 *)

Calendar == INSTANCE MarketCalendar WITH holidays <- usHolidays, earlyCloses <- usEarlyCloses

LastDay == Date(2027, 12, 31)

\* The half hours of all days: every session begins and ends on one.
HalfHours == {Calendar!At(d, 30 * n) : d \in 0..LastDay, n \in 0..47}

\* The half hours at which the market goes from closed to open, and from open to closed.
Openings ==
  {t \in HalfHours : /\ Calendar!IsMarketOpen(t)
                     /\ ~Calendar!IsMarketOpen([t EXCEPT !.minute = @ - 1])}

Closings ==
  {t \in HalfHours : /\ ~Calendar!IsMarketOpen(t)
                     /\ t.minute > 0 /\ Calendar!IsMarketOpen([t EXCEPT !.minute = @ - 1])}

IsNext(u, t, S) ==
  u \in S /\ Calendar!Before(t, u) /\ \A v \in S : Calendar!Before(t, v) => ~Calendar!Before(v, u)

\* Minutes around the ends of the sessions, on the days with ten more days in the tables.
Samples ==
  {Calendar!At(d, m) : d \in 0..(LastDay - 10), m \in {0, 569, 570, 779, 780, 959, 960}}

\* "NextOpen returns the next market open time", "NextClose returns the next market close
\* time", "MinutesUntilClose returns minutes until market close".
ASSUME NextSessions ==
  \A t \in Samples :
    /\ IsNext(Calendar!NextOpen(t), t, Openings)
    /\ IsNext(Calendar!NextClose(t), t, Closings)
    /\ Calendar!IsMarketOpen(t) =>
         Calendar!NextClose(t) = Calendar!At(t.day, t.minute + Calendar!MinutesUntilClose(t))

\* What MarketDataProofs asks of the tables, so that the ten days the searches look ahead are
\* enough: no two holidays in a row.
ASSUME HolidaysApart == \A n \in usHolidays : n + 1 \notin usHolidays

\* "true if the given date is the 3rd Friday of the month".
ASSUME ThirdFridays ==
  \A year \in 2025..2027, month \in 1..12 :
    LET fridays == {d \in Date(year, month, 1)..(Date(year, month, 1) + 27) : Weekday(d) = 5}
    IN \A d \in fridays :
         Calendar!IsMonthlyOpex(d) <=> Cardinality({f \in fridays : f <= d}) = 3
================================================================================
