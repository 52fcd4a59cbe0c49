---------------------------- MODULE MarketCalendar -----------------------------
(***************************************************************************)
(* When the market is open, as three services compute it: the market data  *)
(* service by a calendar with tables of holidays and early closes, the     *)
(* gateway and the risk manager of the OMS by the weekday and the hour     *)
(* alone.                                                                  *)
(*                                                                         *)
(* A time is a day, numbered as in USHolidays, and a minute of that day on *)
(* the clock of New York.                                                  *)
(***************************************************************************)
EXTENDS Naturals, FiniteSetsExt, USHolidays

CONSTANTS
  holidays,    \* c.holidays: days without trading
  earlyCloses  \* c.earlyCloses: days that close at one o'clock

Times == [day : Nat, minute : 0..1439]

At(d, m) == [day |-> d, minute |-> m]

Before(t, u) == t.day < u.day \/ (t.day = u.day /\ t.minute < u.minute)

Clock(hour, minute) == 60 * hour + minute

--------------------------------------------------------------------------------
(* The calendar of the market data service *)

Opening == Clock(9, 30)

IsTradingDay(d) == ~IsWeekend(d) /\ d \notin holidays

Closing(d) == IF d \in earlyCloses THEN Clock(13, 0) ELSE Clock(16, 0)

IsMarketOpen(t) == IsTradingDay(t.day) /\ t.minute >= Opening /\ t.minute < Closing(t.day)

IsPreMarket(t) == IsTradingDay(t.day) /\ t.minute >= Clock(4, 0) /\ t.minute < Opening

IsAfterHours(t) ==
  IsTradingDay(t.day) /\ t.minute >= Closing(t.day) /\ t.minute < Clock(20, 0)

\* The trading days among the ten that follow d.
Ahead(d) == {n \in (d + 1)..(d + 10) : IsTradingDay(n)}

\* After ten days the search gives up, at the eleventh.
NextOpen(t) ==
  IF IsTradingDay(t.day) /\ t.minute < Opening
  THEN At(t.day, Opening)
  ELSE At(IF Ahead(t.day) = {} THEN t.day + 11 ELSE Min(Ahead(t.day)), Opening)

\* This one answers with the close of the same day then.
NextClose(t) ==
  IF (IsTradingDay(t.day) /\ t.minute < Closing(t.day)) \/ Ahead(t.day) = {}
  THEN At(t.day, Closing(t.day))
  ELSE LET next == Min(Ahead(t.day)) IN At(next, Closing(next))

MinutesUntilClose(t) == IF IsMarketOpen(t) THEN Closing(t.day) - t.minute ELSE 0

\* "true if the given date is the 3rd Friday of the month"
IsMonthlyOpex(d) == Weekday(d) = 5 /\ DayOfMonth(d) \in 15..21

MarketStatus(t) ==
  CASE t.day \in holidays -> "Holiday"
    [] t.day \notin holidays /\ IsMarketOpen(t) -> "Open"
    [] IsPreMarket(t) -> "Pre-Market"
    [] IsAfterHours(t) -> "After-Hours"
    [] OTHER -> IF DayOfMonth(NextOpen(t).day) = DayOfMonth(t.day)
                THEN "Closed, opens today" ELSE "Closed"

--------------------------------------------------------------------------------
(* The gateway's /market/calendar *)

GatewayIsOpen(t) ==
  ~IsWeekend(t.day) /\ t.minute >= Clock(9, 30) /\ t.minute < Clock(16, 0)

GatewayIsPreMarket(t) ==
  ~IsWeekend(t.day) /\ t.minute >= Clock(4, 0) /\ t.minute < Clock(9, 30)

GatewayIsAfterHours(t) ==
  ~IsWeekend(t.day) /\ t.minute >= Clock(16, 0) /\ t.minute < Clock(20, 0)

--------------------------------------------------------------------------------
(* The OMS's checkMarketHours *)

MarketHoursPass(t) == GatewayIsOpen(t) \/ GatewayIsPreMarket(t)
================================================================================
