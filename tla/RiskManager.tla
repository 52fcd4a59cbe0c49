------------------------------ MODULE RiskManager ------------------------------
(***************************************************************************)
(* The OMS's risk manager between the three things it goes by: the limits, *)
(* which the dashboard changes while the OMS runs (ConfigReload); its      *)
(* record of recent orders; and the portfolio tracker's snapshot, which is *)
(* taken from the positions rows at startup. No message reaches the        *)
(* tracker afterwards: it subscribes to channels market:ticks:*, and the   *)
(* market data service adds to streams of these names.                     *)
(*                                                                         *)
(* A check of an order is two steps, so that the limits may change in      *)
(* between; only one goroutine checks orders. Lengths of time are free:    *)
(* the windows are constants, in whatever unit Tick counts.                *)
(*                                                                         *)
(* A definition marked "Variant of" is the code with one slip in it. No    *)
(* action uses it: it shows that a property can tell the slip.             *)
(***************************************************************************)
EXTENDS ConfigReload, FiniteSets

CONSTANTS
  Symbols,
  Orders,           \* what can be ordered: symbol, side, quantity, limit (0: none)
  Prices,           \* what a market order is filled at
  FallbackPrice,    \* what a market order of an unknown symbol is taken for
  Losses,           \* what the account may have lost today
  RateWindow,       \* 60 seconds
  DuplicateWindow,  \* 5 seconds
  MaxTime, MaxChecks, MaxRestarts  \* bounds

ASSUME RiskAssumption ==
  /\ Orders \subseteq [symbol : Symbols, side : {"BUY", "SELL"}, quantity : Nat \ {0},
                       limit : Nat]
  /\ Prices \subseteq Nat \ {0} /\ FallbackPrice \in Nat
  /\ Losses \subseteq Nat /\ 0 \in Losses
  /\ {"max_orders", "max_loss", "max_position"} \subseteq Keys
  /\ DuplicateWindow \in Nat /\ RateWindow \in Nat /\ DuplicateWindow <= RateWindow
  /\ MaxTime \in Nat /\ MaxChecks \in Nat /\ MaxRestarts \in Nat

VARIABLES
  now,
  life,     \* restarts so far
  hand,     \* the orders CheckAll works on (at most one), its copy of the limits, the loss
  recent,   \* rm.recentOrders
  checks,   \* orders checked so far
  passed,   \* those that passed
  filled,   \* those among them that were executed and booked
  rows,     \* the positions rows; quantity 0: no row
  tracker,  \* the tracker's positions
  loss      \* what the account has lost today, and what the tracker makes of it

riskVars == <<now, life, hand, recent, checks, passed, filled, rows, tracker, loss>>

vars == <<configVars, riskVars>>

\* An order as the risk manager remembers it, numbered, with the process that checked it.
Entry == [id : Nat, order : Orders, time : Nat, life : Nat]

Position == [quantity : Nat, price : Nat]

NoPositions == [s \in Symbols |-> [quantity |-> 0, price |-> 0]]

TypeOK ==
  /\ ConfigTypeOK
  /\ now \in Nat /\ life \in Nat /\ checks \in Nat
  /\ hand \subseteq [order : Orders, limits : [Keys -> Nat], lost : Losses]
  /\ \A g, h \in hand : g = h
  /\ recent \subseteq Entry
  /\ passed \subseteq Entry
  /\ filled \subseteq passed
  /\ rows \in [Symbols -> Position]
  /\ tracker \in [Symbols -> Position]
  /\ loss \in [true : Losses, seen : Losses]

Init ==
  /\ ConfigInit
  /\ now = 0 /\ life = 0
  /\ hand = {} /\ recent = {} /\ checks = 0
  /\ passed = {} /\ filled = {}
  /\ rows = NoPositions /\ tracker = NoPositions
  /\ loss = [true |-> 0, seen |-> 0]

--------------------------------------------------------------------------------
(* The checks *)

\* timestamp.After(now - window)
Within(entry, window) == entry.time + window > now

\* Variant of Pruned: the list is cut to what the duplicate check needs.
PrunedToDuplicates == {e \in recent : Within(e, DuplicateWindow)}

\* What checkOrderRate leaves of the list.
Pruned == {e \in recent : Within(e, RateWindow)}

checkOrderRate(limits) == Cardinality(Pruned) < limits["max_orders"]

\* Variant of checkDuplicateOrder: only orders that were executed count.
checkDuplicateOfFilled(o) ==
  \A e \in Pruned \cap filled : e.order # o \/ ~Within(e, DuplicateWindow)

SameAs(a, b) == a.symbol = b.symbol /\ a.side = b.side /\ a.quantity = b.quantity

checkDuplicateOrder(o) ==
  \A e \in Pruned : ~(SameAs(e.order, o) /\ Within(e, DuplicateWindow))

checkDailyLoss(limits) == loss.seen <= limits["max_loss"]

\* The price an order without a limit is taken for.
OrderPrice(o) ==
  CASE o.limit # 0 -> o.limit
    [] o.limit = 0 /\ tracker[o.symbol].price # 0 -> tracker[o.symbol].price
    [] OTHER -> FallbackPrice

\* Both sides add to the position. The limit is a value: the equity is the snapshot's, too.
checkPositionSize(o, limits) ==
  tracker[o.symbol].quantity * tracker[o.symbol].price + OrderPrice(o) * o.quantity
    <= limits["max_position"]

\* What the remaining checks answer: they read the order and the clock, or the snapshot in
\* the way checkPositionSize does.
OtherChecks == BOOLEAN

AllPassed(o, limits, others) ==
  /\ checkDailyLoss(limits)
  /\ checkPositionSize(o, limits)
  /\ checkOrderRate(limits)
  /\ checkDuplicateOrder(o)
  /\ others

--------------------------------------------------------------------------------
(* The signal loop, the broker, the clock *)

\* The loop calls CheckAll, which copies the limits. The tracker's snapshot it passes cannot
\* change meanwhile; "lost" is what the account has lost by then.
StartCheck(o) ==
  /\ ~AtStart \/ loader.pc = "subscribe"
  /\ hand = {}
  /\ checks < MaxChecks
  /\ hand' = {[order |-> o, limits |-> cfg, lost |-> loss.true]}
  /\ UNCHANGED <<configVars, now, life, recent, checks, passed, filled, rows, tracker, loss>>

\* The checks, all of them; then the order joins the list, whether it passed or not.
FinishCheck(h, others) ==
  LET entry == [id |-> checks, order |-> h.order, time |-> now, life |-> life]
  IN /\ hand = {h}
     /\ hand' = {}
     /\ checks' = checks + 1
     /\ recent' = Pruned \cup {entry}
     /\ passed' = IF AllPassed(h.order, h.limits, others) THEN passed \cup {entry} ELSE passed
     /\ UNCHANGED <<configVars, now, life, filled, rows, tracker, loss>>

\* The positions row after a fill: its price is that of the first fill.
Booked(row, o, price) ==
  CASE o.side = "BUY" /\ row.quantity = 0 -> [quantity |-> o.quantity, price |-> price]
    [] o.side = "BUY" /\ row.quantity # 0 -> [row EXCEPT !.quantity = row.quantity + o.quantity]
    [] o.side = "SELL" /\ row.quantity > o.quantity ->
         [row EXCEPT !.quantity = row.quantity - o.quantity]
    [] OTHER -> [quantity |-> 0, price |-> 0]

\* The simulator executes an order that passed, and the fill processor books it. An order
\* of an earlier process is gone with its simulator.
Fill(e, price) ==
  /\ e \in passed \ filled
  /\ e.life = life
  /\ filled' = filled \cup {e}
  /\ rows' = [rows EXCEPT ![e.order.symbol] = Booked(@, e.order, price)]
  /\ UNCHANGED <<configVars, now, life, hand, recent, checks, passed, tracker, loss>>

\* The market moves while something is held.
PricesMove ==
  /\ rows # NoPositions
  /\ \E l \in Losses : loss' = [loss EXCEPT !.true = l]
  /\ UNCHANGED <<configVars, now, life, hand, recent, checks, passed, filled, rows, tracker>>

Tick ==
  /\ now < MaxTime
  /\ now' = now + 1
  /\ UNCHANGED <<configVars, life, hand, recent, checks, passed, filled, rows, tracker, loss>>

\* What LoadPositionsFromDB makes of the rows it got before an error, which main ignores.
Loaded(S) == [s \in Symbols |-> IF s \in S THEN rows[s] ELSE NoPositions[s]]

\* A new process loads the rows: all of them, or some or none when a statement fails. What
\* they make of the day's loss has to do with the prices of the first fills and the average
\* costs, and nothing with the market.
Restart ==
  /\ life < MaxRestarts
  /\ ConfigRestart
  /\ life' = life + 1
  /\ hand' = {}
  /\ recent' = {}
  /\ \/ tracker' = rows /\ UNCHANGED faults
     \/ /\ faults < MaxFaults
        /\ faults' = faults + 1
        /\ \E S \in SUBSET Symbols : tracker' = Loaded(S)
  /\ \E l \in IF tracker' = NoPositions THEN {0} ELSE Losses : loss' = [loss EXCEPT !.seen = l]
  /\ UNCHANGED <<now, checks, passed, filled, rows>>

Next ==
  \/ ConfigNext /\ UNCHANGED riskVars
  \/ \E o \in Orders : StartCheck(o)
  \/ \E h \in hand, others \in OtherChecks : FinishCheck(h, others)
  \/ \E e \in passed, price \in Prices :
       Fill(e, IF e.order.limit # 0 THEN e.order.limit ELSE price)
  \/ PricesMove \/ Tick \/ Restart

Spec == Init /\ [][Next]_vars

\* Statements return and messages are delivered. Nothing is owed by users or the market.
Fairness ==
  /\ WF_vars(Announce /\ UNCHANGED riskVars)
  /\ WF_vars((TakeNotice \/ Query \/ Apply \/ Subscribe) /\ UNCHANGED riskVars)

FairSpec == Spec /\ Fairness

--------------------------------------------------------------------------------
(* Properties *)

ThisMinute(orders) == {e \in orders : e.life = life /\ Within(e, RateWindow)}

\* An order passes only if, with it, this process let no more than the limit pass in the
\* last minute, however the limit changed and whatever the list was cut to in between.
RateHolds ==
  [][\A e \in passed' \ passed : \A h \in hand :
       Cardinality(ThisMinute(passed')) <= h.limits["max_orders"]]_vars

\* A process never lets the same symbol, side and quantity pass twice within the
\* duplicate window, although each check also cuts the list.
NoTwins ==
  \A d, e \in passed :
    /\ d # e /\ d.life = e.life /\ SameAs(d.order, e.order)
    /\ d.time <= e.time
    => d.time + DuplicateWindow <= e.time

\* Under FairSpec: settings that stay reach the OMS, unless a message or a load was lost.
SettingsArrive ==
  \A c \in Settings : dbConfig = c ~> cfg = c \/ dbConfig # c \/ missed

\* "If your losses reach this amount in a single day, all trading stops automatically"
\* (risk.max_daily_loss): no order passes that was taken up after the account
\* had lost that much.
LossStopsTrading ==
  [][passed' # passed => \A h \in hand : h.lost < h.limits["max_loss"]]_vars
================================================================================
