--------------------------- MODULE OrderSafetyProofs ---------------------------
(***************************************************************************)
(* The safety properties of OrderLifecycle for any set of orders, any      *)
(* capacities and any number of faults and restarts. No property is        *)
(* inductive as it stands: whether a fill is booked twice depends on where *)
(* its update is, on what the goroutine of the order has done and on which *)
(* saves the loop still has to make. IInv says all of that at once.        *)
(***************************************************************************)
EXTENDS OrderTypeProofs

--------------------------------------------------------------------------------
(* The inductive invariant *)

\* Steps from which the loop has not yet given its order to the broker.
BeforeSend ==
  \/ loop.pc \in {"create", "park", "check", "reject", "submit", "send"}
  \/ loop.pc = "log" /\ loop.then = "send"

\* Steps from which the loop may still save its order.
MaySave ==
  \/ loop.pc \in {"check", "reject", "submit", "send", "link", "accept", "fail"}
  \/ loop.pc = "log" /\ loop.then = "send"

\* Nothing has happened to a signal not yet published or still in the channel.
FreshInv ==
  /\ IsInjective(signals)
  /\ Range(signals) \subseteq seen
  /\ \A o \in Orders :
       o \notin seen \/ o \in Range(signals) =>
         /\ row[o].status = "NONE"
         /\ sent[o] = 0
         /\ o \notin pending
         /\ loop.ord # o

\* sent counts to one, and the goroutine of an order tells what the broker has done.
BrokerInv ==
  \A o \in Orders :
    /\ sent[o] \in {0, 1}
    /\ sent[o] = 0 <=> task[o] = "none"
    /\ executed[o] \in {0, Quantity[o]}
    /\ task[o] \in {"none", "market", "watch", "triggered", "live"} => executed[o] = 0
    /\ task[o] = "sending" => executed[o] = Quantity[o]

\* What the row says is true of the broker.
RowInv ==
  \A o \in Orders :
    /\ row[o].filled \in {0, Quantity[o]}
    /\ row[o].filled <= executed[o]
    /\ row[o].status = "FILLED" <=> row[o].filled = Quantity[o]
    /\ row[o].status # "PARTIAL_FILL"
    /\ row[o].linked \/ row[o].status \in {"ACCEPTED", "FILLED"} => sent[o] > 0

\* Where the loop stands tells the state of its order in memory.
LoopInv ==
  /\ loop.pc = "idle" => loop = IdleLoop
  /\ loop.pc = "create" => loop.state \in {"APPROVED", "AWAITING_APPROVAL"}
  /\ loop.pc \in {"check", "reject", "submit"} => loop.state = "APPROVED"
  /\ loop.pc \in {"send", "link", "accept", "fail"} => loop.state \in {"APPROVED", "SUBMITTED"}
  /\ loop.pc = "log" =>
       loop.then = "idle" \/ (loop.then = "send" /\ loop.state = "SUBMITTED")
  /\ active => loop.pc = "idle"

\* While the loop may still save its order, nothing has been booked for it and the
\* listener holds no copy of it to save.
HandInv ==
  /\ loop.pc = "create" => row[loop.ord].status = "NONE"
  /\ BeforeSend => sent[loop.ord] = 0
  /\ loop.pc # "idle" => loop.ord \notin pending
  /\ loop.pc \in {"link", "accept"} => sent[loop.ord] = 1
  /\ MaySave /\ loop.pc \notin {"check", "reject"} => verdict[loop.ord] = "passed"
  /\ MaySave => row[loop.ord].status \in {"APPROVED", "SUBMITTED", "CANCELLED"}
  /\ MaySave => ~(listener.pc = "save" /\ listener.ord = loop.ord)

\* An update on its way has been executed and not been booked, and is in one place.
UpdateInv ==
  /\ IsInjective(updateCh)
  /\ \A o \in Range(updateCh) :
       /\ task[o] = "done"
       /\ executed[o] = Quantity[o]
       /\ row[o].filled = 0
       /\ listener.ord # o
  /\ \A o \in Orders : task[o] = "sending" => row[o].filled = 0

\* The listener holds an update that was executed and not booked before it saves.
ListenerInv ==
  /\ listener.pc = "idle" => listener = IdleListener
  /\ listener.pc # "idle" =>
       task[listener.ord] = "done" /\ executed[listener.ord] = Quantity[listener.ord]
  /\ listener.pc \in {"read", "save"} => row[listener.ord].filled = 0
  /\ listener.pc = "save" =>
       /\ listener.filled = Quantity[listener.ord]
       /\ listener.status = "FILLED"
       /\ row[listener.ord].status \in {"ACCEPTED", "CANCELLED"}

SafeInv ==
  /\ FreshInv
  /\ BrokerInv
  /\ RowInv
  /\ LoopInv
  /\ HandInv
  /\ UpdateInv
  /\ ListenerInv
  /\ OnlyVettedOrdersReachBroker

IInv == TypeOK /\ SafeInv

--------------------------------------------------------------------------------
(* Channels *)

\* Receiving takes one element out of a channel that holds no element twice.
LEMMA ReceiveLemma ==
  ASSUME NEW S, NEW s \in Seq(S), s # <<>>, IsInjective(s)
  PROVE  /\ Head(s) \in Range(s)
         /\ Range(Tail(s)) = Range(s) \ {Head(s)}
         /\ IsInjective(Tail(s))
  <1> DEFINE t == Tail(s)
  <1>1. /\ Len(s) \in Nat /\ Len(s) > 0 /\ DOMAIN s = 1..Len(s)
        /\ t \in Seq(S) /\ Len(t) = Len(s) - 1 /\ DOMAIN t = 1..Len(t)
        /\ \A i \in 1..Len(t) : t[i] = s[i + 1]
    <2>1. t \in Seq(S) /\ Len(t) = Len(s) - 1 /\ \A i \in 1..Len(t) : t[i] = s[i + 1]
        BY HeadTailProperties
    <2> HIDE DEF t
    <2> QED
        BY <2>1, EmptySeq, LenProperties
  <1>2. Head(s) = s[1]
      OBVIOUS
  <1> HIDE DEF t
  <1>3. IsInjective(t)
      BY <1>1 DEF IsInjective
  <1>4. ASSUME NEW x \in Range(t) PROVE x \in Range(s) /\ x # s[1]
    <2>1. PICK i \in 1..Len(t) : x = t[i]
        BY <1>1 DEF Range
    <2>2. x = s[i + 1] /\ i + 1 \in 1..Len(s) /\ 1 \in 1..Len(s) /\ i + 1 # 1
        BY <1>1, <2>1
    <2> QED
        BY <1>1, <2>2 DEF Range, IsInjective
  <1>5. ASSUME NEW x \in Range(s), x # s[1] PROVE x \in Range(t)
    <2>1. PICK i \in 1..Len(s) : x = s[i]
        BY <1>1 DEF Range
    <2>2. i - 1 \in 1..Len(t) /\ t[i - 1] = s[i]
        BY <1>1, <1>5, <2>1
    <2> QED
        BY <1>1, <2>1, <2>2 DEF Range
  <1>6. s[1] \in Range(s)
      BY <1>1 DEF Range
  <1> QED
      BY <1>2, <1>3, <1>4, <1>5, <1>6 DEF t

\* Sending puts one element more into a channel.
LEMMA SendLemma ==
  ASSUME NEW S, NEW s \in Seq(S), NEW e \in S, IsInjective(s), e \notin Range(s)
  PROVE  Range(Append(s, e)) = Range(s) \cup {e} /\ IsInjective(Append(s, e))
  <1> DEFINE t == Append(s, e)
  <1>1. /\ Len(s) \in Nat /\ DOMAIN s = 1..Len(s)
        /\ Len(t) = Len(s) + 1 /\ DOMAIN t = 1..Len(t)
        /\ \A i \in 1..Len(s) : t[i] = s[i]
        /\ t[Len(s) + 1] = e
    <2>1. /\ t \in Seq(S) /\ Len(t) = Len(s) + 1 /\ t[Len(s) + 1] = e
          /\ \A i \in 1..Len(s) : t[i] = s[i]
        BY AppendProperties
    <2> HIDE DEF t
    <2> QED
        BY <2>1, LenProperties
  <1> HIDE DEF t
  <1>2. \A i \in 1..Len(s) : s[i] # e
      BY <1>1 DEF Range
  <1>3. IsInjective(t)
      BY <1>1, <1>2 DEF IsInjective
  <1>4. \A i \in 1..Len(t) : i \in 1..Len(s) \/ i = Len(s) + 1
      BY <1>1
  <1>5. Range(t) \subseteq Range(s) \cup {e}
      BY <1>1, <1>4 DEF Range
  <1>6. Range(s) \subseteq Range(t) /\ e \in Range(t)
      BY <1>1 DEF Range
  <1> QED
      BY <1>3, <1>5, <1>6 DEF t

\* A new channel is empty.
LEMMA EmptyLemma == Range(<<>>) = {} /\ IsInjective(<<>>)
  BY DEF Range, IsInjective

\* A channel holds elements of its type.
LEMMA RangeLemma ==
  ASSUME NEW S, NEW s \in Seq(S)
  PROVE  Range(s) \subseteq S
  BY LenProperties DEF Range

--------------------------------------------------------------------------------
(* What one statement does to a row *)

\* A save leaves the other rows alone; its own row is written whole or not at all.
LEMMA SaveEffect ==
  ASSUME TypeOK, NEW o \in Orders, NEW status, NEW linked, NEW filled, NEW ok,
         SaveOrderState(o, status, linked, filled, ok)
  PROVE  /\ \A p \in Orders : p # o => row'[p] = row[p]
         /\ \/ row'[o] = row[o]
            \/ row'[o].status = status /\ row'[o].linked = linked /\ row'[o].filled = filled
  BY DEF TypeOK, SaveOrderState

\* CreateOrder and the gateway change the status only.
LEMMA StatusEffect ==
  ASSUME TypeOK, NEW o \in Orders, NEW status, row' = [row EXCEPT ![o].status = status]
  PROVE  /\ \A p \in Orders : p # o => row'[p] = row[p]
         /\ row'[o].status = status
         /\ row'[o].linked = row[o].linked /\ row'[o].filled = row[o].filled
  BY DEF TypeOK, RowRecord

--------------------------------------------------------------------------------
(* The invariant is preserved: conjuncts an action does not disturb *)

\* Each of these says which variables a conjunct of the invariant reads. First: signals
\* that are new, against everything that could know them.
LEMMA FreshFrame ==
  FreshInv /\ UNCHANGED <<signals, seen, row, sent, pending, loop>> => FreshInv'
  BY DEF FreshInv

\* The counts of orders sent and executed, and the goroutines.
LEMMA BrokerFrame == BrokerInv /\ UNCHANGED <<sent, task, executed>> => BrokerInv'
  BY DEF BrokerInv

\* The rows, against what the broker has.
LEMMA RowFrame == RowInv /\ UNCHANGED <<row, executed, sent>> => RowInv'
  BY DEF RowInv

\* The loop and the kill switch.
LEMMA LoopFrame == LoopInv /\ UNCHANGED <<loop, active>> => LoopInv'
  BY DEF LoopInv

\* The order in the loop's hand, against everything that knows it.
LEMMA HandFrame ==
  HandInv /\ UNCHANGED <<loop, row, sent, pending, verdict, listener>> => HandInv'
  BY DEF HandInv, BeforeSend, MaySave

\* The channel, against what was executed and booked.
LEMMA UpdateFrame ==
  UpdateInv /\ UNCHANGED <<updateCh, task, executed, row, listener>> => UpdateInv'
  BY DEF UpdateInv

\* The listener, against what was executed and booked.
LEMMA ListenerFrame ==
  ListenerInv /\ UNCHANGED <<listener, task, executed, row>> => ListenerInv'
  BY DEF ListenerInv, IdleListener

\* What was sent, against verdicts and approvals.
LEMMA VettedFrame ==
  OnlyVettedOrdersReachBroker /\ UNCHANGED <<sent, verdict, pending>>
    => OnlyVettedOrdersReachBroker'
  BY DEF OnlyVettedOrdersReachBroker

--------------------------------------------------------------------------------
(* The invariant is preserved: signals and the loop *)

\* A signal published for the first time was nowhere before.
LEMMA PublishSignalSafe ==
  ASSUME IInv, NEW o \in Orders, PublishSignal(o)
  PROVE  SafeInv'
  <1>1. FreshInv'
    <2>1. o \notin Range(signals) /\ signals \in Seq(Orders) /\ IsInjective(signals)
        BY DEF IInv, SafeInv, FreshInv, PublishSignal, TypeOK
    <2>2. IsInjective(signals') /\ Range(signals') \subseteq Range(signals) \cup {o}
        BY <2>1, SendLemma DEF PublishSignal
    <2> QED
        BY <2>2 DEF IInv, SafeInv, FreshInv, PublishSignal, durable
  <1> QED
      BY <1>1, BrokerFrame, RowFrame, LoopFrame, HandFrame, UpdateFrame, ListenerFrame,
         VettedFrame
      DEF IInv, SafeInv, PublishSignal, durable, broker

\* The order taken from the channel is new to everything else.
LEMMA DequeueSafe ==
  ASSUME IInv, Dequeue
  PROVE  SafeInv'
  <1> DEFINE s == Head(signals)
  <1>1. /\ s \in Orders /\ s \in Range(signals)
        /\ IsInjective(signals') /\ Range(signals') = Range(signals) \ {s}
      BY ReceiveLemma, RangeLemma DEF IInv, SafeInv, FreshInv, TypeOK, Dequeue
  <1>2. \/ loop' = IdleLoop
        \/ /\ ~active
           /\ loop'.pc = "create" /\ loop'.ord = s
           /\ loop'.state \in {"APPROVED", "AWAITING_APPROVAL"}
      BY DEF Dequeue, Evaluate
  <1> HIDE DEF s
  <1>3. FreshInv'
      BY <1>1, <1>2, OrdersAssumption DEF IInv, SafeInv, FreshInv, Dequeue, durable, IdleLoop
  <1>4. LoopInv'
      BY <1>2 DEF IInv, SafeInv, LoopInv, Dequeue, IdleLoop
  <1>5. HandInv'
      BY <1>1, <1>2
      DEF IInv, SafeInv, FreshInv, HandInv, BeforeSend, MaySave, Dequeue, durable, IdleLoop
  <1> QED
      BY <1>3, <1>4, <1>5, BrokerFrame, RowFrame, UpdateFrame, ListenerFrame, VettedFrame
      DEF IInv, SafeInv, Dequeue, durable, broker

\* The row of a new order is inserted, or not, or inserted and given up.
LEMMA CreateOrderSafe ==
  ASSUME IInv, CreateOrder
  PROVE  SafeInv'
  <1> DEFINE o == loop.ord
  <1>1. /\ o \in Orders /\ loop.pc = "create" /\ row[o].status = "NONE" /\ sent[o] = 0
        /\ o \notin pending /\ o \in seen /\ o \notin Range(signals) /\ o \notin Range(updateCh)
        /\ listener.ord # o /\ task[o] = "none" /\ ~row[o].linked /\ row[o].filled = 0
        /\ loop.state \in {"APPROVED", "AWAITING_APPROVAL"}
    <2>1. /\ o \in Orders /\ loop.pc = "create" /\ row[o].status = "NONE" /\ sent[o] = 0
          /\ o \notin pending /\ loop.state \in {"APPROVED", "AWAITING_APPROVAL"}
        BY DEF IInv, SafeInv, CreateOrder, TypeOK, HandInv, BeforeSend, LoopInv
    <2>2. o \in seen /\ o \notin Range(signals)
        BY <2>1 DEF IInv, SafeInv, FreshInv
    <2>3. task[o] = "none"
        BY <2>1 DEF IInv, SafeInv, BrokerInv
    <2>4. row[o].filled = 0 /\ ~row[o].linked
      <3>1. RowInv /\ sent[o] = 0 /\ o \in Orders /\ row[o].status = "NONE"
          BY <2>1 DEF IInv, SafeInv
      <3> HIDE DEF o
      <3>2. row[o].filled = 0
          BY <3>1 DEF RowInv
      <3>3. row[o].linked => sent[o] > 0
          BY <3>1 DEF RowInv
      <3> QED
          BY <3>1, <3>2, <3>3
    <2>5. o \notin Range(updateCh) /\ listener.ord # o
        BY <2>1, <2>3, OrdersAssumption DEF IInv, SafeInv, UpdateInv, ListenerInv, IdleListener
    <2> QED
        BY <2>1, <2>2, <2>3, <2>4, <2>5
  <1>2. /\ \A p \in Orders : p # o => row'[p] = row[p]
        /\ row'[o].linked = row[o].linked /\ row'[o].filled = row[o].filled
        /\ row'[o].status \in {"NONE", loop.state}
      BY <1>1, StatusEffect DEF IInv, CreateOrder
  <1>3. \/ loop' = IdleLoop
        \/ /\ loop'.pc = IF loop.state = "AWAITING_APPROVAL" THEN "park" ELSE "check"
           /\ loop'.ord = o /\ loop'.state = loop.state
           /\ row'[o].status = loop.state
    <2>1. PICK ok \in BOOLEAN :
            /\ ok => row' = [row EXCEPT ![o].status = loop.state]
            /\ loop' = Proceed(IF ~ok THEN "idle"
                               ELSE IF loop.state = "AWAITING_APPROVAL" THEN "park" ELSE "check")
        BY Zenon DEF CreateOrder
    <2>2. loop \in LoopRecord
        BY DEF IInv, TypeOK
    <2>3. CASE ~ok
        BY <2>1, <2>3 DEF Proceed
    <2>4. CASE ok
      <3>1. row'[o].status = loop.state
          BY <1>1, <2>1, <2>4, StatusEffect DEF IInv
      <3>2. loop' = [loop EXCEPT !.pc = IF loop.state = "AWAITING_APPROVAL" THEN "park"
                                                                          ELSE "check"]
          BY <2>1, <2>4 DEF Proceed
      <3> QED
          BY <2>2, <3>1, <3>2 DEF LoopRecord
    <2> QED
        BY <2>3, <2>4
  <1>4. UNCHANGED <<position, stateLog, active, signals, pending, updateCh, listener, task,
                    executed, seen, verdict, sent>>
      BY DEF CreateOrder, broker
  <1> HIDE DEF o
  <1>5. FreshInv'
      BY <1>1, <1>2, <1>3, <1>4, OrdersAssumption DEF IInv, SafeInv, FreshInv, IdleLoop
  <1>6. RowInv'
      BY <1>1, <1>2, <1>4, QuantityPositive DEF IInv, SafeInv, RowInv
  <1>7. LoopInv'
      BY <1>1, <1>3, <1>4 DEF IInv, SafeInv, LoopInv, IdleLoop
  <1>8. HandInv'
      BY <1>1, <1>2, <1>3, <1>4
      DEF IInv, SafeInv, HandInv, BeforeSend, MaySave, IdleLoop
  <1>9. UpdateInv'
    <2>1. Range(updateCh) \subseteq Orders /\ \A p \in Orders : row'[p].filled = row[p].filled
        BY <1>2, RangeLemma DEF IInv, TypeOK
    <2> QED
        BY <1>4, <2>1 DEF IInv, SafeInv, UpdateInv
  <1>10. ListenerInv'
      BY <1>1, <1>2, <1>4 DEF IInv, SafeInv, ListenerInv, TypeOK, IdleListener
  <1> QED
      BY <1>4, <1>5, <1>6, <1>7, <1>8, <1>9, <1>10, BrokerFrame, VettedFrame DEF IInv, SafeInv

\* An order that parks has not been sent.
LEMMA AddPendingApprovalSafe ==
  ASSUME IInv, AddPendingApproval
  PROVE  SafeInv'
  <1>1. /\ loop.ord \in Orders /\ sent[loop.ord] = 0 /\ loop' = IdleLoop
        /\ pending' = pending \cup {loop.ord}
      BY DEF IInv, SafeInv, TypeOK, AddPendingApproval, HandInv, BeforeSend
  <1>2. FreshInv'
      BY <1>1, OrdersAssumption DEF IInv, SafeInv, FreshInv, AddPendingApproval, durable, IdleLoop
  <1>3. LoopInv'
      BY <1>1 DEF LoopInv, IdleLoop
  <1>4. HandInv'
      BY <1>1 DEF HandInv, BeforeSend, MaySave, IdleLoop
  <1>5. OnlyVettedOrdersReachBroker'
      BY <1>1 DEF IInv, SafeInv, OnlyVettedOrdersReachBroker, AddPendingApproval
  <1> QED
      BY <1>2, <1>3, <1>4, <1>5, BrokerFrame, RowFrame, UpdateFrame, ListenerFrame
      DEF IInv, SafeInv, AddPendingApproval, durable, broker

\* The verdict is given before anything is sent.
LEMMA CheckAllSafe ==
  ASSUME IInv, CheckAll
  PROVE  SafeInv'
  <1> DEFINE o == loop.ord
  <1>1. /\ o \in Orders /\ loop.pc = "check" /\ sent[o] = 0 /\ o \notin pending
        /\ row[o].status \in {"APPROVED", "SUBMITTED", "CANCELLED"}
        /\ ~(listener.pc = "save" /\ listener.ord = o) /\ loop.state = "APPROVED"
        /\ loop \in LoopRecord
      BY DEF IInv, SafeInv, TypeOK, CheckAll, HandInv, BeforeSend, MaySave, LoopInv
  <1>2. /\ loop'.ord = o /\ loop'.state = loop.state
        /\ loop'.pc = "reject" \/ (loop'.pc = "submit" /\ verdict'[o] = "passed")
        /\ \A p \in Orders : p # o => verdict'[p] = verdict[p]
      BY <1>1, ProceedType DEF IInv, TypeOK, CheckAll, LoopSteps
  <1>3. UNCHANGED <<row, active, signals, pending, listener, seen, sent>>
      BY DEF CheckAll, durable
  <1> HIDE DEF o
  <1>4. FreshInv'
      BY <1>1, <1>2, <1>3 DEF IInv, SafeInv, FreshInv, o
  <1>5. LoopInv'
      BY <1>1, <1>2, <1>3 DEF IInv, SafeInv, LoopInv
  <1>6. HandInv'
      BY <1>1, <1>2, <1>3 DEF HandInv, BeforeSend, MaySave
  <1>7. OnlyVettedOrdersReachBroker'
      BY <1>1, <1>2, <1>3 DEF IInv, SafeInv, OnlyVettedOrdersReachBroker, TypeOK
  <1> QED
      BY <1>4, <1>5, <1>6, <1>7, BrokerFrame, RowFrame, UpdateFrame, ListenerFrame
      DEF IInv, SafeInv, CheckAll, durable, broker

\* A save by the loop takes nothing back: its row was not booked and still is not.
LEMMA LoopSaveSafe ==
  ASSUME IInv, MaySave, loop.ord \in Orders,
         NEW status \in {"SUBMITTED", "APPROVED", "FAILED", "ACCEPTED"}, NEW linked \in BOOLEAN,
         linked \/ status = "ACCEPTED" => sent[loop.ord] > 0,
         NEW ok \in BOOLEAN, SaveOrderState(loop.ord, status, linked, 0, ok),
         loop'.ord \in {loop.ord, NoOrder},
         UNCHANGED <<signals, pending, updateCh, listener, task, executed, seen, sent>>
  PROVE  FreshInv' /\ RowInv' /\ UpdateInv' /\ ListenerInv'
  <1> DEFINE o == loop.ord
  <1>1. /\ o \in Orders /\ o \in seen /\ o \notin Range(signals)
        /\ ~(listener.pc = "save" /\ listener.ord = o)
        /\ row[o].status \in {"APPROVED", "SUBMITTED", "CANCELLED"} /\ row[o].filled = 0
      BY DEF IInv, SafeInv, HandInv, FreshInv, RowInv
  <1>2. /\ \A p \in Orders : p # o => row'[p] = row[p]
        /\ row'[o].filled = 0
        /\ \/ row'[o] = row[o]
           \/ row'[o].status = status /\ row'[o].linked = linked
      BY <1>1, SaveEffect DEF IInv
  <1>3. \A p \in Orders : row'[p].filled = row[p].filled
      BY <1>1, <1>2
  <1>4. loop'.ord \in {o, NoOrder}
      OBVIOUS
  <1>5. linked \/ status = "ACCEPTED" => sent[o] > 0
      OBVIOUS
  <1> HIDE DEF o
  <1>6. FreshInv'
      BY <1>1, <1>2, <1>4, OrdersAssumption DEF IInv, SafeInv, FreshInv
  <1>7. RowInv'
      BY <1>1, <1>2, <1>3, <1>5, QuantityPositive DEF IInv, SafeInv, RowInv
  <1>8. UpdateInv'
      BY <1>3, RangeLemma DEF IInv, SafeInv, UpdateInv, TypeOK
  <1>9. ListenerInv'
      BY <1>1, <1>2, <1>3 DEF IInv, SafeInv, ListenerInv, TypeOK, IdleListener
  <1> QED
      BY <1>6, <1>7, <1>8, <1>9

\* The loop saves along the table and its row was never booked.
LEMMA LoopTransitionSafe ==
  ASSUME IInv, LoopTransition
  PROVE  SafeInv'
  <1> DEFINE o == loop.ord
  <1>1. /\ o \in Orders /\ loop \in LoopRecord
        /\ loop.pc \in {"reject", "submit", "fail", "accept"} /\ MaySave
        /\ loop.pc \in {"reject", "submit"} => loop.state = "APPROVED" /\ sent[o] = 0
        /\ loop.pc \in {"fail", "accept"} => loop.state \in {"APPROVED", "SUBMITTED"}
        /\ loop.pc = "accept" => sent[o] = 1
        /\ loop.pc # "reject" => verdict[o] = "passed"
        /\ o \notin pending /\ ~active
        /\ row[o].status \in {"APPROVED", "SUBMITTED", "CANCELLED"}
        /\ ~(listener.pc = "save" /\ listener.ord = o)
      BY DEF IInv, SafeInv, TypeOK, LoopTransition, HandInv, BeforeSend, MaySave, LoopInv
  <1>2. UNCHANGED <<active, signals, pending, updateCh, listener, task, executed, seen,
                    verdict, sent>>
      BY DEF LoopTransition, broker
  <1>3. CASE UNCHANGED row /\ loop' = IdleLoop
    <2>1. FreshInv'
        BY <1>2, <1>3, OrdersAssumption DEF IInv, SafeInv, FreshInv, IdleLoop
    <2>2. LoopInv' /\ HandInv'
        BY <1>3 DEF LoopInv, HandInv, BeforeSend, MaySave, IdleLoop
    <2> QED
        BY <1>2, <1>3, <2>1, <2>2, BrokerFrame, RowFrame, UpdateFrame, ListenerFrame, VettedFrame
        DEF IInv, SafeInv
  <1>4. ASSUME NEW newState \in {"SUBMITTED", "FAILED", "ACCEPTED"}, NEW linked \in BOOLEAN,
               NEW next \in {"send", "idle"}, Transition(newState, linked, next),
               CanTransition(loop.state, newState),
               linked \/ newState = "ACCEPTED" => sent[o] = 1,
               next = "send" => loop.pc = "submit" /\ newState = "SUBMITTED"
        PROVE  SafeInv'
    <2>1. PICK ok \in BOOLEAN :
            /\ SaveOrderState(o, newState, linked, 0, ok)
            /\ loop' = IF ok THEN [loop EXCEPT !.pc = "log", !.state = newState, !.then = next]
                       ELSE Proceed(next)
        BY <1>4 DEF Transition
    <2>2. \/ loop' = IdleLoop
          \/ loop'.pc = "log" /\ loop'.ord = o /\ loop'.state = newState /\ loop'.then = next
          \/ next = "send" /\ loop'.pc = "send" /\ loop'.ord = o /\ loop'.state = loop.state
        BY <1>1, <2>1, ProceedType DEF Proceed, LoopRecord, LoopSteps
    <2>3. FreshInv' /\ RowInv' /\ UpdateInv' /\ ListenerInv'
      <3>1. loop'.ord \in {o, NoOrder}
          BY <2>2 DEF IdleLoop
      <3> QED
          BY <1>1, <1>2, <1>4, <2>1, <3>1, LoopSaveSafe
    <2>4. \A p \in Orders : p # o => row'[p] = row[p]
        BY <1>1, <2>1, SaveEffect DEF IInv
    <2>5. row'[o] = row[o] \/ row'[o].status = newState
        BY <1>1, <2>1, SaveEffect DEF IInv
    <2> HIDE DEF o
    <2>6. LoopInv'
        BY <1>1, <1>2, <1>4, <2>2 DEF LoopInv, IdleLoop
    <2>7. HandInv'
        BY <1>1, <1>2, <1>4, <2>2, <2>5 DEF HandInv, BeforeSend, MaySave, IdleLoop
    <2> QED
        BY <1>2, <2>3, <2>6, <2>7, BrokerFrame, VettedFrame DEF IInv, SafeInv
  <1>5. CASE loop.pc = "reject"
    <2>1. Transition("REJECTED", FALSE, "idle") /\ ~CanTransition(loop.state, "REJECTED")
        BY <1>1, <1>5 DEF LoopTransition, CanTransition, ValidTransitions
    <2> QED
        BY <1>3, <2>1 DEF Transition, Proceed
  <1>6. CASE loop.pc = "submit"
    <2>1. Transition("SUBMITTED", FALSE, "send") /\ CanTransition(loop.state, "SUBMITTED")
        BY <1>1, <1>6 DEF LoopTransition, CanTransition, ValidTransitions
    <2> QED
        BY <1>4, <1>6, <2>1
  <1>7. CASE loop.pc = "fail"
    <2>1. Transition("FAILED", FALSE, "idle") /\ CanTransition(loop.state, "FAILED")
        BY <1>1, <1>7 DEF LoopTransition, CanTransition, ValidTransitions
    <2> QED
        BY <1>4, <1>7, <2>1
  <1>8. CASE loop.pc = "accept"
    <2>1. Transition("ACCEPTED", TRUE, "idle")
        BY <1>8 DEF LoopTransition
    <2>2. CASE CanTransition(loop.state, "ACCEPTED")
        BY <1>1, <1>4, <1>8, <2>1, <2>2
    <2>3. CASE ~CanTransition(loop.state, "ACCEPTED")
        BY <1>3, <2>1, <2>3 DEF Transition, Proceed
    <2> QED
        BY <2>2, <2>3
  <1> QED
      BY <1>1, <1>5, <1>6, <1>7, <1>8

\* Logging a transition moves the loop only.
LEMMA LoopLogTransitionSafe ==
  ASSUME IInv, LoopLogTransition
  PROVE  SafeInv'
  <1> DEFINE o == loop.ord
  <1>1. /\ o \in Orders /\ loop.pc = "log" /\ loop \in LoopRecord
        /\ loop.then = "idle" \/ (loop.then = "send" /\ loop.state = "SUBMITTED")
        /\ loop.then = "send" => BeforeSend /\ MaySave
        /\ ~active
      BY DEF IInv, SafeInv, TypeOK, LoopLogTransition, LoopInv, BeforeSend, MaySave
  <1>2. UNCHANGED <<row, active, signals, pending, updateCh, listener, task, executed, seen,
                    verdict, sent>>
      BY DEF LoopLogTransition, broker
  <1>3. \/ loop' = IdleLoop
        \/ /\ loop.then = "send" /\ loop.state = "SUBMITTED"
           /\ loop'.pc = "send" /\ loop'.ord = o /\ loop'.state = "SUBMITTED"
      BY <1>1, ProceedType DEF LoopLogTransition, Proceed, LoopSteps
  <1>4. FreshInv'
      BY <1>1, <1>2, <1>3, OrdersAssumption DEF IInv, SafeInv, FreshInv, IdleLoop
  <1>5. LoopInv'
      BY <1>1, <1>2, <1>3 DEF LoopInv, IdleLoop
  <1>6. HandInv'
      BY <1>1, <1>2, <1>3 DEF IInv, SafeInv, HandInv, BeforeSend, MaySave, IdleLoop
  <1> QED
      BY <1>2, <1>4, <1>5, <1>6, BrokerFrame, RowFrame, UpdateFrame, ListenerFrame, VettedFrame
      DEF IInv, SafeInv

\* The loop's order at the moment it is given to the broker.
LEMMA AtSend ==
  ASSUME IInv, loop.pc = "send"
  PROVE  /\ loop.ord \in Orders /\ loop \in LoopRecord
         /\ loop.state \in {"APPROVED", "SUBMITTED"} /\ ~active
         /\ sent[loop.ord] = 0 /\ task[loop.ord] = "none" /\ executed[loop.ord] = 0
         /\ verdict[loop.ord] = "passed" /\ loop.ord \notin pending
         /\ row[loop.ord].status \in {"APPROVED", "SUBMITTED", "CANCELLED"}
         /\ loop.ord \notin Range(signals) /\ loop.ord \in seen
         /\ loop.ord \notin Range(updateCh) /\ listener.ord # loop.ord
  BY OrdersAssumption
  DEF IInv, SafeInv, TypeOK, LoopInv, HandInv, BeforeSend, MaySave, BrokerInv, FreshInv,
      UpdateInv, ListenerInv, IdleListener

\* An order that reached the broker: nothing else in the system knows it yet.
LEMMA ReachedSafe ==
  ASSUME IInv, loop.pc = "send", NEW step \in {"market", "watch", "live"},
         task' = [task EXCEPT ![loop.ord] = step],
         sent' = [sent EXCEPT ![loop.ord] = @ + 1],
         loop' = Proceed("link") \/ loop' = Proceed("fail"),
         UNCHANGED <<row, active, signals, pending, updateCh, listener, executed, seen, verdict>>
  PROVE  SafeInv'
  <1> DEFINE o == loop.ord
  <1>1. /\ o \in Orders /\ loop.state \in {"APPROVED", "SUBMITTED"} /\ ~active
        /\ sent[o] = 0 /\ task[o] = "none" /\ executed[o] = 0 /\ verdict[o] = "passed"
        /\ o \notin pending /\ row[o].status \in {"APPROVED", "SUBMITTED", "CANCELLED"}
        /\ o \notin Range(signals) /\ o \in seen /\ o \notin Range(updateCh)
        /\ listener.ord # o
      BY AtSend
  <1>2. /\ sent'[o] = 1 /\ \A p \in Orders : p # o => sent'[p] = sent[p]
        /\ task'[o] = step /\ \A p \in Orders : p # o => task'[p] = task[p]
      BY <1>1 DEF IInv, TypeOK
  <1>3. loop'.pc \in {"link", "fail"} /\ loop'.ord = o /\ loop'.state = loop.state
      BY <1>1, AtSend, ProceedType DEF LoopSteps
  <1>4. UNCHANGED <<row, active, signals, pending, updateCh, listener, executed, seen, verdict>>
      OBVIOUS
  <1> HIDE DEF o
  <1>5. FreshInv'
      BY <1>1, <1>2, <1>3, <1>4 DEF IInv, SafeInv, FreshInv
  <1>6. BrokerInv'
      BY <1>1, <1>2, <1>4 DEF IInv, SafeInv, BrokerInv
  <1>7. RowInv'
    <2>1. \A p \in Orders : sent[p] > 0 => sent'[p] > 0
        BY <1>1, <1>2
    <2> QED
        BY <1>4, <2>1 DEF IInv, SafeInv, RowInv
  <1>8. LoopInv'
      BY <1>1, <1>3, <1>4 DEF LoopInv
  <1>9. HandInv'
      BY <1>1, <1>2, <1>3, <1>4 DEF HandInv, BeforeSend, MaySave
  <1>10. UpdateInv'
      BY <1>1, <1>2, <1>4, RangeLemma DEF IInv, SafeInv, UpdateInv, TypeOK
  <1>11. ListenerInv'
      BY <1>1, <1>2, <1>4 DEF IInv, SafeInv, ListenerInv, TypeOK, IdleListener
  <1>12. OnlyVettedOrdersReachBroker'
      BY <1>1, <1>2, <1>4 DEF IInv, SafeInv, OnlyVettedOrdersReachBroker
  <1> QED
      BY <1>5, <1>6, <1>7, <1>8, <1>9, <1>10, <1>11, <1>12 DEF SafeInv

\* The simulator always takes the order.
LEMMA SubmitToPaperSafe ==
  ASSUME IInv, SubmitToPaper
  PROVE  SafeInv'
  <1>1. PICK step \in {"market", "watch", "live"} : task' = [task EXCEPT ![loop.ord] = step]
      BY DEF SubmitToPaper
  <1> QED
      BY <1>1, ReachedSafe DEF SubmitToPaper, durable

\* The live broker takes the order, or not, or takes it and the answer is lost.
LEMMA SubmitToAlpacaSafe ==
  ASSUME IInv, SubmitToAlpaca
  PROVE  SafeInv'
  <1>1. PICK reached \in BOOLEAN, answered \in BOOLEAN :
          /\ answered => reached
          /\ task' = IF reached THEN [task EXCEPT ![loop.ord] = "live"] ELSE task
          /\ sent' = IF reached THEN [sent EXCEPT ![loop.ord] = @ + 1] ELSE sent
          /\ loop' = Proceed(IF answered THEN "link" ELSE "fail")
      BY DEF SubmitToAlpaca
  <1>2. UNCHANGED <<row, active, signals, pending, updateCh, listener, executed, seen, verdict>>
      BY DEF SubmitToAlpaca, durable
  <1>3. CASE reached
      BY <1>1, <1>2, <1>3, ReachedSafe DEF SubmitToAlpaca
  <1>4. CASE ~reached
    <2>1. loop'.pc = "fail" /\ loop'.ord = loop.ord /\ loop'.state = loop.state
        BY <1>1, <1>4, AtSend, ProceedType DEF SubmitToAlpaca, LoopSteps
    <2>2. UNCHANGED <<sent, task>>
        BY <1>1, <1>4
    <2>3. FreshInv'
        BY <1>2, <2>1, <2>2 DEF IInv, SafeInv, FreshInv
    <2>4. LoopInv'
        BY AtSend, <1>2, <2>1 DEF LoopInv, SubmitToAlpaca
    <2>5. HandInv'
        BY AtSend, <1>2, <2>1, <2>2 DEF HandInv, BeforeSend, MaySave, SubmitToAlpaca
    <2> QED
        BY <1>2, <2>2, <2>3, <2>4, <2>5, BrokerFrame, RowFrame, UpdateFrame, ListenerFrame,
           VettedFrame
        DEF IInv, SafeInv
  <1> QED
      BY <1>3, <1>4

\* The broker id is saved for an order the broker was given.
LEMMA LinkBrokerOrderSafe ==
  ASSUME IInv, LinkBrokerOrder
  PROVE  SafeInv'
  <1> DEFINE o == loop.ord
  <1>1. /\ o \in Orders /\ loop \in LoopRecord /\ MaySave /\ loop.pc = "link" /\ ~active
        /\ loop.state \in {"APPROVED", "SUBMITTED"} /\ sent[o] = 1 /\ verdict[o] = "passed"
        /\ o \notin pending /\ row[o].status \in {"APPROVED", "SUBMITTED", "CANCELLED"}
        /\ ~(listener.pc = "save" /\ listener.ord = o)
      BY DEF IInv, SafeInv, TypeOK, LinkBrokerOrder, LoopInv, HandInv, MaySave
  <1>2. PICK ok \in BOOLEAN : SaveOrderState(o, loop.state, TRUE, 0, ok)
      BY DEF LinkBrokerOrder
  <1>3. loop'.pc = "accept" /\ loop'.ord = o /\ loop'.state = loop.state
      BY <1>1, ProceedType DEF LinkBrokerOrder, LoopSteps
  <1>4. UNCHANGED <<active, signals, pending, updateCh, listener, task, executed, seen,
                    verdict, sent>>
      BY DEF LinkBrokerOrder, broker
  <1>5. FreshInv' /\ RowInv' /\ UpdateInv' /\ ListenerInv'
    <2>1. /\ loop'.ord \in {o, NoOrder} /\ sent[o] > 0
          /\ loop.state \in {"SUBMITTED", "APPROVED", "FAILED", "ACCEPTED"}
        BY <1>1, <1>3
    <2> QED
        BY <1>1, <1>2, <1>4, <2>1, LoopSaveSafe
  <1>6. row'[o].status \in {"APPROVED", "SUBMITTED", "CANCELLED"}
      BY <1>1, <1>2, SaveEffect DEF IInv
  <1> HIDE DEF o
  <1>7. LoopInv'
      BY <1>1, <1>3, <1>4 DEF LoopInv
  <1>8. HandInv'
      BY <1>1, <1>3, <1>4, <1>6 DEF HandInv, BeforeSend, MaySave
  <1> QED
      BY <1>4, <1>5, <1>7, <1>8, BrokerFrame, VettedFrame DEF IInv, SafeInv

--------------------------------------------------------------------------------
(* The invariant is preserved: the broker *)

\* A price that crosses executes nothing yet.
LEMMA PriceCrossesSafe ==
  ASSUME IInv, NEW o \in Orders, PriceCrosses(o)
  PROVE  SafeInv'
  <1>1. /\ task[o] = "watch" /\ task'[o] = "triggered"
        /\ \A p \in Orders : p # o => task'[p] = task[p]
      BY DEF IInv, TypeOK, PriceCrosses
  <1>2. UNCHANGED <<row, active, signals, pending, loop, updateCh, listener, executed, seen,
                    verdict, sent>>
      BY DEF PriceCrosses, durable
  <1>3. BrokerInv'
      BY <1>1, <1>2 DEF IInv, SafeInv, BrokerInv
  <1>4. UpdateInv'
      BY <1>1, <1>2, RangeLemma DEF IInv, SafeInv, UpdateInv, TypeOK
  <1>5. ListenerInv'
      BY <1>1, <1>2 DEF IInv, SafeInv, ListenerInv, TypeOK, IdleListener
  <1> QED
      BY <1>2, <1>3, <1>4, <1>5, FreshFrame, RowFrame, LoopFrame, HandFrame, VettedFrame
      DEF IInv, SafeInv

\* An execution, simulated or live, of an order the broker has not executed.
LEMMA ExecutionSafe ==
  ASSUME IInv, NEW o \in Orders, task[o] \in {"market", "triggered", "live"},
         NEW step \in {"sending", "done"}, task' = [task EXCEPT ![o] = step],
         executed' = [executed EXCEPT ![o] = @ + Quantity[o]],
         UNCHANGED <<row, active, signals, pending, loop, updateCh, listener, seen, verdict, sent>>
  PROVE  SafeInv'
  <1>1. executed[o] = 0 /\ row[o].filled = 0 /\ sent[o] = 1
    <2>1. executed[o] = 0 /\ sent[o] = 1
        BY DEF IInv, SafeInv, BrokerInv
    <2> QED
        BY <2>1, QuantityPositive DEF IInv, SafeInv, RowInv
  <1>2. /\ executed'[o] = Quantity[o] /\ \A p \in Orders : p # o => executed'[p] = executed[p]
        /\ task'[o] = step /\ \A p \in Orders : p # o => task'[p] = task[p]
      BY <1>1, QuantityPositive DEF IInv, TypeOK
  <1>3. UNCHANGED <<row, active, signals, pending, loop, updateCh, listener, seen, verdict, sent>>
      OBVIOUS
  <1>4. task[o] \in {"market", "triggered", "live"}
      OBVIOUS
  <1>5. BrokerInv'
      BY <1>1, <1>2, <1>3, <1>4 DEF IInv, SafeInv, BrokerInv
  <1>6. RowInv'
      BY <1>1, <1>2, <1>3, QuantityPositive DEF IInv, SafeInv, RowInv
  <1>7. UpdateInv'
      BY <1>1, <1>2, <1>3, <1>4, RangeLemma DEF IInv, SafeInv, UpdateInv, TypeOK
  <1>8. ListenerInv'
      BY <1>2, <1>3, <1>4 DEF IInv, SafeInv, ListenerInv, TypeOK, IdleListener
  <1> QED
      BY <1>3, <1>5, <1>6, <1>7, <1>8, FreshFrame, LoopFrame, HandFrame, VettedFrame
      DEF IInv, SafeInv

\* The simulator executes an order it has not executed.
LEMMA SimulateFillSafe ==
  ASSUME IInv, NEW o \in Orders, SimulateFill(o)
  PROVE  SafeInv'
  BY ExecutionSafe DEF SimulateFill, durable

\* So does the live broker.
LEMMA LiveExecuteSafe ==
  ASSUME IInv, NEW o \in Orders, LiveExecute(o)
  PROVE  SafeInv'
  BY ExecutionSafe DEF LiveExecute, durable

\* The update of an execution enters the channel once.
LEMMA SendUpdateSafe ==
  ASSUME IInv, NEW o \in Orders, SendUpdate(o)
  PROVE  SafeInv'
  <1>1. /\ task[o] = "sending" /\ row[o].filled = 0 /\ executed[o] = Quantity[o]
        /\ o \notin Range(updateCh) /\ listener.ord # o /\ sent[o] # 0
      BY OrdersAssumption
      DEF IInv, SafeInv, SendUpdate, UpdateInv, BrokerInv, ListenerInv, IdleListener
  <1>2. /\ task'[o] = "done" /\ \A p \in Orders : p # o => task'[p] = task[p]
        /\ Range(updateCh') = Range(updateCh) \cup {o} /\ IsInjective(updateCh')
    <2>1. Range(updateCh') = Range(updateCh) \cup {o} /\ IsInjective(updateCh')
        BY <1>1, SendLemma DEF IInv, SafeInv, UpdateInv, TypeOK, SendUpdate
    <2> QED
        BY <2>1 DEF IInv, TypeOK, SendUpdate
  <1>3. UNCHANGED <<row, active, signals, pending, loop, listener, executed, seen, verdict, sent>>
      BY DEF SendUpdate, durable
  <1>4. BrokerInv'
      BY <1>1, <1>2, <1>3 DEF IInv, SafeInv, BrokerInv
  <1>5. UpdateInv'
      BY <1>1, <1>2, <1>3, RangeLemma DEF IInv, SafeInv, UpdateInv, TypeOK
  <1>6. ListenerInv'
      BY <1>1, <1>2, <1>3 DEF IInv, SafeInv, ListenerInv, TypeOK, IdleListener
  <1> QED
      BY <1>3, <1>4, <1>5, <1>6, FreshFrame, RowFrame, LoopFrame, HandFrame, VettedFrame
      DEF IInv, SafeInv

--------------------------------------------------------------------------------
(* The invariant is preserved: the listener *)

\* The update moves from the channel to the listener.
LEMMA ReceiveUpdateSafe ==
  ASSUME IInv, ReceiveUpdate
  PROVE  SafeInv'
  <1> DEFINE o == Head(updateCh)
  <1>1. /\ o \in Orders /\ o \in Range(updateCh)
        /\ IsInjective(updateCh') /\ Range(updateCh') = Range(updateCh) \ {o}
      BY ReceiveLemma, RangeLemma DEF IInv, SafeInv, UpdateInv, TypeOK, ReceiveUpdate
  <1>2. listener'.pc = "read" /\ listener'.ord = o
      BY DEF ReceiveUpdate, IdleListener
  <1>3. UNCHANGED <<row, active, signals, pending, loop, task, executed, seen, verdict, sent>>
      BY DEF ReceiveUpdate, durable, broker
  <1> HIDE DEF o
  <1>4. HandInv'
      BY <1>2, <1>3 DEF IInv, SafeInv, HandInv, BeforeSend, MaySave
  <1>5. UpdateInv'
      BY <1>1, <1>2, <1>3 DEF IInv, SafeInv, UpdateInv
  <1>6. ListenerInv'
      BY <1>1, <1>2, <1>3 DEF IInv, SafeInv, ListenerInv, UpdateInv
  <1> QED
      BY <1>3, <1>4, <1>5, <1>6, FreshFrame, BrokerFrame, RowFrame, LoopFrame, VettedFrame
      DEF IInv, SafeInv

\* The listener takes an update up only if the row accepts it.
LEMMA ReadOrderSafe ==
  ASSUME IInv, ReadOrder
  PROVE  SafeInv'
  <1> DEFINE o == listener.ord
             filled == row[o].filled + Quantity[o]
             status == FillState(o, filled)
  <1>1. /\ o \in Orders /\ listener.pc = "read" /\ listener \in ListenerRecord
        /\ row[o].filled = 0 /\ row[o].status # "PARTIAL_FILL"
        /\ task[o] = "done" /\ executed[o] = Quantity[o] /\ o \notin Range(updateCh)
      BY DEF IInv, SafeInv, TypeOK, ReadOrder, ListenerInv, RowInv, UpdateInv
  <1>2. filled = Quantity[o] /\ status = "FILLED"
      BY <1>1, QuantityPositive DEF FillState
  <1>3. \/ listener' = IdleListener
        \/ /\ listener' = [listener EXCEPT !.pc = "save", !.status = status, !.filled = filled]
           /\ CanTransition(row[o].status, status)
      BY DEF ReadOrder
  <1> HIDE DEF filled, status
  <1>4. \/ listener' = IdleListener
        \/ /\ listener'.pc = "save" /\ listener'.ord = o
           /\ listener'.status = "FILLED" /\ listener'.filled = Quantity[o]
           /\ row[o].status = "ACCEPTED"
    <2>1. CanTransition(row[o].status, "FILLED") => row[o].status = "ACCEPTED"
        BY <1>1 DEF CanTransition, ValidTransitions
    <2> QED
        BY <1>1, <1>2, <1>3, <2>1 DEF ListenerRecord
  <1>5. UNCHANGED <<row, active, signals, pending, loop, updateCh, task, executed, seen,
                    verdict, sent>>
      BY DEF ReadOrder, durable, broker
  <1> HIDE DEF o
  <1>6. HandInv'
      BY <1>4, <1>5 DEF IInv, SafeInv, HandInv, BeforeSend, MaySave, IdleListener
  <1>7. UpdateInv'
      BY <1>1, <1>4, <1>5, OrdersAssumption, RangeLemma
      DEF IInv, SafeInv, UpdateInv, TypeOK, IdleListener
  <1>8. ListenerInv'
      BY <1>1, <1>4, <1>5 DEF ListenerInv, IdleListener
  <1> QED
      BY <1>5, <1>6, <1>7, <1>8, FreshFrame, BrokerFrame, RowFrame, LoopFrame, VettedFrame
      DEF IInv, SafeInv

\* The listener books the whole execution, or nothing.
LEMMA SaveFillSafe ==
  ASSUME IInv, SaveFill
  PROVE  SafeInv'
  <1> DEFINE o == listener.ord
  <1>1. /\ o \in Orders /\ listener.pc = "save" /\ listener \in ListenerRecord
        /\ row[o].filled = 0 /\ row[o].status \in {"ACCEPTED", "CANCELLED"}
        /\ listener.status = "FILLED" /\ listener.filled = Quantity[o]
        /\ task[o] = "done" /\ executed[o] = Quantity[o] /\ o \notin Range(updateCh)
        /\ o \in seen /\ o \notin Range(signals) /\ sent[o] = 1
        /\ MaySave => loop.ord # o
        /\ loop.pc = "create" => loop.ord # o
      BY DEF IInv, SafeInv, TypeOK, SaveFill, ListenerInv, UpdateInv, BrokerInv, FreshInv,
             HandInv
  <1>2. PICK ok \in BOOLEAN :
          /\ SaveOrderState(o, listener.status, TRUE, listener.filled, ok)
          /\ listener' = IF ok THEN [listener EXCEPT !.pc = "log"] ELSE IdleListener
      BY DEF SaveFill
  <1>3. /\ \A p \in Orders : p # o => row'[p] = row[p]
        /\ \/ row'[o] = row[o]
           \/ row'[o].status = "FILLED" /\ row'[o].linked /\ row'[o].filled = Quantity[o]
    <2>1. /\ \A p \in Orders : p # o => row'[p] = row[p]
          /\ \/ row'[o] = row[o]
             \/ /\ row'[o].status = listener.status /\ row'[o].linked = TRUE
                /\ row'[o].filled = listener.filled
      <3>1. TypeOK /\ o \in Orders /\ SaveOrderState(o, listener.status, TRUE, listener.filled, ok)
          BY <1>1, <1>2 DEF IInv
      <3> HIDE DEF o
      <3> QED
          BY <3>1, SaveEffect
    <2> QED
        BY <1>1, <2>1
  <1>4. listener' = IdleListener \/ (listener'.pc = "log" /\ listener'.ord = o)
      BY <1>1, <1>2 DEF ListenerRecord
  <1>5. UNCHANGED <<active, signals, pending, loop, updateCh, task, executed, seen, verdict, sent>>
      BY DEF SaveFill, broker
  <1> HIDE DEF o
  <1>6. FreshInv'
      BY <1>1, <1>3, <1>5 DEF IInv, SafeInv, FreshInv
  <1>7. RowInv'
      BY <1>1, <1>3, <1>5, QuantityPositive DEF IInv, SafeInv, RowInv
  <1>8. HandInv'
    <2>1. loop.pc = "create" \/ MaySave => loop.ord \in Orders /\ row'[loop.ord] = row[loop.ord]
        BY <1>1, <1>3 DEF IInv, TypeOK, MaySave
    <2> QED
        BY <1>4, <1>5, <2>1 DEF IInv, SafeInv, HandInv, BeforeSend, MaySave, IdleListener
  <1>9. UpdateInv'
    <2>1. \A p \in Range(updateCh) : p \in Orders /\ row'[p] = row[p]
        BY <1>1, <1>3, RangeLemma DEF IInv, TypeOK
    <2> QED
        BY <1>1, <1>3, <1>4, <1>5, <2>1, OrdersAssumption DEF IInv, SafeInv, UpdateInv, IdleListener
  <1>10. ListenerInv'
      BY <1>1, <1>4, <1>5 DEF ListenerInv, IdleListener
  <1> QED
      BY <1>5, <1>6, <1>7, <1>8, <1>9, <1>10, BrokerFrame, LoopFrame, VettedFrame DEF IInv, SafeInv

\* The listener's last steps, which touch neither the row nor the channel.
LEMMA ListenerTailSafe ==
  ASSUME IInv, listener.pc \in {"log", "post"},
         listener' = IdleListener \/ listener' = [listener EXCEPT !.pc = "post"],
         UNCHANGED <<row, active, signals, pending, loop, updateCh, task, executed, seen, verdict,
                     sent>>
  PROVE  SafeInv'
  <1>1. \/ listener' = IdleListener
        \/ listener'.pc = "post" /\ listener'.ord = listener.ord
      BY DEF IInv, TypeOK, ListenerRecord
  <1>2. HandInv'
      BY <1>1 DEF IInv, SafeInv, HandInv, BeforeSend, MaySave, IdleListener
  <1>3. UpdateInv'
      BY <1>1, OrdersAssumption, RangeLemma DEF IInv, SafeInv, UpdateInv, TypeOK, IdleListener
  <1>4. ListenerInv'
      BY <1>1 DEF IInv, SafeInv, ListenerInv, IdleListener
  <1> QED
      BY <1>2, <1>3, <1>4, FreshFrame, BrokerFrame, RowFrame, LoopFrame, VettedFrame
      DEF IInv, SafeInv

\* Logging a fill moves the listener only.
LEMMA LogFillSafe ==
  ASSUME IInv, LogFill
  PROVE  SafeInv'
  BY ListenerTailSafe DEF LogFill, broker

\* Posting a fill moves the listener and the positions.
LEMMA UpdatePositionSafe ==
  ASSUME IInv, UpdatePosition
  PROVE  SafeInv'
  BY ListenerTailSafe DEF UpdatePosition, broker

--------------------------------------------------------------------------------
(* The invariant is preserved: the gateway, the gate's timer, the process *)

\* The gateway moves no row that is new or settled.
LEMMA GatewayUpdateSafe ==
  ASSUME IInv, NEW o \in Orders, NEW status \in {"CANCELLED", "APPROVED", "REJECTED"},
         GatewayUpdate(o, status)
  PROVE  SafeInv'
  <1>1. /\ row[o].status \in OrderState \ Terminal
        /\ status \in {"APPROVED", "REJECTED"} => row[o].status = "AWAITING_APPROVAL"
      BY DEF GatewayUpdate, GatewayFrom, OrderState, Terminal
  <1>2. row[o].status \notin {"NONE", "FILLED"}
      BY <1>1 DEF OrderState, Terminal
  <1>3. /\ \A p \in Orders : p # o => row'[p] = row[p]
        /\ row'[o].status = status
        /\ row'[o].linked = row[o].linked /\ row'[o].filled = row[o].filled
      BY StatusEffect DEF IInv, GatewayUpdate
  <1>4. UNCHANGED <<active, signals, pending, loop, updateCh, listener, task, executed, seen,
                    verdict, sent>>
      BY DEF GatewayUpdate, broker
  <1>5. \A p \in Orders : row'[p].filled = row[p].filled
      BY <1>3
  <1>6. FreshInv'
      BY <1>2, <1>3, <1>4 DEF IInv, SafeInv, FreshInv
  <1>7. RowInv'
      BY <1>2, <1>3, <1>4, <1>5 DEF IInv, SafeInv, RowInv
  <1>8. HandInv'
    <2>1. loop.pc # "idle" => loop.ord \in Orders
        BY DEF IInv, TypeOK
    <2>2. loop.pc = "create" => row'[loop.ord].status = "NONE"
        BY <1>2, <1>3, <2>1 DEF IInv, SafeInv, HandInv
    <2>3. MaySave => row'[loop.ord].status \in {"APPROVED", "SUBMITTED", "CANCELLED"}
        BY <1>1, <1>3, <2>1 DEF IInv, SafeInv, HandInv, MaySave
    <2> QED
        BY <1>4, <2>2, <2>3 DEF IInv, SafeInv, HandInv, BeforeSend, MaySave
  <1>9. UpdateInv'
      BY <1>4, <1>5, RangeLemma DEF IInv, SafeInv, UpdateInv, TypeOK
  <1>10. ListenerInv'
      BY <1>1, <1>3, <1>4, <1>5 DEF IInv, SafeInv, ListenerInv, TypeOK, IdleListener
  <1> QED
      BY <1>4, <1>6, <1>7, <1>8, <1>9, <1>10, BrokerFrame, LoopFrame, VettedFrame DEF IInv, SafeInv

\* The Redis key touches nothing the invariant reads.
LEMMA SetKillKeySafe ==
  ASSUME IInv, NEW on \in BOOLEAN, SetKillKey(on)
  PROVE  SafeInv'
  BY FreshFrame, BrokerFrame, RowFrame, LoopFrame, HandFrame, UpdateFrame, ListenerFrame,
     VettedFrame
  DEF IInv, SafeInv, SetKillKey, durable, broker

\* An approval that expires leaves the map and nothing else.
LEMMA ExpireApprovalSafe ==
  ASSUME IInv, NEW o \in Orders, ExpireApproval(o)
  PROVE  SafeInv'
  <1>1. FreshInv'
      BY DEF IInv, SafeInv, FreshInv, ExpireApproval, durable
  <1>2. HandInv'
      BY DEF IInv, SafeInv, HandInv, BeforeSend, MaySave, ExpireApproval, durable
  <1>3. OnlyVettedOrdersReachBroker'
      BY DEF IInv, SafeInv, OnlyVettedOrdersReachBroker, ExpireApproval
  <1> QED
      BY <1>1, <1>2, <1>3, BrokerFrame, RowFrame, LoopFrame, UpdateFrame, ListenerFrame
      DEF IInv, SafeInv, ExpireApproval, durable, broker

\* A restart empties memory; what the broker has, the broker keeps.
LEMMA RestartSafe ==
  ASSUME IInv, NEW m \in Modes, Restart(m)
  PROVE  SafeInv'
  <1>1. /\ signals' = <<>> /\ updateCh' = <<>> /\ pending' = {}
        /\ loop' = IdleLoop /\ listener' = IdleListener
        /\ UNCHANGED <<row, seen, verdict, sent, executed>>
      BY DEF Restart, durable
  <1>2. \A o \in Orders :
          \/ task'[o] = task[o] /\ task[o] \in {"live", "none"}
          \/ task'[o] = "done" /\ task[o] # "none"
    <2> SUFFICES ASSUME NEW o \in Orders
                 PROVE  \/ task'[o] = task[o] /\ task[o] \in {"live", "none"}
                        \/ task'[o] = "done" /\ task[o] # "none"
        OBVIOUS
    <2>1. task'[o] = IF task[o] \in {"live", "none"} THEN task[o] ELSE "done"
        BY DEF Restart
    <2> QED
        BY <2>1
  <1>3. FreshInv'
      BY <1>1, EmptyLemma, OrdersAssumption DEF IInv, SafeInv, FreshInv, IdleLoop
  <1>4. BrokerInv'
      BY <1>1, <1>2 DEF IInv, SafeInv, BrokerInv
  <1>5. RowInv'
      BY <1>1, RowFrame DEF IInv, SafeInv
  <1>6. LoopInv' /\ HandInv'
      BY <1>1 DEF LoopInv, HandInv, BeforeSend, MaySave, IdleLoop
  <1>7. UpdateInv'
      BY <1>1, <1>2, EmptyLemma DEF UpdateInv
  <1>8. ListenerInv'
      BY <1>1 DEF ListenerInv, IdleListener
  <1>9. OnlyVettedOrdersReachBroker'
      BY <1>1 DEF IInv, SafeInv, OnlyVettedOrdersReachBroker
  <1> QED
      BY <1>3, <1>4, <1>5, <1>6, <1>7, <1>8, <1>9 DEF SafeInv

--------------------------------------------------------------------------------
(* The invariant, and what follows from it *)

\* The invariant holds at the start.
LEMMA InvInit == Init => IInv
  <1> SUFFICES ASSUME Init PROVE IInv
      OBVIOUS
  <1>1. TypeOK
      BY TypeInit
  <1>2. FreshInv
      BY EmptyLemma, OrdersAssumption DEF Init, FreshInv, IdleLoop
  <1>3. BrokerInv /\ RowInv
      BY QuantityPositive DEF Init, BrokerInv, RowInv
  <1>4. LoopInv /\ HandInv
      BY DEF Init, LoopInv, HandInv, BeforeSend, MaySave, IdleLoop
  <1>5. UpdateInv /\ ListenerInv
      BY EmptyLemma DEF Init, UpdateInv, ListenerInv, IdleListener
  <1>6. OnlyVettedOrdersReachBroker
      BY DEF Init, OnlyVettedOrdersReachBroker
  <1> QED
      BY <1>1, <1>2, <1>3, <1>4, <1>5, <1>6 DEF IInv, SafeInv

\* Every step preserves it.
LEMMA InvStep == IInv /\ [Next]_vars => IInv'
  <1> SUFFICES ASSUME IInv, [Next]_vars PROVE IInv'
      OBVIOUS
  <1>1. TypeOK'
      BY TypeStep DEF IInv
  <1>2. CASE LoopStep
      BY <1>2, DequeueSafe, CreateOrderSafe, AddPendingApprovalSafe, CheckAllSafe,
         LoopTransitionSafe, LoopLogTransitionSafe, SubmitToPaperSafe, SubmitToAlpacaSafe,
         LinkBrokerOrderSafe, <1>1
      DEF LoopStep, IInv
  <1>3. CASE ListenerStep
      BY <1>1, <1>3, ReceiveUpdateSafe, ReadOrderSafe, SaveFillSafe, LogFillSafe,
         UpdatePositionSafe
      DEF ListenerStep, IInv
  <1>4. ASSUME NEW o \in Orders,
               \/ PublishSignal(o)
               \/ BrokerStep(o)
               \/ ExpireApproval(o)
               \/ \E status \in {"CANCELLED", "APPROVED", "REJECTED"} : GatewayUpdate(o, status)
        PROVE  IInv'
      BY <1>1, <1>4, PublishSignalSafe, PriceCrossesSafe, SimulateFillSafe, SendUpdateSafe,
         LiveExecuteSafe, ExpireApprovalSafe, GatewayUpdateSafe
      DEF BrokerStep, IInv
  <1>5. CASE \E on \in BOOLEAN : SetKillKey(on)
      BY <1>1, <1>5, SetKillKeySafe DEF IInv
  <1>6. CASE \E m \in Modes : Restart(m)
      BY <1>1, <1>6, RestartSafe DEF IInv
  <1>7. CASE UNCHANGED vars
    <2>1. SafeInv'
        BY <1>7, FreshFrame, BrokerFrame, RowFrame, LoopFrame, HandFrame, UpdateFrame,
           ListenerFrame, VettedFrame
        DEF IInv, SafeInv, vars, durable, broker
    <2> QED
        BY <1>1, <2>1 DEF IInv
  <1> QED
      BY <1>2, <1>3, <1>4, <1>5, <1>6, <1>7 DEF Next

\* IInv is an invariant: every reachable state accounts for every order, in the loop, at
\* the broker, in the update channel, at the listener and in the row.
THEOREM Invariance == Spec => []IInv
  BY InvInit, InvStep, PTL DEF Spec

\* Fills are booked whole, at most once, and only after the broker executed them, and the
\* row says FILLED exactly then (ProcessFill, SaveOrderState).
THEOREM BookedIffFilledHolds == Spec => []BookedIffFilled
  <1>1. IInv => BookedIffFilled
      BY DEF IInv, SafeInv, RowInv, BookedIffFilled
  <1> QED
      BY <1>1, Invariance, PTL

\* No order reaches the broker unvetted by the risk manager or while it waits for approval
\* (processSignals).
THEOREM OnlyVettedOrdersReachBrokerHolds == Spec => []OnlyVettedOrdersReachBroker
  <1>1. IInv => OnlyVettedOrdersReachBroker
      BY DEF IInv, SafeInv
  <1> QED
      BY <1>1, Invariance, PTL

\* A row that claims a broker's answer belongs to an order the broker was given.
THEOREM BrokerClaimsAreTrueHolds == Spec => []BrokerClaimsAreTrue
  <1>1. IInv => BrokerClaimsAreTrue
      BY DEF IInv, SafeInv, RowInv, BrokerClaimsAreTrue
  <1> QED
      BY <1>1, Invariance, PTL

--------------------------------------------------------------------------------
(* What a step does to the rows and to the broker's counts *)

Settled == {"FILLED", "REJECTED", "FAILED"}

\* Only SaveFill books, and nothing moves a settled row.
LEMMA RowEffect ==
  ASSUME IInv, Next
  PROVE  \/ SaveFill /\ UNCHANGED <<sent, executed>>
         \/ \A o \in Orders :
              /\ row'[o].filled = row[o].filled
              /\ row[o].status \in Settled => row'[o].status = row[o].status
  <1> DEFINE Keeps ==
        \A o \in Orders :
          /\ row'[o].filled = row[o].filled
          /\ row[o].status \in Settled => row'[o].status = row[o].status
  <1>1. ASSUME UNCHANGED row PROVE Keeps
      BY <1>1
  <1>2. ASSUME CreateOrder PROVE Keeps
    <2>1. /\ loop.ord \in Orders /\ row[loop.ord].status = "NONE"
          /\ row' = [row EXCEPT ![loop.ord].status = loop.state] \/ UNCHANGED row
        BY <1>2 DEF IInv, SafeInv, TypeOK, CreateOrder, HandInv
    <2> QED
        BY <1>1, <2>1, StatusEffect DEF IInv, Settled
  <1>3. ASSUME MaySave, loop.ord \in Orders, NEW status, NEW linked, NEW ok,
               SaveOrderState(loop.ord, status, linked, 0, ok)
        PROVE  Keeps
    <2> DEFINE p == loop.ord
    <2>1. row[p].status \in {"APPROVED", "SUBMITTED", "CANCELLED"} /\ row[p].filled = 0
        BY <1>3 DEF IInv, SafeInv, HandInv, RowInv
    <2>2. /\ \A o \in Orders : o # p => row'[o] = row[o]
          /\ row'[p] = row[p] \/ row'[p].filled = 0
        BY <1>3, SaveEffect DEF IInv
    <2> QED
        BY <2>1, <2>2 DEF Settled
  <1>4. ASSUME LoopTransition PROVE Keeps
    <2>1. MaySave /\ loop.ord \in Orders
        BY <1>4 DEF IInv, TypeOK, LoopTransition, MaySave
    <2>2. \/ UNCHANGED row
          \/ \E status \in OrderState, linked, ok \in BOOLEAN :
               SaveOrderState(loop.ord, status, linked, 0, ok)
        BY <1>4 DEF LoopTransition, Transition, OrderState
    <2> QED
        BY <1>1, <1>3, <2>1, <2>2
  <1>5. ASSUME LinkBrokerOrder PROVE Keeps
    <2>1. MaySave /\ loop.ord \in Orders
        BY <1>5 DEF IInv, TypeOK, LinkBrokerOrder, MaySave
    <2> QED
        BY <1>3, <1>5, <2>1 DEF LinkBrokerOrder
  <1>6. ASSUME NEW p \in Orders, NEW status \in {"CANCELLED", "APPROVED", "REJECTED"},
               GatewayUpdate(p, status)
        PROVE  Keeps
    <2>1. row[p].status \notin Settled
        BY <1>6 DEF GatewayUpdate, GatewayFrom, Settled, Terminal
    <2> QED
        BY <1>6, <2>1, StatusEffect DEF IInv, GatewayUpdate
  <1>7. SaveFill => UNCHANGED <<sent, executed>>
      BY DEF SaveFill, broker
  <1>8. UNCHANGED row \/ CreateOrder \/ LoopTransition \/ LinkBrokerOrder \/ SaveFill
        \/ \E p \in Orders, status \in {"CANCELLED", "APPROVED", "REJECTED"} :
             GatewayUpdate(p, status)
    <2>1. ASSUME NEW o \in Orders, PublishSignal(o) \/ BrokerStep(o) \/ ExpireApproval(o)
          PROVE  UNCHANGED row
        BY <2>1
        DEF PublishSignal, BrokerStep, PriceCrosses, SimulateFill, SendUpdate, LiveExecute,
            ExpireApproval, durable
    <2>2. ASSUME Dequeue \/ AddPendingApproval \/ CheckAll \/ LoopLogTransition
                 \/ SubmitToPaper \/ SubmitToAlpaca
          PROVE  UNCHANGED row
        BY <2>2
        DEF Dequeue, AddPendingApproval, CheckAll, LoopLogTransition, SubmitToPaper,
            SubmitToAlpaca, durable
    <2>3. ASSUME ReceiveUpdate \/ ReadOrder \/ LogFill \/ UpdatePosition
          PROVE  UNCHANGED row
        BY <2>3 DEF ReceiveUpdate, ReadOrder, LogFill, UpdatePosition, durable
    <2>4. ASSUME \/ \E on \in BOOLEAN : SetKillKey(on)
                 \/ \E m \in Modes : Restart(m)
          PROVE  UNCHANGED row
        BY <2>4 DEF SetKillKey, Restart, durable
    <2> QED
        BY <2>1, <2>2, <2>3, <2>4 DEF Next, LoopStep, ListenerStep
  <1> HIDE DEF Keeps
  <1>9. Keeps \/ (SaveFill /\ UNCHANGED <<sent, executed>>)
      BY <1>1, <1>2, <1>4, <1>5, <1>6, <1>7, <1>8
  <1> QED
      BY <1>9 DEF Keeps

\* Orders reach the broker in the loop's submission only, and are executed by the broker.
LEMMA BrokerEffect ==
  ASSUME Next
  PROVE  \/ UNCHANGED <<sent, executed>>
         \/ SubmitToPaper \/ SubmitToAlpaca
         \/ \E o \in Orders : SimulateFill(o) \/ LiveExecute(o)
  <1>1. ASSUME NEW o \in Orders,
               \/ PublishSignal(o) \/ PriceCrosses(o) \/ SendUpdate(o) \/ ExpireApproval(o)
               \/ \E status \in {"CANCELLED", "APPROVED", "REJECTED"} : GatewayUpdate(o, status)
        PROVE  UNCHANGED <<sent, executed>>
      BY <1>1
      DEF PublishSignal, PriceCrosses, SendUpdate, ExpireApproval, GatewayUpdate, broker
  <1>2. ASSUME Dequeue \/ CreateOrder \/ AddPendingApproval \/ CheckAll \/ LoopTransition
               \/ LoopLogTransition \/ LinkBrokerOrder
        PROVE  UNCHANGED <<sent, executed>>
      BY <1>2
      DEF Dequeue, CreateOrder, AddPendingApproval, CheckAll, LoopTransition,
          LoopLogTransition, LinkBrokerOrder, broker
  <1>3. ASSUME ListenerStep
        PROVE  UNCHANGED <<sent, executed>>
      BY <1>3
      DEF ListenerStep, ReceiveUpdate, ReadOrder, SaveFill, LogFill, UpdatePosition, broker
  <1>4. ASSUME \/ \E on \in BOOLEAN : SetKillKey(on)
               \/ \E m \in Modes : Restart(m)
        PROVE  UNCHANGED <<sent, executed>>
      BY <1>4 DEF SetKillKey, Restart, broker
  <1> QED
      BY <1>1, <1>2, <1>3, <1>4 DEF Next, LoopStep, BrokerStep

--------------------------------------------------------------------------------
(* Action properties *)

\* FILLED, REJECTED and FAILED rows are never moved again, by the loop, the listener, the
\* gateway or a restart (IsTerminal).
THEOREM SettledStaysSettledHolds == Spec => SettledStaysSettled
  <1> DEFINE Stays ==
        \A o \in Orders :
          row[o].status \in {"FILLED", "REJECTED", "FAILED"} => row'[o].status = row[o].status
  <1>1. IInv /\ [Next]_vars => [Stays]_vars
    <2> SUFFICES ASSUME IInv, Next PROVE Stays
        OBVIOUS
    <2>1. CASE SaveFill
      <3>1. /\ listener.ord \in Orders
            /\ row[listener.ord].status \in {"ACCEPTED", "CANCELLED"}
          BY <2>1 DEF IInv, SafeInv, TypeOK, ListenerInv, SaveFill
      <3>2. \A o \in Orders : o # listener.ord => row'[o] = row[o]
          BY <2>1, <3>1, SaveEffect DEF IInv, SaveFill
      <3> QED
          BY <3>1, <3>2
    <2> QED
        BY <2>1, RowEffect DEF Settled
  <1> QED
      BY <1>1, Invariance, PTL DEF Spec, SettledStaysSettled

\* A process that read the kill switch as on at its start gives the broker nothing
\* (processSignals' check of IsActive, with every step between it and SubmitOrder).
THEOREM KilledProcessSendsNothingHolds == Spec => KilledProcessSendsNothing
  <1>1. IInv /\ [Next]_vars => [active => sent' = sent]_vars
    <2> SUFFICES ASSUME IInv, Next, active PROVE sent' = sent
        OBVIOUS
    <2>1. loop.pc = "idle"
        BY DEF IInv, SafeInv, LoopInv
    <2>2. ~SubmitToPaper /\ ~SubmitToAlpaca
        BY <2>1 DEF SubmitToPaper, SubmitToAlpaca
    <2>3. \A o \in Orders : SimulateFill(o) \/ LiveExecute(o) => UNCHANGED sent
        BY DEF SimulateFill, LiveExecute
    <2> QED
        BY <2>2, <2>3, BrokerEffect
  <1> QED
      BY <1>1, Invariance, PTL DEF Spec, KilledProcessSendsNothing

--------------------------------------------------------------------------------
(* Refinement *)

\* The initial states map to the ledger's.
LEMMA LedgerInitially == Init => Ledger!LedgerInit
  BY DEF Init, Ledger!LedgerInit

\* Every step maps to a step of the ledger or changes none of its variables.
LEMMA LedgerStep ==
  ASSUME IInv, [Next]_vars
  PROVE  [Ledger!LedgerNext]_(Ledger!ledger)
  <1> DEFINE booked == [o \in Orders |-> row[o].filled]
  <1>1. SUFFICES ASSUME Next, Ledger!ledger' # Ledger!ledger
                 PROVE  Ledger!LedgerNext
      BY DEF vars, durable, broker, Ledger!ledger
  <1>2. ASSUME NEW o \in Orders, sent[o] = 0, sent' = [sent EXCEPT ![o] = @ + 1],
               UNCHANGED <<row, executed>>
        PROVE  Ledger!LedgerNext
    <2>1. sent' = [sent EXCEPT ![o] = 1]
        BY <1>2
    <2>2. booked' = booked
        BY <1>2
    <2> QED
        BY <1>2, <2>1, <2>2 DEF Ledger!LedgerNext, Ledger!Send
  <1>3. ASSUME NEW o \in Orders, task[o] \in {"market", "triggered", "live"},
               executed' = [executed EXCEPT ![o] = @ + Quantity[o]], UNCHANGED <<row, sent>>
        PROVE  Ledger!LedgerNext
    <2>1. sent[o] = 1 /\ executed[o] = 0
        BY <1>3 DEF IInv, SafeInv, BrokerInv
    <2>2. executed[o] + Quantity[o] = Quantity[o]
        BY <2>1, QuantityPositive
    <2>3. executed' = [executed EXCEPT ![o] = Quantity[o]]
        BY <1>3, <2>2
    <2>4. booked' = booked
        BY <1>3
    <2> QED
        BY <1>3, <2>1, <2>3, <2>4 DEF Ledger!LedgerNext, Ledger!Execute
  <1>4. CASE SaveFill /\ UNCHANGED <<sent, executed>>
    <2> DEFINE o == listener.ord
    <2>1. /\ o \in Orders /\ executed[o] = Quantity[o] /\ row[o].filled = 0
          /\ listener.filled = Quantity[o]
        BY <1>4 DEF IInv, SafeInv, TypeOK, ListenerInv, SaveFill
    <2>2. /\ \A p \in Orders : p # o => row'[p] = row[p]
          /\ row'[o] = row[o] \/ row'[o].filled = listener.filled
      <3>1. PICK ok \in BOOLEAN :
              SaveOrderState(o, listener.status, TRUE, listener.filled, ok)
          BY <1>4 DEF SaveFill
      <3>2. TypeOK /\ o \in Orders
          BY <2>1 DEF IInv
      <3> HIDE DEF o
      <3> QED
          BY <3>1, <3>2, SaveEffect
    <2> HIDE DEF o
    <2>3. CASE row'[o].filled = row[o].filled
      <3>1. booked' = booked
          BY <2>2, <2>3
      <3> QED
          BY <1>1, <1>4, <3>1 DEF Ledger!ledger
    <2>4. CASE row'[o].filled = Quantity[o]
      <3>1. booked' = [booked EXCEPT ![o] = Quantity[o]]
          BY <2>1, <2>2, <2>4
      <3> QED
          BY <1>4, <2>1, <3>1 DEF Ledger!LedgerNext, Ledger!Book
    <2> QED
        BY <2>1, <2>2, <2>3, <2>4
  <1>5. CASE SubmitToPaper
    <2>1. loop.pc = "send" /\ sent' = [sent EXCEPT ![loop.ord] = @ + 1]
          /\ UNCHANGED <<row, executed>>
        BY <1>5 DEF SubmitToPaper, durable
    <2> QED
        BY <1>2, <2>1, AtSend
  <1>6. CASE SubmitToAlpaca
    <2>1. /\ loop.pc = "send" /\ UNCHANGED <<row, executed>>
          /\ sent' = [sent EXCEPT ![loop.ord] = @ + 1] \/ UNCHANGED sent
        BY <1>6 DEF SubmitToAlpaca, durable
    <2>2. ~UNCHANGED sent
        BY <1>1, <2>1 DEF Ledger!ledger
    <2> QED
        BY <1>2, <2>1, <2>2, AtSend
  <1>7. ASSUME NEW o \in Orders, SimulateFill(o) \/ LiveExecute(o)
        PROVE  Ledger!LedgerNext
      BY <1>3, <1>7 DEF SimulateFill, LiveExecute, durable
  <1>8. CASE UNCHANGED <<sent, executed>>
    <2>1. CASE \A o \in Orders : row'[o].filled = row[o].filled
      <3>1. booked' = booked
          BY <2>1
      <3> QED
          BY <1>1, <1>8, <3>1 DEF Ledger!ledger
    <2> QED
        BY <1>1, <1>4, <2>1, RowEffect
  <1> QED
      BY <1>1, <1>5, <1>6, <1>7, <1>8, BrokerEffect

\* The order path implements the ledger: however its goroutines, the gateway, database
\* errors and restarts interleave, an order is handed over, executed and booked at most
\* once each, in that order, and nothing is taken back.
THEOREM ImplementsLedgerHolds == Spec => ImplementsLedger
  <1>1. IInv /\ [Next]_vars => [Ledger!LedgerNext]_(Ledger!ledger)
      BY LedgerStep
  <1> QED
      BY <1>1, LedgerInitially, Invariance, PTL DEF Spec, ImplementsLedger, Ledger!LedgerSpec
--------------------------------------------------------------------------------
(* The positions table and the simulator's map *)

\* An update is posted at most once, whole, after its goroutine is done with it and not
\* before the listener has it.
PostedInv ==
  \A o \in Orders :
    /\ posted[o] \in {0, Quantity[o]}
    /\ posted[o] > 0 => task[o] = "done" /\ executed[o] = Quantity[o]
    /\ o \in Range(updateCh) \/ listener.ord = o => posted[o] = 0

\* At most one goroutine is inside its section under ps.mu.
SenderInv ==
  \A o, p \in Orders : task[o] = "sending" /\ task[p] = "sending" => o = p

\* The order's execution has still to be posted, and may be.
OnItsWay(o) == task[o] = "sending" \/ o \in Range(updateCh) \/ listener.ord = o

\* Every execution not yet posted is on its way. Once one is not, it never is again.
NoneDropped == \A o \in Orders : executed[o] # posted[o] => OnItsWay(o)

Books == [Symbols -> Nat]

\* The positions table shows the book: one row for each symbol held, none for the others.
Shows(book) ==
  \A s \in Symbols :
    IF book[s] = 0 THEN OpenRows(s) = {}
    ELSE \E o \in Orders : OpenRows(s) = {o} /\ position[o] = book[s]

\* The books between the table and the simulator's map: the update the listener holds
\* leads from the table to h[0], each update in the channel from h[i - 1] to h[i], and
\* the update being sent from the last of them to simPosition.
Leads(book, h) ==
  /\ h[0] = IF listener.ord \in Orders THEN ApplyFill(book, listener.ord) ELSE book
  /\ \A i \in 1..Len(updateCh) : h[i] = ApplyFill(h[i - 1], updateCh[i])
  /\ \A o \in Orders : task[o] = "sending" => simPosition = ApplyFill(h[Len(updateCh)], o)
  /\ MutexFree => simPosition = h[Len(updateCh)]

\* While nothing was dropped, the updates on their way lead from the table to the map.
BookInv ==
  restarts = 0 /\ faults = 0 /\ NoneDropped =>
    \E book \in Books, h \in [0..Len(updateCh) -> Books] : Shows(book) /\ Leads(book, h)

PositionsInv == IInv /\ PostedInv /\ SenderInv /\ BookInv

--------------------------------------------------------------------------------
(* The positions: what a step can do to them *)

\* The table, the map and the updates between them are left where they are.
BookKept ==
  /\ UNCHANGED <<position, posted, simPosition, updateCh, executed>>
  /\ \A o \in Orders :
       \/ task'[o] = task[o]
       \/ task[o] \notin {"sending", "done"} /\ task'[o] \notin {"sending", "done"}
  /\ restarts' = restarts /\ faults' >= faults

\* Most steps touch none of them, or take the update the listener holds out of the way.
LEMMA BookEffect ==
  ASSUME IInv, [Next]_vars
  PROVE  \/ BookKept /\ listener'.ord \in {listener.ord, NoOrder}
         \/ ReceiveUpdate \/ UpdatePosition
         \/ \E o \in Orders : SimulateFill(o) \/ SendUpdate(o) \/ LiveExecute(o)
         \/ \E m \in Modes : Restart(m)
  <1> DEFINE Kept == BookKept /\ listener'.ord \in {listener.ord, NoOrder}
  <1>1. faults \in Nat /\ listener \in ListenerRecord
      BY DEF IInv, TypeOK
  <1>2. ASSUME UNCHANGED <<position, posted, simPosition, updateCh, executed, task, bounds,
                           listener>>
        PROVE  Kept
      BY <1>1, <1>2 DEF BookKept, bounds
  <1>3. ASSUME NEW ok, DbReturns(ok) PROVE restarts' = restarts /\ faults' >= faults
      BY <1>1, <1>3 DEF DbReturns
  <1>4. ASSUME NEW o \in Orders,
               \/ PublishSignal(o) \/ ExpireApproval(o)
               \/ \E status \in {"CANCELLED", "APPROVED", "REJECTED"} : GatewayUpdate(o, status)
        PROVE  Kept
      BY <1>2, <1>4 DEF PublishSignal, ExpireApproval, GatewayUpdate, durable, broker
  <1>5. ASSUME NEW o \in Orders, PriceCrosses(o) PROVE Kept
    <2>1. /\ UNCHANGED <<position, posted, simPosition, updateCh, executed, bounds, listener>>
          /\ task' = [task EXCEPT ![o] = "triggered"] /\ task[o] = "watch"
        BY <1>5 DEF PriceCrosses, durable
    <2> QED
        BY <1>1, <2>1 DEF BookKept, bounds, IInv, TypeOK
  <1>6. ASSUME Dequeue \/ AddPendingApproval \/ CheckAll PROVE Kept
      BY <1>2, <1>6 DEF Dequeue, AddPendingApproval, CheckAll, durable, broker
  <1>7. ASSUME CreateOrder \/ LoopTransition \/ LinkBrokerOrder \/ LoopLogTransition PROVE Kept
    <2>1. UNCHANGED <<position, posted, simPosition, updateCh, executed, task, listener>>
        BY <1>7 DEF CreateOrder, LoopTransition, LinkBrokerOrder, LoopLogTransition, broker
    <2>2. restarts' = restarts /\ faults' >= faults
      <3>1. (\E ok \in BOOLEAN : DbReturns(ok)) \/ UNCHANGED bounds
          BY <1>7, Zenon
          DEF CreateOrder, LoopTransition, LinkBrokerOrder, LoopLogTransition, Transition,
              SaveOrderState, LogStateTransition
      <3> QED
          BY <1>1, <1>3, <3>1 DEF bounds
    <2> QED
        BY <2>1, <2>2 DEF BookKept
  <1>8. ASSUME SubmitToPaper \/ SubmitToAlpaca PROVE Kept
    <2>1. /\ UNCHANGED <<position, posted, simPosition, updateCh, executed, bounds, listener>>
          /\ loop.pc = "send"
          /\ \/ UNCHANGED task
             \/ \E t \in {"market", "watch", "live"} : task' = [task EXCEPT ![loop.ord] = t]
        BY <1>8 DEF SubmitToPaper, SubmitToAlpaca, durable
    <2>2. loop.ord \in Orders /\ task[loop.ord] = "none"
        BY <2>1 DEF IInv, SafeInv, TypeOK, HandInv, BeforeSend, BrokerInv
    <2> QED
        BY <1>1, <2>1, <2>2 DEF BookKept, bounds, IInv, TypeOK
  <1>9. ASSUME ReadOrder \/ SaveFill \/ LogFill PROVE Kept
    <2>1. UNCHANGED <<position, posted, simPosition, updateCh, executed, task>>
        BY <1>9 DEF ReadOrder, SaveFill, LogFill, broker, durable
    <2>2. restarts' = restarts /\ faults' >= faults
      <3>1. \E ok \in BOOLEAN : DbReturns(ok)
          BY <1>9, Zenon DEF ReadOrder, SaveFill, LogFill, SaveOrderState, LogStateTransition
      <3> QED
          BY <1>3, <3>1
    <2>3. listener'.ord \in {listener.ord, NoOrder}
      <3>1. IdleListener.ord = NoOrder
          BY DEF IdleListener
      <3>2. CASE ReadOrder
          BY <1>1, <3>1, <3>2 DEF ReadOrder, ListenerRecord
      <3>3. CASE SaveFill \/ LogFill
          BY <1>1, <3>1, <3>3 DEF SaveFill, LogFill, ListenerRecord
      <3> QED
          BY <1>9, <3>2, <3>3
    <2> QED
        BY <2>1, <2>2, <2>3 DEF BookKept
  <1>10. ASSUME (\E on \in BOOLEAN : SetKillKey(on)) \/ UNCHANGED vars PROVE Kept
      BY <1>2, <1>10 DEF SetKillKey, vars, durable, broker
  <1> QED
      BY <1>4, <1>5, <1>6, <1>7, <1>8, <1>9, <1>10
      DEF Next, LoopStep, ListenerStep, BrokerStep

--------------------------------------------------------------------------------
(* The positions: nothing is posted twice, and one goroutine at a time sends *)

LEMMA NoOrderApart == NoOrder \notin Orders
  BY OrdersAssumption

\* An update is posted whole, once.
LEMMA PostedStep ==
  ASSUME IInv, PostedInv, [Next]_vars
  PROVE  PostedInv'
  <1>1. \A o \in Orders : Quantity[o] \in Nat /\ Quantity[o] > 0
      BY QuantityPositive
  <1>2. CASE BookKept /\ listener'.ord \in {listener.ord, NoOrder}
      BY <1>2, NoOrderApart DEF PostedInv, BookKept
  <1>3. CASE ReceiveUpdate
    <2>1. /\ updateCh \in Seq(Orders) /\ updateCh # <<>> /\ IsInjective(updateCh)
        BY <1>3 DEF IInv, SafeInv, TypeOK, UpdateInv, ReceiveUpdate
    <2>2. /\ Head(updateCh) \in Range(updateCh)
          /\ Range(Tail(updateCh)) = Range(updateCh) \ {Head(updateCh)}
        BY <2>1, ReceiveLemma
    <2>3. /\ listener'.ord = Head(updateCh) /\ updateCh' = Tail(updateCh)
          /\ UNCHANGED <<task, executed, posted>>
        BY <1>3 DEF ReceiveUpdate, IdleListener, broker
    <2> QED
        BY <2>2, <2>3 DEF PostedInv
  <1>4. CASE UpdatePosition
    <2> DEFINE o == listener.ord
    <2>1. o \in Orders /\ task[o] = "done" /\ executed[o] = Quantity[o] /\ posted[o] = 0
        BY <1>4 DEF IInv, SafeInv, TypeOK, ListenerInv, UpdatePosition, PostedInv
    <2>2. o \notin Range(updateCh)
        BY <2>1 DEF IInv, SafeInv, UpdateInv
    <2>3. /\ UNCHANGED <<task, executed, updateCh>> /\ listener'.ord = NoOrder
          /\ UNCHANGED posted \/ posted' = [posted EXCEPT ![o] = @ + Quantity[o]]
        BY <1>4 DEF UpdatePosition, IdleListener, broker
    <2>4. posted \in [Orders -> Nat]
        BY DEF IInv, TypeOK
    <2> HIDE DEF o
    <2>5. \A p \in Orders : posted'[p] = posted[p] \/ (p = o /\ posted'[p] = Quantity[o])
        BY <1>1, <2>1, <2>3, <2>4
    <2> QED
        BY <1>1, <2>1, <2>2, <2>3, <2>5, NoOrderApart DEF PostedInv
  <1>5. ASSUME NEW o \in Orders, SimulateFill(o) \/ LiveExecute(o)
        PROVE  PostedInv'
    <2>1. /\ task[o] # "done" /\ UNCHANGED <<posted, updateCh, listener>>
          /\ \A p \in Orders : p # o => task'[p] = task[p] /\ executed'[p] = executed[p]
        BY <1>5 DEF SimulateFill, LiveExecute, IInv, TypeOK
    <2>2. posted \in [Orders -> Nat]
        BY DEF IInv, TypeOK
    <2> QED
        BY <2>1, <2>2 DEF PostedInv
  <1>6. ASSUME NEW o \in Orders, SendUpdate(o)
        PROVE  PostedInv'
    <2>1. /\ task[o] = "sending" /\ updateCh' = Append(updateCh, o)
          /\ UNCHANGED <<posted, executed, listener>>
          /\ \A p \in Orders : p # o => task'[p] = task[p]
        BY <1>6 DEF SendUpdate, IInv, TypeOK
    <2>2. Range(updateCh') = Range(updateCh) \cup {o}
      <3>1. updateCh \in Seq(Orders) /\ IsInjective(updateCh) /\ o \notin Range(updateCh)
          BY <2>1 DEF IInv, SafeInv, TypeOK, UpdateInv
      <3> QED
          BY <2>1, <3>1, SendLemma
    <2>3. posted[o] = 0 /\ posted \in [Orders -> Nat]
      <3>1. posted \in [Orders -> Nat]
          BY DEF IInv, TypeOK
      <3>2. ~(posted[o] > 0)
          BY <2>1 DEF PostedInv
      <3> QED
          BY <3>1, <3>2
    <2> QED
        BY <2>1, <2>2, <2>3 DEF PostedInv
  <1>7. ASSUME NEW m \in Modes, Restart(m)
        PROVE  PostedInv'
    <2>1. /\ updateCh' = <<>> /\ listener'.ord = NoOrder /\ UNCHANGED <<posted, executed>>
          /\ \A o \in Orders : task[o] = "done" => task'[o] = "done"
        BY <1>7 DEF Restart, IdleListener
    <2> QED
        BY <2>1, NoOrderApart, EmptyLemma DEF PostedInv
  <1> QED
      BY <1>2, <1>3, <1>4, <1>5, <1>6, <1>7, BookEffect

\* processFill takes ps.mu before it becomes the sender.
LEMMA SenderStep ==
  ASSUME IInv, SenderInv, [Next]_vars
  PROVE  SenderInv'
  <1>1. CASE BookKept
      BY <1>1 DEF BookKept, SenderInv
  <1>2. CASE ReceiveUpdate \/ UpdatePosition
      BY <1>2 DEF ReceiveUpdate, UpdatePosition, broker, SenderInv
  <1>3. ASSUME NEW o \in Orders, SimulateFill(o) \/ SendUpdate(o) \/ LiveExecute(o)
        PROVE  SenderInv'
      BY <1>3 DEF SimulateFill, SendUpdate, LiveExecute, MutexFree, SenderInv, IInv, TypeOK
  <1>4. ASSUME NEW m \in Modes, Restart(m)
        PROVE  SenderInv'
      BY <1>4 DEF Restart, SenderInv
  <1> QED
      BY <1>1, <1>2, <1>3, <1>4, BookEffect

\* An execution that was dropped is never posted: its goroutine is done and its update is
\* nowhere.
LEMMA DroppedStaysDropped ==
  ASSUME IInv, PostedInv, [Next]_vars, NoneDropped', restarts' = 0
  PROVE  NoneDropped
  <1> SUFFICES ASSUME NEW o \in Orders, executed[o] # posted[o], ~OnItsWay(o)
               PROVE  FALSE
      BY DEF NoneDropped
  <1>1. /\ task[o] = "done" /\ executed[o] = Quantity[o] /\ posted[o] = 0
        /\ o \notin Range(updateCh) /\ listener.ord # o
    <2>1. /\ executed[o] \in {0, Quantity[o]}
          /\ task[o] \in {"none", "market", "watch", "triggered", "live"} => executed[o] = 0
          /\ task[o] \in TaskSteps /\ Quantity[o] > 0 /\ Quantity[o] \in Nat
        BY QuantityPositive DEF IInv, SafeInv, TypeOK, BrokerInv
    <2>2. posted[o] \in {0, Quantity[o]} /\ (posted[o] > 0 => executed[o] = Quantity[o])
        BY DEF PostedInv
    <2> QED
        BY <2>1, <2>2 DEF OnItsWay, TaskSteps
  <1> SUFFICES /\ task'[o] = "done" /\ executed'[o] = executed[o] /\ posted'[o] = posted[o]
               /\ o \notin Range(updateCh') /\ listener'.ord # o
      BY <1>1 DEF NoneDropped, OnItsWay
  <1>2. CASE BookKept /\ listener'.ord \in {listener.ord, NoOrder}
      BY <1>1, <1>2, NoOrderApart DEF BookKept
  <1>3. CASE ReceiveUpdate
    <2>1. /\ updateCh \in Seq(Orders) /\ updateCh # <<>> /\ IsInjective(updateCh)
        BY <1>3 DEF IInv, SafeInv, TypeOK, UpdateInv, ReceiveUpdate
    <2>2. /\ Head(updateCh) \in Range(updateCh)
          /\ Range(Tail(updateCh)) = Range(updateCh) \ {Head(updateCh)}
        BY <2>1, ReceiveLemma
    <2>3. /\ listener'.ord = Head(updateCh) /\ updateCh' = Tail(updateCh)
          /\ UNCHANGED <<task, executed, posted>>
        BY <1>3 DEF ReceiveUpdate, IdleListener, broker
    <2> QED
        BY <1>1, <2>2, <2>3
  <1>4. CASE UpdatePosition
    <2>1. /\ UNCHANGED <<task, executed, updateCh>> /\ listener'.ord = NoOrder
          /\ \/ UNCHANGED posted
             \/ posted' = [posted EXCEPT ![listener.ord] = @ + Quantity[listener.ord]]
        BY <1>4 DEF UpdatePosition, IdleListener, broker
    <2> QED
        BY <1>1, <2>1, NoOrderApart DEF IInv, TypeOK
  <1>5. ASSUME NEW p \in Orders, SimulateFill(p) \/ LiveExecute(p)
        PROVE  /\ task'[o] = "done" /\ executed'[o] = executed[o] /\ posted'[o] = posted[o]
               /\ o \notin Range(updateCh') /\ listener'.ord # o
      BY <1>1, <1>5 DEF SimulateFill, LiveExecute, IInv, TypeOK
  <1>6. ASSUME NEW p \in Orders, SendUpdate(p)
        PROVE  /\ task'[o] = "done" /\ executed'[o] = executed[o] /\ posted'[o] = posted[o]
               /\ o \notin Range(updateCh') /\ listener'.ord # o
    <2>1. /\ updateCh' = Append(updateCh, p) /\ p # o
          /\ updateCh \in Seq(Orders) /\ IsInjective(updateCh) /\ p \notin Range(updateCh)
        BY <1>1, <1>6 DEF IInv, SafeInv, TypeOK, UpdateInv, SendUpdate
    <2>2. o \notin Range(updateCh')
        BY <1>1, <2>1, SendLemma
    <2> QED
        BY <1>1, <1>6, <2>1, <2>2 DEF SendUpdate, IInv, TypeOK
  <1>7. ~ \E m \in Modes : Restart(m)
      BY DEF Restart, IInv, TypeOK
  <1> QED
      BY <1>2, <1>3, <1>4, <1>5, <1>6, <1>7, BookEffect

--------------------------------------------------------------------------------
(* The positions: the table follows the simulator *)

\* A fill is posted to the one row of its symbol the way the simulator's map took it.
LEMMA PostFillShows ==
  ASSUME TypeOK, NEW book \in Books, Shows(book), NEW o \in Orders,
         PostFill(o, OpenRows(SymbolOf[o]) # {})
  PROVE  Shows(ApplyFill(book, o))'
  <1> DEFINE t == SymbolOf[o]
             next == ApplyFill(book, o)
  <1>1. /\ t \in Symbols /\ Quantity[o] \in Nat /\ Quantity[o] > 0
        /\ SideOf[o] \in {"buy", "sell"} /\ position \in [Orders -> Nat]
        /\ book[t] \in Nat
      BY OrdersAssumption DEF TypeOK, Books
  <1>2. /\ next \in Books
        /\ \A s \in Symbols : s # t => next[s] = book[s]
        /\ next[t] = IF SideOf[o] = "buy" THEN book[t] + Quantity[o]
                     ELSE IF book[t] > Quantity[o] THEN book[t] - Quantity[o] ELSE 0
      BY <1>1, ApplyFillType DEF Books, ApplyFill
  <1> HIDE DEF next
  <1>3. IF book[t] = 0 THEN OpenRows(t) = {}
        ELSE \E p \in Orders : OpenRows(t) = {p} /\ position[p] = book[t]
      BY <1>1 DEF Shows
  <1>4. CASE UNCHANGED position /\ next[t] = book[t]
    <2>1. \A s \in Symbols : next[s] = book[s]
        BY <1>2, <1>4
    <2> QED
        BY <1>4, <2>1 DEF Shows, OpenRows, next
  <1>5. ASSUME NEW p \in Orders, SymbolOf[p] = t, OpenRows(t) \subseteq {p},
               position' = [position EXCEPT ![p] = next[t]]
        PROVE  Shows(next)'
    <2>1. next[t] \in Nat
        BY <1>1, <1>2 DEF Books
    <2>2. /\ position'[p] = next[t]
          /\ \A q \in Orders : q # p => position'[q] = position[q]
        BY <1>1, <1>5
    <2>3. \A s \in Symbols : s # t => OpenRows(s)' = OpenRows(s) /\ p \notin OpenRows(s)
        BY <1>5, <2>2 DEF OpenRows
    <2>4. OpenRows(t)' = IF next[t] = 0 THEN {} ELSE {p}
        BY <1>1, <1>5, <2>1, <2>2 DEF OpenRows
    <2>5. ASSUME NEW s \in Symbols
          PROVE  IF next[s] = 0 THEN OpenRows(s)' = {}
                 ELSE \E q \in Orders : OpenRows(s)' = {q} /\ position'[q] = next[s]
      <3>1. CASE s = t
          BY <2>2, <2>4, <3>1
      <3>2. CASE s # t
        <4>1. /\ next[s] = book[s] /\ OpenRows(s)' = OpenRows(s)
              /\ \A q \in OpenRows(s) : position'[q] = position[q]
            BY <1>2, <2>2, <2>3, <3>2 DEF OpenRows
        <4> QED
            BY <4>1 DEF Shows
      <3> QED
          BY <3>1, <3>2
    <2> QED
        BY <2>5 DEF Shows, next
  <1>6. CASE OpenRows(t) # {}
    <2>1. PICK p \in OpenRows(t) :
            position' = [position EXCEPT ![p] = IF SideOf[o] = "buy" THEN @ + Quantity[o]
                                                ELSE IF @ > Quantity[o] THEN @ - Quantity[o]
                                                ELSE 0]
        BY <1>6 DEF PostFill
    <2>2. p \in Orders /\ SymbolOf[p] = t /\ OpenRows(t) = {p} /\ position[p] = book[t]
        BY <1>3, <1>6, <2>1 DEF OpenRows
    <2>3. position' = [position EXCEPT ![p] = next[t]]
        BY <1>1, <1>2, <2>1, <2>2
    <2> QED
        BY <1>5, <2>2, <2>3 DEF next
  <1>7. CASE OpenRows(t) = {}
    <2>1. book[t] = 0
        BY <1>3, <1>7
    <2>2. CASE SideOf[o] = "buy"
      <3>1. position' = [position EXCEPT ![o] = next[t]]
          BY <1>1, <1>2, <1>7, <2>1, <2>2 DEF PostFill
      <3> QED
          BY <1>5, <1>7, <3>1 DEF next
    <2>3. CASE SideOf[o] = "sell"
      <3>1. UNCHANGED position /\ next[t] = book[t]
          BY <1>1, <1>2, <1>7, <2>1, <2>3 DEF PostFill
      <3> QED
          BY <1>4, <3>1 DEF next
    <2> QED
        BY <1>1, <2>2, <2>3
  <1> QED
      BY <1>6, <1>7

\* The simulator's map, the channel and the listener keep the table's lead.
LEMMA BookStep ==
  ASSUME PositionsInv, [Next]_vars
  PROVE  BookInv'
  <1> SUFFICES ASSUME restarts' = 0, faults' = 0, NoneDropped'
               PROVE  \E book \in Books, h \in [0..Len(updateCh') -> Books] :
                        Shows(book)' /\ Leads(book, h)'
      BY DEF BookInv
  <1>1. /\ faults \in Nat /\ restarts \in Nat
        /\ updateCh \in Seq(Orders) /\ Len(updateCh) \in Nat
        /\ simPosition \in Books /\ task \in [Orders -> TaskSteps]
      BY LenProperties DEF PositionsInv, IInv, TypeOK, Books
  <1>2. NoneDropped /\ restarts = 0 /\ faults = 0
    <2>1. NoneDropped
        BY DroppedStaysDropped DEF PositionsInv
    <2>2. CASE BookKept
        BY <1>1, <2>1, <2>2 DEF BookKept
    <2>3. CASE ReceiveUpdate
        BY <2>1, <2>3 DEF ReceiveUpdate, bounds
    <2>4. CASE UpdatePosition
        BY <1>1, <2>1, <2>4 DEF UpdatePosition, DbReturns
    <2>5. CASE \E o \in Orders : SimulateFill(o) \/ SendUpdate(o) \/ LiveExecute(o)
        BY <2>1, <2>5 DEF SimulateFill, SendUpdate, LiveExecute, bounds
    <2>6. CASE \E m \in Modes : Restart(m)
        BY <1>1, <2>6 DEF Restart
    <2> QED
        BY <2>2, <2>3, <2>4, <2>5, <2>6, BookEffect DEF PositionsInv
  <1>3. PICK book \in Books, h \in [0..Len(updateCh) -> Books] : Shows(book) /\ Leads(book, h)
      BY <1>2 DEF PositionsInv, BookInv
  <1>4. \A o \in Orders : ApplyFill(simPosition, o) \in Books
      BY <1>1, ApplyFillType DEF Books
  <1>5. CASE BookKept /\ listener'.ord \in {listener.ord, NoOrder}
    <2>1. listener'.ord = listener.ord
      <3>1. SUFFICES ASSUME listener.ord \in Orders, listener'.ord = NoOrder
                     PROVE  FALSE
        <4>1. listener.ord \in Orders \cup {NoOrder}
            BY DEF PositionsInv, IInv, TypeOK, ListenerRecord
        <4> QED
            BY <1>5, <4>1, <3>1
      <3> DEFINE o == listener.ord
      <3>2. task[o] = "done" /\ executed[o] = Quantity[o] /\ o \notin Range(updateCh)
        <4>1. listener.pc # "idle"
            BY <3>1, NoOrderApart DEF PositionsInv, IInv, SafeInv, ListenerInv, IdleListener
        <4> QED
            BY <3>1, <4>1 DEF PositionsInv, IInv, SafeInv, ListenerInv, UpdateInv
      <3>3. executed[o] # posted[o]
          BY <3>1, <3>2, QuantityPositive DEF PositionsInv, PostedInv
      <3> QED
          BY <1>5, <3>1, <3>2, <3>3, NoOrderApart DEF BookKept, NoneDropped, OnItsWay
    <2>2. \A o \in Orders : task'[o] = "sending" <=> task[o] = "sending"
        BY <1>5 DEF BookKept
    <2>3. Leads(book, h)'
        BY <1>3, <1>5, <2>1, <2>2 DEF BookKept, Leads, MutexFree
    <2>4. Shows(book)'
        BY <1>3, <1>5 DEF BookKept, Shows, OpenRows
    <2> QED
        BY <1>5, <2>3, <2>4 DEF BookKept
  <1>6. CASE ReceiveUpdate
    <2>1. /\ updateCh # <<>> /\ updateCh' = Tail(updateCh)
          /\ listener.ord = NoOrder /\ listener'.ord = Head(updateCh)
          /\ UNCHANGED <<position, task, simPosition>>
        BY <1>6
        DEF ReceiveUpdate, durable, broker, IdleListener, PositionsInv, IInv, SafeInv,
            ListenerInv
    <2>2. /\ Len(updateCh) > 0 /\ Len(updateCh') = Len(updateCh) - 1
          /\ \A i \in 1..(Len(updateCh) - 1) : updateCh'[i] = updateCh[i + 1]
          /\ Head(updateCh) = updateCh[1] /\ updateCh[1] \in Orders
      <3>1. /\ Len(updateCh') = Len(updateCh) - 1
            /\ \A i \in 1..Len(updateCh') : updateCh'[i] = updateCh[i + 1]
          BY <1>1, <2>1, HeadTailProperties
      <3>2. Len(updateCh) # 0
          BY <1>1, <2>1, EmptySeq
      <3> QED
          BY <1>1, <3>1, <3>2, <2>1
    <2>3. PICK g \in [0..Len(updateCh') -> Books] :
            g = [i \in 0..(Len(updateCh) - 1) |-> h[i + 1]]
      <3>1. 0..Len(updateCh') = 0..(Len(updateCh) - 1)
          BY <2>2
      <3>2. \A i \in 0..(Len(updateCh) - 1) : h[i + 1] \in Books
          BY <1>1, <1>3
      <3>3. [i \in 0..(Len(updateCh) - 1) |-> h[i + 1]] \in [0..Len(updateCh') -> Books]
          BY <3>1, <3>2
      <3> QED
          BY <3>3, Zenon
    <2>4. /\ h[0] = book
          /\ \A i \in 1..Len(updateCh) : h[i] = ApplyFill(h[i - 1], updateCh[i])
          /\ \A o \in Orders : task[o] = "sending" => simPosition = ApplyFill(h[Len(updateCh)], o)
          /\ MutexFree => simPosition = h[Len(updateCh)]
        BY <1>3, <2>1, NoOrderApart DEF Leads
    <2>5. g[0] = ApplyFill(book, listener'.ord) /\ listener'.ord \in Orders
        BY <1>1, <2>1, <2>2, <2>3, <2>4
    <2>6. ASSUME NEW i \in 1..Len(updateCh')
          PROVE  g[i] = ApplyFill(g[i - 1], updateCh'[i])
      <3>1. /\ i + 1 \in 1..Len(updateCh) /\ (i + 1) - 1 = i
            /\ g[i] = h[i + 1] /\ g[i - 1] = h[i] /\ updateCh'[i] = updateCh[i + 1]
          BY <1>1, <2>2, <2>3
      <3>2. h[i + 1] = ApplyFill(h[(i + 1) - 1], updateCh[i + 1])
          BY <2>4, <3>1
      <3> QED
          BY <3>1, <3>2
    <2>7. g[Len(updateCh')] = h[Len(updateCh)]
        BY <1>1, <2>2, <2>3
    <2>8. Leads(book, g)'
        BY <2>1, <2>4, <2>5, <2>6, <2>7 DEF Leads, MutexFree
    <2>9. Shows(book)'
        BY <1>3, <2>1 DEF Shows, OpenRows
    <2> QED
        BY <2>8, <2>9
  <1>7. CASE UpdatePosition
    <2>1. PICK o \in Orders :
            /\ listener.ord = o /\ listener'.ord = NoOrder
            /\ UNCHANGED <<updateCh, task, simPosition>>
            /\ PostFill(o, OpenRows(SymbolOf[o]) # {})
      <3>1. listener.ord \in Orders
          BY <1>7 DEF UpdatePosition, PositionsInv, IInv, TypeOK
      <3>2. PostFill(listener.ord, OpenRows(SymbolOf[listener.ord]) # {})
        <4>1. PICK ok \in BOOLEAN :
                /\ DbReturns(ok)
                /\ ok => PostFill(listener.ord, OpenRows(SymbolOf[listener.ord]) # {})
            BY <1>7, Zenon DEF UpdatePosition
        <4>2. ok
            BY <1>2, <4>1 DEF DbReturns
        <4> QED
            BY <4>1, <4>2
      <3>3. listener'.ord = NoOrder /\ UNCHANGED <<updateCh, task, simPosition>>
          BY <1>7 DEF UpdatePosition, IdleListener, broker
      <3> QED
          BY <3>1, <3>2, <3>3, Zenon
    <2> DEFINE next == ApplyFill(book, o)
    <2>2. Shows(next)'
        BY <1>3, <2>1, PostFillShows DEF PositionsInv, IInv
    <2>3. next \in Books
        BY <2>1, ApplyFillType DEF Books
    <2>4. Leads(next, h)'
        BY <1>3, <2>1, NoOrderApart DEF Leads, MutexFree
    <2> HIDE DEF next
    <2> QED
        BY <2>1, <2>2, <2>3, <2>4
  <1>8. ASSUME NEW o \in Orders, SimulateFill(o)
        PROVE  \E b \in Books, g \in [0..Len(updateCh') -> Books] : Shows(b)' /\ Leads(b, g)'
    <2>1. /\ UNCHANGED <<position, updateCh, listener>> /\ MutexFree
          /\ simPosition' = ApplyFill(simPosition, o)
          /\ task'[o] = "sending" /\ \A p \in Orders : p # o => task'[p] = task[p]
        BY <1>1, <1>8 DEF SimulateFill, durable
    <2>2. Leads(book, h)'
        BY <1>3, <2>1 DEF Leads, MutexFree
    <2>3. Shows(book)'
        BY <1>3, <2>1 DEF Shows, OpenRows
    <2> QED
        BY <2>1, <2>2, <2>3
  <1>9. ASSUME NEW o \in Orders, SendUpdate(o)
        PROVE  \E b \in Books, g \in [0..Len(updateCh') -> Books] : Shows(b)' /\ Leads(b, g)'
    <2> DEFINE n == Len(updateCh)
    <2>1. /\ UNCHANGED <<position, listener, simPosition>>
          /\ task[o] = "sending" /\ task'[o] = "done"
          /\ \A p \in Orders : p # o => task'[p] = task[p]
          /\ updateCh' = Append(updateCh, o)
        BY <1>1, <1>9 DEF SendUpdate, durable
    <2>2. /\ Len(updateCh') = n + 1 /\ updateCh'[n + 1] = o
          /\ \A i \in 1..n : updateCh'[i] = updateCh[i]
        BY <1>1, <2>1, AppendProperties
    <2>3. PICK g \in [0..Len(updateCh') -> Books] :
            g = [i \in 0..(n + 1) |-> IF i = n + 1 THEN simPosition ELSE h[i]]
      <3>1. \A i \in 0..(n + 1) : (IF i = n + 1 THEN simPosition ELSE h[i]) \in Books
          BY <1>1, <1>3
      <3>2. [i \in 0..(n + 1) |-> IF i = n + 1 THEN simPosition ELSE h[i]]
              \in [0..Len(updateCh') -> Books]
          BY <2>2, <3>1
      <3> QED
          BY <3>2, Zenon
    <2>4. MutexFree' /\ simPosition = ApplyFill(h[n], o)
      <3>1. simPosition = ApplyFill(h[n], o)
          BY <1>3, <2>1 DEF Leads
      <3> QED
          BY <2>1, <3>1 DEF MutexFree, PositionsInv, SenderInv
    <2>5. /\ g[0] = h[0] /\ g[n + 1] = simPosition /\ \A i \in 0..n : g[i] = h[i]
        BY <1>1, <2>3
    <2>6. ASSUME NEW i \in 1..Len(updateCh')
          PROVE  g[i] = ApplyFill(g[i - 1], updateCh'[i])
      <3>1. CASE i = n + 1
        <4>1. g[i] = simPosition /\ g[i - 1] = h[n] /\ updateCh'[i] = o
            BY <1>1, <2>2, <2>5, <3>1
        <4> QED
            BY <2>4, <4>1
      <3>2. CASE i # n + 1
        <4>1. /\ i \in 1..n /\ g[i] = h[i] /\ g[i - 1] = h[i - 1]
              /\ updateCh'[i] = updateCh[i]
            BY <1>1, <2>2, <2>5, <3>2
        <4> QED
            BY <1>3, <4>1 DEF Leads
      <3> QED
          BY <3>1, <3>2
    <2>7. Leads(book, g)'
      <3>1. g[0] = IF listener'.ord \in Orders THEN ApplyFill(book, listener'.ord) ELSE book
          BY <1>3, <2>1, <2>5 DEF Leads
      <3>2. simPosition' = g[Len(updateCh')]
          BY <2>1, <2>2, <2>5
      <3> QED
          BY <2>4, <2>6, <3>1, <3>2 DEF Leads, MutexFree
    <2>8. Shows(book)'
        BY <1>3, <2>1 DEF Shows, OpenRows
    <2> QED
        BY <2>7, <2>8
  <1>10. ~ \E o \in Orders : LiveExecute(o)
    <2> SUFFICES ASSUME NEW o \in Orders, LiveExecute(o) PROVE FALSE
        OBVIOUS
    <2>1. /\ task[o] = "live" /\ task'[o] = "done" /\ UNCHANGED <<updateCh, listener, posted>>
          /\ executed'[o] = executed[o] + Quantity[o]
        BY <1>1 DEF LiveExecute, PositionsInv, IInv, TypeOK
    <2>2. executed[o] = 0 /\ posted[o] = 0 /\ o \notin Range(updateCh) /\ listener.ord # o
      <3>1. executed[o] = 0 /\ o \notin Range(updateCh)
          BY <2>1 DEF PositionsInv, IInv, SafeInv, BrokerInv, UpdateInv
      <3>2. listener.ord # o
          BY <2>1, NoOrderApart
          DEF PositionsInv, IInv, SafeInv, ListenerInv, IdleListener
      <3>3. posted[o] \in Nat /\ ~(posted[o] > 0)
          BY <2>1 DEF PositionsInv, IInv, TypeOK, PostedInv
      <3> QED
          BY <3>1, <3>2, <3>3
    <2>3. executed'[o] # posted'[o]
        BY <2>1, <2>2, QuantityPositive
    <2> QED
        BY <2>1, <2>2, <2>3 DEF NoneDropped, OnItsWay
  <1>11. ~ \E m \in Modes : Restart(m)
      BY <1>1 DEF Restart
  <1> QED
      BY <1>5, <1>6, <1>7, <1>8, <1>9, <1>10, <1>11, BookEffect DEF PositionsInv

\* At the start the table and the map are empty and nothing is on its way.
LEMMA PositionsInit == Init => PositionsInv
  <1> SUFFICES ASSUME Init PROVE PositionsInv
      OBVIOUS
  <1>1. IInv
      BY InvInit
  <1>2. PostedInv /\ SenderInv
      BY EmptyLemma, QuantityPositive DEF Init, PostedInv, SenderInv
  <1>3. BookInv
    <2> DEFINE empty == [s \in Symbols |-> 0]
               h == [i \in 0..0 |-> empty]
    <2>1. /\ empty \in Books /\ Len(updateCh) = 0
          /\ simPosition = empty /\ listener.ord = NoOrder
          /\ \A o \in Orders : task[o] = "none" /\ position[o] = 0
        BY DEF Init, Books, IdleListener
    <2>2. h \in [0..Len(updateCh) -> Books] /\ h[0] = empty
        BY <2>1
    <2>3. \A s \in Symbols : empty[s] = 0
        OBVIOUS
    <2> HIDE DEF empty, h
    <2>4. Shows(empty)
        BY <2>1, <2>3 DEF Shows, OpenRows
    <2>5. Leads(empty, h)
        BY <2>1, <2>2, NoOrderApart DEF Leads, MutexFree
    <2> QED
        BY <2>1, <2>2, <2>4, <2>5 DEF BookInv
  <1> QED
      BY <1>1, <1>2, <1>3 DEF PositionsInv

\* PositionsInv is an invariant: each execution is posted at most once and whole, one
\* goroutine at a time is inside processFill's section, and until an update is dropped
\* those on their way lead from the positions table to the simulator's map, in the order
\* of the channel.
THEOREM PositionsInvariance == Spec => []PositionsInv
  <1>1. PositionsInv /\ [Next]_vars => PositionsInv'
      BY InvStep, PostedStep, SenderStep, BookStep DEF PositionsInv
  <1> QED
      BY <1>1, PositionsInit, PTL DEF Spec

\* Once every execution has been posted, with no failed statement and no restart, the
\* positions table and the simulator's map agree: the listener applied every fill in the
\* order the simulator did, though a sell of more than is held is clipped.
THEOREM BookMatchesSimulatorHolds == Spec => []BookMatchesSimulator
  <1>1. PositionsInv => BookMatchesSimulator
    <2> SUFFICES ASSUME PositionsInv, restarts = 0, faults = 0, executed = posted
                 PROVE  Shows(simPosition)
        BY DEF BookMatchesSimulator, Shows
    <2>1. PICK book \in Books, h \in [0..Len(updateCh) -> Books] :
            Shows(book) /\ Leads(book, h)
        BY DEF PositionsInv, BookInv, NoneDropped
    <2>2. \A o \in Orders : ~OnItsWay(o)
      <3> SUFFICES ASSUME NEW o \in Orders, OnItsWay(o) PROVE FALSE
          OBVIOUS
      <3>1. executed[o] = Quantity[o]
          BY NoOrderApart
          DEF OnItsWay, PositionsInv, IInv, SafeInv, BrokerInv, UpdateInv, ListenerInv,
              IdleListener
      <3>2. ~(posted[o] > 0)
          BY DEF OnItsWay, PositionsInv, PostedInv
      <3> QED
          BY <3>1, <3>2, QuantityPositive
    <2>3. updateCh = <<>> /\ Len(updateCh) = 0
      <3>1. updateCh \in Seq(Orders)
          BY DEF PositionsInv, IInv, TypeOK
      <3>2. ASSUME updateCh # <<>> PROVE FALSE
        <4>1. Head(updateCh) \in Range(updateCh) /\ Range(updateCh) \subseteq Orders
            BY <3>1, <3>2, ReceiveLemma, RangeLemma DEF PositionsInv, IInv, SafeInv, UpdateInv
        <4> QED
            BY <2>2, <4>1 DEF OnItsWay
      <3> QED
          BY <3>2
    <2>4. simPosition = book
        BY <2>1, <2>2, <2>3 DEF Leads, MutexFree, OnItsWay
    <2> QED
        BY <2>1, <2>4
  <1> QED
      BY <1>1, PositionsInvariance, PTL

--------------------------------------------------------------------------------
(* The statuses a row goes through, and what the state log says of them *)

\* Where a row departs from ValidTransitions: it is inserted; the gateway cancels an
\* approved order and rejects one that awaits approval; the loop saves the broker id with
\* an older status; and a save of the loop or the listener writes over a cancellation.
Departures ==
  ({"NONE"} \X {"APPROVED", "AWAITING_APPROVAL"})
  \cup {<<"APPROVED", "CANCELLED">>, <<"AWAITING_APPROVAL", "REJECTED">>}
  \cup {<<"SUBMITTED", "APPROVED">>}
  \cup ({"CANCELLED"} \X {"APPROVED", "SUBMITTED", "ACCEPTED", "FAILED", "FILLED"})

RowEdges == ValidTransitions \cup Departures

\* Every change of a row's status is an edge of the table or one of the departures.
RowsMoveAlongEdges ==
  [][\A o \in Orders :
       row'[o].status # row[o].status => <<row[o].status, row'[o].status>> \in RowEdges]_vars

\* What the state log says has happened: a row logged as FILLED or FAILED is that now, one
\* logged as ACCEPTED carries its broker id.
LoggedIsTrue(o) ==
  /\ <<o, "FILLED">> \in stateLog => row[o].status = "FILLED"
  /\ <<o, "FAILED">> \in stateLog => row[o].status = "FAILED"
  /\ <<o, "ACCEPTED">> \in stateLog => row[o].linked

LogIsTrue == \A o \in Orders : LoggedIsTrue(o)

\* How the order in the loop's hand and its row may differ.
HandRow ==
  /\ loop.pc \in {"check", "reject", "submit"} => row[loop.ord].status # "SUBMITTED"
  /\ MaySave /\ loop.state = "SUBMITTED" => row[loop.ord].status # "APPROVED"
  /\ loop.pc = "fail" => ~row[loop.ord].linked

\* No row is PENDING: the loop saves the first status with the insertion.
EdgeInv == HandRow /\ \A o \in Orders : row[o].status # "PENDING"

\* What is about to be logged was saved.
LoopLogInv ==
  loop.pc = "log" =>
    /\ loop.state \in {"SUBMITTED", "ACCEPTED", "FAILED"}
    /\ loop.state = "FAILED" => row[loop.ord].status = "FAILED"
    /\ loop.state = "ACCEPTED" => row[loop.ord].linked

ListenerLogInv ==
  listener.pc \in {"log", "post"} =>
    listener.status = "FILLED" /\ row[listener.ord].status = "FILLED"

LogInv == LoopLogInv /\ ListenerLogInv

RowsInv == IInv /\ EdgeInv /\ LogInv /\ LogIsTrue

\* What a row keeps in a step: its broker id, and a settled status; and where it may go.
RowMoves(o) ==
  /\ row[o].linked => row'[o].linked
  /\ row[o].status \in Settled => row'[o].status = row[o].status
  /\ row'[o].status # row[o].status => <<row[o].status, row'[o].status>> \in RowEdges

\* The edges by their ends.
LEMMA EdgeLemma ==
  /\ \A s \in {"APPROVED", "AWAITING_APPROVAL"} : <<"NONE", s>> \in RowEdges
  /\ \A s \in {"APPROVED", "SUBMITTED", "ACCEPTED", "FAILED", "FILLED"} :
       <<"CANCELLED", s>> \in RowEdges
  /\ \A s \in {"APPROVED", "AWAITING_APPROVAL", "SUBMITTED", "ACCEPTED", "PARTIAL_FILL"} :
       <<s, "CANCELLED">> \in RowEdges
  /\ \A s \in {"APPROVED", "REJECTED"} : <<"AWAITING_APPROVAL", s>> \in RowEdges
  /\ \A s \in {"APPROVED", "ACCEPTED", "FAILED"} : <<"SUBMITTED", s>> \in RowEdges
  /\ \A s \in {"SUBMITTED", "FAILED"} : <<"APPROVED", s>> \in RowEdges
  /\ <<"ACCEPTED", "FILLED">> \in RowEdges
  /\ \A s : <<s, "PENDING">> \notin RowEdges
  BY DEF RowEdges, Departures, ValidTransitions

\* What Transition does when the loop calls it, from each place.
LEMMA LoopTransitionEffect ==
  ASSUME IInv, LoopTransition
  PROVE  /\ loop.ord \in Orders /\ MaySave
         /\ \A p \in Orders : p # loop.ord => row'[p] = row[p]
         /\ \/ UNCHANGED row /\ loop' = IdleLoop
            \/ \E status \in {"SUBMITTED", "FAILED", "ACCEPTED"} :
                 LET r == row[loop.ord]
                     r2 == row'[loop.ord]
                 IN /\ \/ status = "SUBMITTED" /\ loop.pc = "submit" /\ ~r2.linked
                       \/ status = "FAILED" /\ loop.pc = "fail"
                       \/ status = "ACCEPTED" /\ loop.pc = "accept" /\ loop.state = "SUBMITTED"
                    /\ r2 = r \/ (r2.status = status /\ r2.linked = (status = "ACCEPTED"))
                    /\ \/ loop' = IdleLoop
                       \/ /\ loop'.pc = "log" /\ loop'.ord = loop.ord /\ loop'.state = status
                          /\ loop'.then = IF status = "SUBMITTED" THEN "send" ELSE "idle"
                          /\ r2.status = status /\ r2.linked = (status = "ACCEPTED")
                       \/ /\ status = "SUBMITTED" /\ loop'.pc = "send" /\ loop'.ord = loop.ord
                          /\ loop'.state = loop.state
  <1> DEFINE o == loop.ord
             Wrote(status, linked, next) ==
               /\ \A p \in Orders : p # o => row'[p] = row[p]
               /\ \/ row'[o] = row[o]
                  \/ row'[o].status = status /\ row'[o].linked = linked
               /\ \/ loop' = Proceed(next)
                  \/ /\ loop'.pc = "log" /\ loop'.ord = o /\ loop'.state = status
                     /\ loop'.then = next
                     /\ row'[o].status = status /\ row'[o].linked = linked
  <1>1. /\ o \in Orders /\ MaySave /\ loop \in LoopRecord
        /\ loop.pc \in {"reject", "submit"} => loop.state = "APPROVED"
        /\ loop.pc \in {"fail", "accept"} => loop.state \in {"APPROVED", "SUBMITTED"}
        /\ BeforeSend => ~row[o].linked
    <2>1. /\ o \in Orders /\ MaySave /\ loop \in LoopRecord
          /\ loop.pc \in {"reject", "submit"} => loop.state = "APPROVED"
          /\ loop.pc \in {"fail", "accept"} => loop.state \in {"APPROVED", "SUBMITTED"}
          /\ BeforeSend => sent[o] = 0
        BY DEF IInv, SafeInv, TypeOK, LoopTransition, HandInv, MaySave, LoopInv
    <2>2. row[o].linked => sent[o] > 0
        BY <2>1 DEF IInv, SafeInv, RowInv
    <2> QED
        BY <2>1, <2>2
  <1>2. Proceed("idle") = IdleLoop
      BY DEF Proceed
  <1>3. /\ Proceed("send").pc = "send" /\ Proceed("send").ord = o
        /\ Proceed("send").state = loop.state
      BY <1>1, ProceedType DEF LoopSteps
  <1>4. ASSUME NEW status \in {"SUBMITTED", "FAILED", "ACCEPTED"}, NEW linked \in BOOLEAN,
               NEW next \in {"send", "idle"}, Transition(status, linked, next),
               CanTransition(loop.state, status)
        PROVE  Wrote(status, linked, next)
    <2>1. PICK ok \in BOOLEAN :
            /\ SaveOrderState(o, status, linked, 0, ok)
            /\ loop' = IF ok THEN [loop EXCEPT !.pc = "log", !.state = status, !.then = next]
                       ELSE Proceed(next)
        BY <1>4 DEF Transition
    <2>2. /\ \A p \in Orders : p # o => row'[p] = row[p]
          /\ \/ row'[o] = row[o]
             \/ row'[o].status = status /\ row'[o].linked = linked
        BY <1>1, <2>1, SaveEffect DEF IInv
    <2>3. ok => row'[o].status = status /\ row'[o].linked = linked
      <3>1. ok => row' = [row EXCEPT ![o] = [status |-> status, linked |-> linked, filled |-> 0]]
          BY <2>1 DEF SaveOrderState
      <3>2. row \in [Orders -> RowRecord]
          BY DEF IInv, TypeOK
      <3> QED
          BY <1>1, <3>1, <3>2
    <2>4. ok => /\ loop'.pc = "log" /\ loop'.ord = o /\ loop'.state = status
                /\ loop'.then = next
        BY <1>1, <2>1 DEF LoopRecord
    <2> HIDE DEF o
    <2> QED
        BY <2>1, <2>2, <2>3, <2>4
  <1>5. CASE loop.pc = "reject"
    <2>1. Transition("REJECTED", FALSE, "idle") /\ ~CanTransition(loop.state, "REJECTED")
        BY <1>1, <1>5 DEF LoopTransition, CanTransition, ValidTransitions
    <2> QED
        BY <1>1, <1>2, <2>1 DEF Transition
  <1>6. CASE loop.pc = "submit"
    <2>1. Transition("SUBMITTED", FALSE, "send") /\ CanTransition(loop.state, "SUBMITTED")
        BY <1>1, <1>6 DEF LoopTransition, CanTransition, ValidTransitions
    <2>2. Wrote("SUBMITTED", FALSE, "send") /\ ~row[o].linked
        BY <1>1, <1>4, <1>6, <2>1 DEF BeforeSend
    <2> QED
        BY <1>1, <1>3, <1>6, <2>2
  <1>7. CASE loop.pc = "fail"
    <2>1. Transition("FAILED", FALSE, "idle") /\ CanTransition(loop.state, "FAILED")
        BY <1>1, <1>7 DEF LoopTransition, CanTransition, ValidTransitions
    <2>2. Wrote("FAILED", FALSE, "idle")
        BY <1>1, <1>4, <1>7, <2>1
    <2> QED
        BY <1>1, <1>2, <1>7, <2>2
  <1>8. CASE loop.pc = "accept"
    <2>1. Transition("ACCEPTED", TRUE, "idle")
        BY <1>8 DEF LoopTransition
    <2>2. CASE CanTransition(loop.state, "ACCEPTED")
      <3>1. Wrote("ACCEPTED", TRUE, "idle")
          BY <1>4, <2>1, <2>2
      <3>2. loop.state = "SUBMITTED"
          BY <1>1, <1>8, <2>2 DEF CanTransition, ValidTransitions
      <3> QED
          BY <1>1, <1>2, <1>8, <3>1, <3>2
    <2>3. CASE ~CanTransition(loop.state, "ACCEPTED")
        BY <1>1, <1>2, <2>1, <2>3 DEF Transition
    <2> QED
        BY <2>2, <2>3
  <1> QED
      BY <1>5, <1>6, <1>7, <1>8 DEF LoopTransition

\* The loop's save of the broker id writes the status the order has in memory.
LEMMA LinkEffect ==
  ASSUME IInv, LinkBrokerOrder
  PROVE  /\ loop.ord \in Orders /\ loop.pc = "link" /\ MaySave
         /\ loop.state \in {"APPROVED", "SUBMITTED"}
         /\ \A p \in Orders : p # loop.ord => row'[p] = row[p]
         /\ \/ row'[loop.ord] = row[loop.ord]
            \/ row'[loop.ord].status = loop.state /\ row'[loop.ord].linked
         /\ loop'.pc = "accept" /\ loop'.ord = loop.ord /\ loop'.state = loop.state
  <1>1. /\ loop.ord \in Orders /\ loop.pc = "link" /\ MaySave /\ loop \in LoopRecord
        /\ loop.state \in {"APPROVED", "SUBMITTED"} /\ loop' = Proceed("accept")
      BY DEF IInv, SafeInv, TypeOK, LinkBrokerOrder, LoopInv, MaySave
  <1>2. /\ \A p \in Orders : p # loop.ord => row'[p] = row[p]
        /\ \/ row'[loop.ord] = row[loop.ord]
           \/ row'[loop.ord].status = loop.state /\ row'[loop.ord].linked
      BY <1>1, SaveEffect DEF IInv, LinkBrokerOrder
  <1>3. /\ loop'.pc = "accept" /\ loop'.ord = loop.ord /\ loop'.state = loop.state
      BY <1>1, ProceedType DEF LoopSteps
  <1> QED
      BY <1>1, <1>2, <1>3

\* The insertion gives a row that was none the status the gate chose.
LEMMA CreateEffect ==
  ASSUME IInv, CreateOrder
  PROVE  /\ loop.ord \in Orders /\ row[loop.ord].status = "NONE"
         /\ loop.state \in {"APPROVED", "AWAITING_APPROVAL"}
         /\ \A p \in Orders : p # loop.ord => row'[p] = row[p]
         /\ row'[loop.ord].linked = row[loop.ord].linked
         /\ row'[loop.ord].status \in {"NONE", loop.state}
         /\ \/ loop'.pc \in {"idle", "park"}
            \/ /\ loop'.pc = "check" /\ loop'.ord = loop.ord /\ loop'.state = "APPROVED"
               /\ row'[loop.ord].status = "APPROVED"
  <1>1. /\ loop.ord \in Orders /\ row[loop.ord].status = "NONE" /\ loop \in LoopRecord
        /\ loop.state \in {"APPROVED", "AWAITING_APPROVAL"}
      BY DEF IInv, SafeInv, TypeOK, CreateOrder, HandInv, LoopInv
  <1>2. PICK ok \in BOOLEAN :
          /\ row' = [row EXCEPT ![loop.ord].status = loop.state] \/ (~ok /\ UNCHANGED row)
          /\ loop' = Proceed(IF ~ok THEN "idle"
                             ELSE IF loop.state = "AWAITING_APPROVAL" THEN "park" ELSE "check")
      BY Zenon DEF CreateOrder
  <1>3. /\ \A p \in Orders : p # loop.ord => row'[p] = row[p]
        /\ row'[loop.ord].linked = row[loop.ord].linked
        /\ \/ row'[loop.ord].status = loop.state
           \/ ~ok /\ row'[loop.ord].status = "NONE"
      BY <1>1, <1>2, StatusEffect DEF IInv
  <1>4. /\ Proceed("idle").pc = "idle" /\ Proceed("park").pc = "park"
        /\ Proceed("check").pc = "check" /\ Proceed("check").ord = loop.ord
        /\ Proceed("check").state = loop.state
      BY <1>1, ProceedType DEF LoopSteps
  <1> QED
      BY <1>1, <1>2, <1>3, <1>4

\* The listener's save books a row that was accepted or cancelled.
LEMMA SaveFillEffect ==
  ASSUME IInv, SaveFill
  PROVE  /\ listener.ord \in Orders /\ row[listener.ord].status \in {"ACCEPTED", "CANCELLED"}
         /\ \A p \in Orders : p # listener.ord => row'[p] = row[p]
         /\ \/ row'[listener.ord] = row[listener.ord]
            \/ row'[listener.ord].status = "FILLED" /\ row'[listener.ord].linked
         /\ \/ listener'.pc = "idle"
            \/ /\ listener'.pc = "log" /\ listener'.ord = listener.ord
               /\ listener'.status = "FILLED" /\ row'[listener.ord].status = "FILLED"
         /\ MaySave => loop.ord # listener.ord
  <1> DEFINE o == listener.ord
  <1>1. /\ o \in Orders /\ listener.pc = "save" /\ listener.status = "FILLED"
        /\ row[o].status \in {"ACCEPTED", "CANCELLED"} /\ listener \in ListenerRecord
        /\ MaySave => loop.ord # o
      BY DEF IInv, SafeInv, TypeOK, SaveFill, ListenerInv, HandInv
  <1>2. PICK ok \in BOOLEAN :
          /\ SaveOrderState(o, "FILLED", TRUE, listener.filled, ok)
          /\ listener' = IF ok THEN [listener EXCEPT !.pc = "log"] ELSE IdleListener
      BY <1>1 DEF SaveFill
  <1>3. /\ \A p \in Orders : p # o => row'[p] = row[p]
        /\ row'[o] = row[o] \/ (row'[o].status = "FILLED" /\ row'[o].linked)
      BY <1>1, <1>2, SaveEffect DEF IInv
  <1>4. ok => row'[o].status = "FILLED"
    <2>1. ok => row' = [row EXCEPT ![o] = [status |-> "FILLED", linked |-> TRUE,
                                           filled |-> listener.filled]]
        BY <1>2 DEF SaveOrderState
    <2>2. row \in [Orders -> RowRecord]
        BY DEF IInv, TypeOK
    <2> QED
        BY <1>1, <2>1, <2>2
  <1>5. /\ ok => listener'.pc = "log" /\ listener'.ord = o /\ listener'.status = "FILLED"
        /\ ~ok => listener'.pc = "idle"
      BY <1>1, <1>2 DEF ListenerRecord, IdleListener
  <1> HIDE DEF o
  <1>6. listener'.pc = "idle"
        \/ (listener'.pc = "log" /\ listener'.ord = o /\ listener'.status = "FILLED"
            /\ row'[o].status = "FILLED")
      BY <1>4, <1>5
  <1> QED
      BY <1>1, <1>3, <1>6 DEF o

\* The gateway's UPDATE moves a row along the edges its WHERE allows.
LEMMA GatewayEffect ==
  ASSUME IInv, NEW p \in Orders, NEW status \in {"CANCELLED", "APPROVED", "REJECTED"},
         GatewayUpdate(p, status)
  PROVE  /\ \A q \in Orders : q # p => row'[q] = row[q]
         /\ row'[p].linked = row[p].linked /\ row'[p].status = status
         /\ row[p].status \in OrderState \ Terminal
         /\ status \in {"APPROVED", "REJECTED"} => row[p].status = "AWAITING_APPROVAL"
  <1>1. row[p].status \in GatewayFrom[status] /\ row' = [row EXCEPT ![p].status = status]
      BY DEF GatewayUpdate
  <1>2. /\ row[p].status \in OrderState \ Terminal
        /\ status \in {"APPROVED", "REJECTED"} => row[p].status = "AWAITING_APPROVAL"
      BY <1>1 DEF GatewayFrom, OrderState, Terminal
  <1> QED
      BY <1>1, <1>2, StatusEffect DEF IInv

\* The steps that write a row.
LEMMA RowWriters ==
  ASSUME Next
  PROVE  \/ UNCHANGED row
         \/ (CreateOrder \/ LoopTransition \/ LinkBrokerOrder) /\ UNCHANGED <<stateLog, listener>>
         \/ SaveFill /\ UNCHANGED <<stateLog, loop>>
         \/ \E p \in Orders, status \in {"CANCELLED", "APPROVED", "REJECTED"} :
              GatewayUpdate(p, status) /\ UNCHANGED <<stateLog, loop, listener>>
  <1>1. ASSUME NEW o \in Orders, PublishSignal(o) \/ BrokerStep(o) \/ ExpireApproval(o)
        PROVE  UNCHANGED row
      BY <1>1
      DEF PublishSignal, BrokerStep, PriceCrosses, SimulateFill, SendUpdate, LiveExecute,
          ExpireApproval, durable
  <1>2. ASSUME Dequeue \/ AddPendingApproval \/ CheckAll \/ LoopLogTransition
               \/ SubmitToPaper \/ SubmitToAlpaca
        PROVE  UNCHANGED row
      BY <1>2
      DEF Dequeue, AddPendingApproval, CheckAll, LoopLogTransition, SubmitToPaper,
          SubmitToAlpaca, durable
  <1>3. ASSUME ReceiveUpdate \/ ReadOrder \/ LogFill \/ UpdatePosition
        PROVE  UNCHANGED row
      BY <1>3 DEF ReceiveUpdate, ReadOrder, LogFill, UpdatePosition, durable
  <1>4. ASSUME \/ \E on \in BOOLEAN : SetKillKey(on)
               \/ \E m \in Modes : Restart(m)
        PROVE  UNCHANGED row
      BY <1>4 DEF SetKillKey, Restart, durable
  <1>5. CreateOrder \/ LoopTransition \/ LinkBrokerOrder => UNCHANGED <<stateLog, listener>>
      BY DEF CreateOrder, LoopTransition, LinkBrokerOrder
  <1>6. SaveFill => UNCHANGED <<stateLog, loop>>
      BY DEF SaveFill
  <1>7. \A p \in Orders, status \in {"CANCELLED", "APPROVED", "REJECTED"} :
          GatewayUpdate(p, status) => UNCHANGED <<stateLog, loop, listener>>
      BY DEF GatewayUpdate
  <1> QED
      BY <1>1, <1>2, <1>3, <1>4, <1>5, <1>6, <1>7 DEF Next, LoopStep, ListenerStep

\* Every step moves every row along the edges, and keeps what a row keeps.
LEMMA RowStep ==
  ASSUME IInv, EdgeInv, Next
  PROVE  \A o \in Orders : RowMoves(o)
  <1>1. ASSUME NEW o \in Orders, row'[o] = row[o]
        PROVE  RowMoves(o)
      BY <1>1 DEF RowMoves
  <1>2. ASSUME NEW o \in Orders, row[o].linked => row'[o].linked, row[o].status \notin Settled,
               \/ row'[o].status = row[o].status
               \/ <<row[o].status, row'[o].status>> \in RowEdges
        PROVE  RowMoves(o)
      BY <1>2 DEF RowMoves
  <1>3. CASE CreateOrder
    <2>1. RowMoves(loop.ord)
        BY <1>2, <1>3, CreateEffect, EdgeLemma DEF Settled
    <2> QED
        BY <1>1, <1>3, <2>1, CreateEffect
  <1>4. CASE LoopTransition
    <2> DEFINE o == loop.ord
    <2>1. /\ o \in Orders /\ MaySave /\ \A p \in Orders : p # o => row'[p] = row[p]
          /\ row[o].status \in {"APPROVED", "SUBMITTED", "CANCELLED"}
        BY <1>4, LoopTransitionEffect DEF IInv, SafeInv, HandInv
    <2>2. row[o].status \notin Settled
        BY <2>1 DEF Settled
    <2>3. CASE UNCHANGED row
        BY <1>1, <2>3
    <2>4. ASSUME NEW status \in {"SUBMITTED", "FAILED", "ACCEPTED"},
                 row'[o] = row[o] \/ (row'[o].status = status
                                      /\ row'[o].linked = (status = "ACCEPTED")),
                 \/ status = "SUBMITTED" /\ loop.pc = "submit" /\ ~row'[o].linked
                 \/ status = "FAILED" /\ loop.pc = "fail"
                 \/ status = "ACCEPTED" /\ loop.pc = "accept" /\ loop.state = "SUBMITTED"
          PROVE  RowMoves(o)
      <3>1. CASE row'[o] = row[o]
          BY <1>1, <2>1, <3>1
      <3>2. CASE status = "SUBMITTED" /\ loop.pc = "submit" /\ row'[o].status = status
        <4>1. row[o].status \in {"APPROVED", "CANCELLED"}
            BY <2>1, <3>2 DEF EdgeInv, HandRow
        <4>2. ~row[o].linked
          <5>1. sent[o] = 0
              BY <3>2 DEF IInv, SafeInv, HandInv, BeforeSend
          <5> QED
              BY <2>1, <5>1 DEF IInv, SafeInv, RowInv
        <4> QED
            BY <1>2, <2>1, <2>2, <3>2, <4>1, <4>2, EdgeLemma
      <3>3. CASE status = "FAILED" /\ loop.pc = "fail" /\ row'[o].status = status
        <4>1. ~row[o].linked
            BY <3>3 DEF EdgeInv, HandRow
        <4>2. <<row[o].status, "FAILED">> \in RowEdges
            BY <2>1, EdgeLemma
        <4> QED
            BY <1>2, <2>1, <2>2, <3>3, <4>1, <4>2
      <3>4. CASE /\ status = "ACCEPTED" /\ loop.state = "SUBMITTED" /\ row'[o].status = status
                 /\ row'[o].linked
        <4>1. row[o].status \in {"SUBMITTED", "CANCELLED"}
            BY <2>1, <3>4 DEF EdgeInv, HandRow
        <4> QED
            BY <1>2, <2>1, <2>2, <3>4, <4>1, EdgeLemma
      <3> QED
          BY <2>4, <3>1, <3>2, <3>3, <3>4
    <2>5. RowMoves(o)
        BY <1>4, <2>3, <2>4, LoopTransitionEffect, <2>1
    <2> QED
        BY <1>1, <2>1, <2>5
  <1>5. CASE LinkBrokerOrder
    <2> DEFINE o == loop.ord
    <2>1. /\ o \in Orders /\ loop.state \in {"APPROVED", "SUBMITTED"}
          /\ \A p \in Orders : p # o => row'[p] = row[p]
          /\ row'[o] = row[o] \/ (row'[o].status = loop.state /\ row'[o].linked)
          /\ row[o].status \in {"APPROVED", "SUBMITTED", "CANCELLED"}
          /\ loop.state = "SUBMITTED" => row[o].status # "APPROVED"
        BY <1>5, LinkEffect DEF IInv, SafeInv, HandInv, EdgeInv, HandRow
    <2>2. \/ row'[o].status = row[o].status
          \/ <<row[o].status, row'[o].status>> \in RowEdges
        BY <2>1, EdgeLemma
    <2>3. RowMoves(o)
        BY <1>2, <2>1, <2>2 DEF Settled
    <2> QED
        BY <1>1, <2>1, <2>3
  <1>6. CASE SaveFill
    <2> DEFINE o == listener.ord
    <2>1. /\ o \in Orders /\ row[o].status \in {"ACCEPTED", "CANCELLED"}
          /\ \A p \in Orders : p # o => row'[p] = row[p]
          /\ row'[o] = row[o] \/ (row'[o].status = "FILLED" /\ row'[o].linked)
        BY <1>6, SaveFillEffect
    <2>2. \/ row'[o].status = row[o].status
          \/ <<row[o].status, row'[o].status>> \in RowEdges
        BY <2>1, EdgeLemma
    <2>3. RowMoves(o)
        BY <1>2, <2>1, <2>2 DEF Settled
    <2> QED
        BY <1>1, <2>1, <2>3
  <1>7. ASSUME NEW p \in Orders, NEW status \in {"CANCELLED", "APPROVED", "REJECTED"},
               GatewayUpdate(p, status)
        PROVE  \A o \in Orders : RowMoves(o)
    <2>1. /\ \A q \in Orders : q # p => row'[q] = row[q]
          /\ row'[p].linked = row[p].linked /\ row'[p].status = status
          /\ row[p].status \in OrderState \ Terminal
          /\ status \in {"APPROVED", "REJECTED"} => row[p].status = "AWAITING_APPROVAL"
          /\ row[p].status # "PENDING"
        BY <1>7, GatewayEffect DEF EdgeInv, HandRow
    <2>2. /\ row[p].status \notin Settled
          /\ row[p].status \in {"APPROVED", "AWAITING_APPROVAL", "SUBMITTED", "ACCEPTED",
                                "PARTIAL_FILL"}
        BY <2>1 DEF OrderState, Terminal, Settled
    <2>3. <<row[p].status, row'[p].status>> \in RowEdges
        BY <2>1, <2>2, EdgeLemma
    <2>4. RowMoves(p)
        BY <1>2, <2>1, <2>2, <2>3
    <2> QED
        BY <1>1, <2>1, <2>4
  <1> QED
      BY <1>1, <1>3, <1>4, <1>5, <1>6, <1>7, RowWriters

\* No step writes PENDING, and what the loop has in memory and its row differ as EdgeInv
\* says.
LEMMA EdgeStep ==
  ASSUME IInv, EdgeInv, [Next]_vars
  PROVE  EdgeInv'
  <1>1. \A o \in Orders : row'[o].status # "PENDING"
    <2>1. CASE Next
        BY <2>1, RowStep, EdgeLemma DEF EdgeInv, RowMoves
    <2>2. CASE UNCHANGED vars
        BY <2>2 DEF EdgeInv, vars, durable
    <2> QED
        BY <2>1, <2>2
  <1> SUFFICES HandRow'
      BY <1>1 DEF EdgeInv
  <1>2. ASSUME UNCHANGED <<row, loop>> PROVE HandRow'
      BY <1>2 DEF EdgeInv, HandRow, MaySave
  <1>3. ASSUME loop'.pc \in {"idle", "create", "park"} PROVE HandRow'
      BY <1>3 DEF HandRow, MaySave
  <1>4. CASE CreateOrder
      BY <1>3, <1>4, CreateEffect DEF HandRow, MaySave
  <1>5. CASE LoopTransition
    <2>1. CASE loop' = IdleLoop
        BY <1>3, <2>1 DEF IdleLoop
    <2>2. CASE loop'.pc = "log" /\ row'[loop'.ord].status \in {"SUBMITTED", "FAILED", "ACCEPTED"}
        BY <2>2 DEF HandRow, MaySave
    <2>3. CASE loop'.pc = "send" /\ loop'.state = loop.state /\ loop.pc = "submit"
      <3>1. loop.state = "APPROVED"
          BY <2>3 DEF IInv, SafeInv, LoopInv
      <3> QED
          BY <2>3, <3>1 DEF HandRow, MaySave
    <2> QED
        BY <1>5, <2>1, <2>2, <2>3, LoopTransitionEffect
  <1>6. CASE LinkBrokerOrder
    <2>1. /\ loop.ord \in Orders /\ loop.pc = "link" /\ MaySave
          /\ row'[loop.ord] = row[loop.ord] \/ row'[loop.ord].status = loop.state
          /\ loop'.pc = "accept" /\ loop'.ord = loop.ord /\ loop'.state = loop.state
        BY <1>6, LinkEffect
    <2> QED
        BY <2>1 DEF EdgeInv, HandRow, MaySave
  <1>7. CASE SaveFill
    <2>1. /\ \A p \in Orders : p # listener.ord => row'[p] = row[p]
          /\ MaySave => loop.ord # listener.ord
          /\ loop' = loop
        BY <1>7, SaveFillEffect DEF SaveFill
    <2>2. MaySave => row'[loop.ord] = row[loop.ord]
      <3>1. MaySave => loop.ord \in Orders
          BY DEF MaySave, IInv, TypeOK
      <3> QED
          BY <2>1, <3>1
    <2>3. loop.pc \in {"check", "reject", "submit", "fail"} => MaySave
        BY DEF MaySave
    <2> QED
        BY <2>1, <2>2, <2>3 DEF EdgeInv, HandRow, MaySave
  <1>8. ASSUME NEW p \in Orders, NEW status \in {"CANCELLED", "APPROVED", "REJECTED"},
               GatewayUpdate(p, status)
        PROVE  HandRow'
    <2>1. /\ \A q \in Orders : q # p => row'[q] = row[q]
          /\ row'[p].linked = row[p].linked /\ row'[p].status = status
          /\ status \in {"APPROVED", "REJECTED"} => row[p].status = "AWAITING_APPROVAL"
          /\ loop' = loop
        BY <1>8, GatewayEffect DEF GatewayUpdate
    <2>2. MaySave => /\ loop.ord \in Orders
                     /\ row[loop.ord].status \in {"APPROVED", "SUBMITTED", "CANCELLED"}
        BY DEF MaySave, IInv, SafeInv, TypeOK, HandInv
    <2>3. MaySave => /\ row'[loop.ord].linked = row[loop.ord].linked
                     /\ \/ row'[loop.ord].status = row[loop.ord].status
                        \/ row'[loop.ord].status = "CANCELLED"
        BY <2>1, <2>2
    <2>4. loop.pc \in {"check", "reject", "submit", "fail"} => MaySave
        BY DEF MaySave
    <2> QED
        BY <2>1, <2>3, <2>4 DEF EdgeInv, HandRow, MaySave
  <1>9. ASSUME Dequeue \/ AddPendingApproval \/ (\E m \in Modes : Restart(m))
        PROVE  HandRow'
    <2>1. loop'.pc \in {"idle", "create"}
        BY <1>9 DEF Dequeue, AddPendingApproval, Restart, IdleLoop
    <2> QED
        BY <1>3, <2>1
  <1>10. CASE CheckAll
    <2>1. /\ loop.pc = "check" /\ loop.ord \in Orders /\ loop \in LoopRecord
          /\ loop.state = "APPROVED"
        BY <1>10 DEF CheckAll, IInv, SafeInv, TypeOK, LoopInv
    <2>2. /\ loop'.pc \in {"submit", "reject"} /\ loop'.ord = loop.ord
          /\ loop'.state = loop.state /\ row' = row
        BY <1>10, <2>1, ProceedType DEF CheckAll, LoopSteps, durable
    <2> QED
        BY <2>1, <2>2 DEF EdgeInv, HandRow
  <1>11. CASE LoopLogTransition
    <2>1. /\ loop.pc = "log" /\ loop.ord \in Orders /\ loop \in LoopRecord
          /\ loop.then \in {"idle", "send"} /\ row' = row /\ loop' = Proceed(loop.then)
        BY <1>11 DEF LoopLogTransition, IInv, SafeInv, TypeOK, LoopInv
    <2>2. CASE loop.then = "idle"
        BY <1>3, <2>1, <2>2 DEF Proceed, IdleLoop
    <2>3. CASE loop.then = "send"
      <3>1. /\ loop'.pc = "send" /\ loop'.ord = loop.ord /\ loop'.state = loop.state
          BY <2>1, <2>3, ProceedType DEF LoopSteps
      <3> QED
          BY <2>1, <2>3, <3>1 DEF EdgeInv, HandRow, MaySave
    <2> QED
        BY <2>1, <2>2, <2>3
  <1>12. CASE SubmitToPaper \/ SubmitToAlpaca
    <2>1. /\ loop.pc = "send" /\ loop.ord \in Orders /\ loop \in LoopRecord /\ row' = row
          /\ sent[loop.ord] = 0
          /\ loop' = Proceed("link") \/ loop' = Proceed("fail")
        BY <1>12
        DEF SubmitToPaper, SubmitToAlpaca, IInv, SafeInv, TypeOK, HandInv, BeforeSend, durable
    <2>2. /\ loop'.pc \in {"link", "fail"} /\ loop'.ord = loop.ord /\ loop'.state = loop.state
        BY <2>1, ProceedType DEF LoopSteps
    <2>3. ~row[loop.ord].linked
        BY <2>1 DEF IInv, SafeInv, RowInv
    <2> QED
        BY <2>1, <2>2, <2>3 DEF EdgeInv, HandRow, MaySave
  <1>13. ASSUME NEW o \in Orders, PublishSignal(o) \/ BrokerStep(o) \/ ExpireApproval(o)
         PROVE  UNCHANGED <<row, loop>>
      BY <1>13
      DEF PublishSignal, BrokerStep, PriceCrosses, SimulateFill, SendUpdate, LiveExecute,
          ExpireApproval, durable
  <1>14. ASSUME \/ ReceiveUpdate \/ ReadOrder \/ LogFill \/ UpdatePosition
                \/ \E on \in BOOLEAN : SetKillKey(on)
                \/ UNCHANGED vars
         PROVE  UNCHANGED <<row, loop>>
      BY <1>14
      DEF ReceiveUpdate, ReadOrder, LogFill, UpdatePosition, SetKillKey, vars, durable
  <1> QED
      BY <1>2, <1>4, <1>5, <1>6, <1>7, <1>8, <1>9, <1>10, <1>11, <1>12, <1>13, <1>14
      DEF Next, LoopStep, ListenerStep

\* What is logged was saved before, and the rows keep it.
LEMMA LogStep ==
  ASSUME RowsInv, [Next]_vars
  PROVE  LogInv' /\ LogIsTrue'
  <1>1. CASE UNCHANGED vars
      BY <1>1 DEF RowsInv, LogInv, LoopLogInv, ListenerLogInv, LogIsTrue,
         LoggedIsTrue, vars, durable
  <1> SUFFICES ASSUME Next PROVE LogInv' /\ LogIsTrue'
      BY <1>1
  <1>2. /\ \A o \in Orders : /\ row[o].linked => row'[o].linked
                             /\ row[o].status = "FILLED" => row'[o].status = "FILLED"
                             /\ row[o].status = "FAILED" => row'[o].status = "FAILED"
      BY RowStep DEF RowsInv, RowMoves, Settled
  <1>3. /\ LoopLogInv /\ ListenerLogInv /\ IInv
        /\ loop.pc # "idle" => loop.ord \in Orders
        /\ listener.pc # "idle" => listener.ord \in Orders
      BY DEF RowsInv, LogInv, IInv, TypeOK
  <1>4. ASSUME loop' = loop \/ loop'.pc # "log" PROVE LoopLogInv'
      BY <1>2, <1>3, <1>4 DEF LoopLogInv
  <1>5. ASSUME listener' = listener \/ listener'.pc \in {"idle", "read", "save"}
        PROVE  ListenerLogInv'
      BY <1>2, <1>3, <1>5 DEF ListenerLogInv
  <1>6. ASSUME stateLog' \subseteq stateLog \cup {<<loop.ord, loop.state>>}, loop.pc = "log"
        PROVE  LogIsTrue'
    <2>1. loop.ord \in Orders /\ loop.state \in {"SUBMITTED", "ACCEPTED", "FAILED"}
        BY <1>3, <1>6 DEF LoopLogInv
    <2>2. ASSUME NEW o \in Orders PROVE LoggedIsTrue(o)'
      <3>1. LoggedIsTrue(o)
          BY DEF RowsInv, LogIsTrue
      <3>2. <<o, "FILLED">> \in stateLog' => <<o, "FILLED">> \in stateLog
          BY <1>6, <2>1
      <3>3. <<o, "FAILED">> \in stateLog' => row[o].status = "FAILED"
          BY <1>3, <1>6, <2>1, <3>1 DEF LoopLogInv, LoggedIsTrue
      <3>4. <<o, "ACCEPTED">> \in stateLog' => row[o].linked
          BY <1>3, <1>6, <2>1, <3>1 DEF LoopLogInv, LoggedIsTrue
      <3> QED
          BY <1>2, <3>1, <3>2, <3>3, <3>4 DEF LoggedIsTrue
    <2> QED
        BY <2>2 DEF LogIsTrue
  <1>7. ASSUME stateLog' \subseteq stateLog \cup {<<listener.ord, "FILLED">>},
               listener.pc = "log"
        PROVE  LogIsTrue'
    <2>1. ASSUME NEW o \in Orders PROVE LoggedIsTrue(o)'
      <3>1. LoggedIsTrue(o)
          BY DEF RowsInv, LogIsTrue
      <3>2. <<o, "FILLED">> \in stateLog' => row[o].status = "FILLED"
          BY <1>3, <1>7, <3>1 DEF ListenerLogInv, LoggedIsTrue
      <3>3. \A s \in {"FAILED", "ACCEPTED"} : <<o, s>> \in stateLog' => <<o, s>> \in stateLog
          BY <1>7
      <3> QED
          BY <1>2, <3>1, <3>2, <3>3 DEF LoggedIsTrue
    <2> QED
        BY <2>1 DEF LogIsTrue
  <1>8. ASSUME UNCHANGED stateLog PROVE LogIsTrue'
    <2>1. ASSUME NEW o \in Orders PROVE LoggedIsTrue(o)'
        BY <1>2, <1>8 DEF RowsInv, LogIsTrue, LoggedIsTrue
    <2> QED
        BY <2>1 DEF LogIsTrue
  <1>9. CASE LoopTransition
    <2>1. LoopLogInv'
      <3>1. CASE loop'.pc # "log"
          BY <1>4, <3>1
      <3>2. CASE loop'.pc = "log"
        <4>1. PICK status \in {"SUBMITTED", "FAILED", "ACCEPTED"} :
                /\ loop'.ord = loop.ord /\ loop'.state = status
                /\ row'[loop.ord].status = status
                /\ row'[loop.ord].linked = (status = "ACCEPTED")
            BY <1>9, <3>2, LoopTransitionEffect, <1>3 DEF IdleLoop
        <4> QED
            BY <4>1 DEF LoopLogInv
      <3> QED
          BY <3>1, <3>2
    <2> QED
        BY <1>5, <1>8, <1>9, <2>1 DEF LoopTransition, LogInv, LoopLogInv, ListenerLogInv
  <1>10. CASE SaveFill
    <2>1. ListenerLogInv'
        BY <1>10, SaveFillEffect, <1>3 DEF ListenerLogInv
    <2>2. loop' = loop /\ stateLog' = stateLog
        BY <1>10 DEF SaveFill
    <2> QED
        BY <1>4, <1>8, <2>1, <2>2 DEF LogInv
  <1>11. CASE LoopLogTransition
    <2>1. /\ loop.pc = "log" /\ listener' = listener /\ loop' = Proceed(loop.then)
          /\ stateLog' \subseteq stateLog \cup {<<loop.ord, loop.state>>}
          /\ loop \in LoopRecord /\ loop.ord \in Orders /\ loop.then \in {"idle", "send"}
        BY <1>3, <1>11
        DEF LoopLogTransition, LogStateTransition, IInv, SafeInv, TypeOK, LoopInv
    <2>2. loop'.pc # "log"
        BY <2>1, ProceedType DEF LoopSteps
    <2> QED
        BY <1>4, <1>5, <1>6, <2>1, <2>2 DEF LogInv
  <1>12. CASE LogFill
    <2>1. /\ listener.pc = "log" /\ listener.status = "FILLED" /\ listener \in ListenerRecord
          /\ listener' = [listener EXCEPT !.pc = "post"] /\ loop' = loop
          /\ stateLog' \subseteq stateLog \cup {<<listener.ord, "FILLED">>}
        BY <1>3, <1>12 DEF LogFill, LogStateTransition, IInv, TypeOK, ListenerLogInv
    <2>2. listener'.ord = listener.ord /\ listener'.status = "FILLED"
        BY <2>1 DEF ListenerRecord
    <2>3. ListenerLogInv'
        BY <1>2, <1>3, <2>1, <2>2 DEF ListenerLogInv
    <2> QED
        BY <1>4, <1>7, <2>1, <2>3 DEF LogInv
  <1>13. ASSUME loop' = loop \/ loop'.pc # "log",
                listener' = listener \/ listener'.pc \in {"idle", "read", "save"},
                UNCHANGED stateLog
         PROVE  LogInv' /\ LogIsTrue'
      BY <1>4, <1>5, <1>8, <1>13 DEF LogInv
  <1>14. ASSUME Dequeue \/ CreateOrder \/ AddPendingApproval \/ CheckAll \/ SubmitToPaper
                \/ SubmitToAlpaca \/ LinkBrokerOrder
         PROVE  LogInv' /\ LogIsTrue'
    <2>1. loop.pc # "idle" => loop \in LoopRecord /\ loop.ord \in Orders
        BY <1>3 DEF IInv, TypeOK
    <2>2. UNCHANGED <<stateLog, listener>>
        BY <1>14
        DEF Dequeue, CreateOrder, AddPendingApproval, CheckAll, SubmitToPaper, SubmitToAlpaca,
            LinkBrokerOrder, durable
    <2>3. loop'.pc # "log"
      <3>1. CASE Dequeue \/ AddPendingApproval
          BY <3>1 DEF Dequeue, AddPendingApproval, IdleLoop
      <3>2. CASE CreateOrder
          BY <1>3, <3>2, CreateEffect
      <3>3. CASE LinkBrokerOrder
          BY <1>3, <3>3, LinkEffect
      <3>4. CASE CheckAll \/ SubmitToPaper \/ SubmitToAlpaca
        <4>1. /\ loop.pc # "idle"
              /\ \E step \in {"submit", "reject", "link", "fail"} : loop' = Proceed(step)
            BY <3>4 DEF CheckAll, SubmitToPaper, SubmitToAlpaca
        <4> QED
            BY <2>1, <4>1, ProceedType DEF LoopSteps
      <3> QED
          BY <1>14, <3>1, <3>2, <3>3, <3>4
    <2> QED
        BY <1>13, <2>2, <2>3
  <1>15. ASSUME ReceiveUpdate \/ ReadOrder \/ UpdatePosition \/ (\E m \in Modes : Restart(m))
         PROVE  LogInv' /\ LogIsTrue'
    <2>1. listener \in ListenerRecord /\ stateLog' = stateLog
      <3>1. stateLog' = stateLog
          BY <1>15, Zenon DEF ReceiveUpdate, ReadOrder, UpdatePosition, Restart, durable
      <3> QED
          BY <1>3, <3>1 DEF IInv, TypeOK
    <2>2. CASE ReceiveUpdate
      <3>1. listener'.pc = "read" /\ loop' = loop
          BY <2>2 DEF ReceiveUpdate, IdleListener
      <3> QED
          BY <1>13, <2>1, <3>1
    <2>3. CASE ReadOrder
      <3> DEFINE filled == row[listener.ord].filled + Quantity[listener.ord]
                 status == FillState(listener.ord, filled)
      <3>1. \/ listener' = IdleListener
            \/ listener' = [listener EXCEPT !.pc = "save", !.status = status, !.filled = filled]
          BY <2>3 DEF ReadOrder
      <3> HIDE DEF filled, status
      <3>2. loop' = loop
          BY <2>3 DEF ReadOrder
      <3>3. listener'.pc \in {"idle", "save"}
        <4>1. CASE listener' = IdleListener
            BY <4>1 DEF IdleListener
        <4>2. CASE listener' = [listener EXCEPT !.pc = "save", !.status = status,
                                                !.filled = filled]
            BY <2>1, <4>2 DEF ListenerRecord
        <4> QED
            BY <3>1, <4>1, <4>2
      <3> QED
          BY <1>13, <2>1, <3>2, <3>3
    <2>4. CASE UpdatePosition
      <3>1. listener' = IdleListener /\ loop' = loop
          BY <2>4, Zenon DEF UpdatePosition
      <3> QED
          BY <1>13, <2>1, <3>1 DEF IdleListener
    <2>5. CASE \E m \in Modes : Restart(m)
      <3>1. listener' = IdleListener /\ loop' = IdleLoop
          BY <2>5, Zenon DEF Restart
      <3> QED
          BY <1>13, <2>1, <3>1 DEF IdleListener, IdleLoop
    <2> QED
        BY <1>15, <2>2, <2>3, <2>4, <2>5
  <1>16. ASSUME NEW o \in Orders,
                \/ PublishSignal(o) \/ BrokerStep(o) \/ ExpireApproval(o)
                \/ \E status \in {"CANCELLED", "APPROVED", "REJECTED"} : GatewayUpdate(o, status)
         PROVE  LogInv' /\ LogIsTrue'
    <2>1. UNCHANGED <<stateLog, loop, listener>>
        BY <1>16
        DEF PublishSignal, BrokerStep, PriceCrosses, SimulateFill, SendUpdate, LiveExecute,
            ExpireApproval, GatewayUpdate, durable
    <2> QED
        BY <1>13, <2>1
  <1>17. ASSUME \E on \in BOOLEAN : SetKillKey(on) PROVE LogInv' /\ LogIsTrue'
      BY <1>13, <1>17 DEF SetKillKey, durable
  <1> QED
      BY <1>9, <1>10, <1>11, <1>12, <1>14, <1>15, <1>16, <1>17 DEF Next, LoopStep, ListenerStep

\* RowsInv is an invariant: the state log never runs ahead of the rows, and the order in
\* the loop's memory differs from its row in the ways EdgeInv lists.
THEOREM RowsInvariance == Spec => []RowsInv
  <1>1. Init => RowsInv
    <2> SUFFICES ASSUME Init PROVE RowsInv
        OBVIOUS
    <2>1. IInv
        BY InvInit
    <2> QED
        BY <2>1
        DEF Init, RowsInv, EdgeInv, HandRow, LogInv, LoopLogInv, ListenerLogInv, LogIsTrue,
            LoggedIsTrue, MaySave, IdleLoop, IdleListener
  <1>2. RowsInv /\ [Next]_vars => RowsInv'
      BY InvStep, EdgeStep, LogStep DEF RowsInv
  <1> QED
      BY <1>1, <1>2, PTL DEF Spec

\* The state log lacks rows after a crash or a failed INSERT, but what it says is true
\* (Transition logs after it has saved).
THEOREM LogIsTrueHolds == Spec => []LogIsTrue
  <1>1. RowsInv => LogIsTrue
      BY DEF RowsInv
  <1> QED
      BY <1>1, RowsInvariance, PTL

\* The loop, the listener, the gateway, faults and restarts together move a row along
\* ValidTransitions and nowhere else, but for the departures listed above.
THEOREM RowsMoveAlongEdgesHolds == Spec => RowsMoveAlongEdges
  <1>1. RowsInv /\ [Next]_vars =>
          [\A o \in Orders :
             row'[o].status # row[o].status
               => <<row[o].status, row'[o].status>> \in RowEdges]_vars
    <2> SUFFICES ASSUME RowsInv, Next
                 PROVE  \A o \in Orders :
                          row'[o].status # row[o].status
                            => <<row[o].status, row'[o].status>> \in RowEdges
        OBVIOUS
    <2> QED
        BY RowStep DEF RowsInv, RowMoves
  <1> QED
      BY <1>1, RowsInvariance, PTL DEF Spec, RowsMoveAlongEdges
================================================================================
