---------------------------- MODULE OrderLifecycle -----------------------------
(***************************************************************************)
(* The order path of the OMS process and everything that touches an order  *)
(* row: the signal loop (processSignals), the state machine and its        *)
(* persistence, the autonomy gate's pending map, the paper simulator with  *)
(* one goroutine per order, the live adapter, the fill listener, the       *)
(* gateway's direct updates of the orders table, database errors, and      *)
(* restarts of the OMS. Each goroutine advances from one shared access to  *)
(* the next: a statement sent to the database, a channel operation, a      *)
(* section under the simulator's mutex.                                    *)
(*                                                                         *)
(* A signal is identified with the order it would become, so its symbol,   *)
(* side, type and quantity are constants indexed by the order.             *)
(*                                                                         *)
(* A definition marked "Variant of" is the code with one slip in it. No    *)
(* action uses it: it shows that a property can tell the slip.             *)
(***************************************************************************)
EXTENDS Naturals, Sequences, OrderStates

CONSTANTS
  Orders,      \* signals that may arrive; each becomes at most one order
  NoOrder,     \* no order in hand
  Symbols,
  SymbolOf,    \* [Orders -> Symbols]
  SideOf,      \* [Orders -> {"buy", "sell"}]
  TypeOf,      \* [Orders -> {"market", "limit", "stop", "other"}]
  Quantity,    \* [Orders -> Nat \ {0}]
  Levels,      \* autonomy levels the configuration may hold, a subset of 0..4
  Modes,       \* trading modes the process may be started in
  SignalCap,   \* capacity of the signal channel (100 in the code)
  UpdateCap,   \* capacity of the simulator's update channel (100 in the code)
  MaxFaults,   \* bound: database statements that fail
  MaxRestarts  \* bound: restarts of the OMS

ASSUME OrdersAssumption ==
  /\ NoOrder \notin Orders
  /\ SymbolOf \in [Orders -> Symbols]
  /\ SideOf \in [Orders -> {"buy", "sell"}]
  /\ TypeOf \in [Orders -> {"market", "limit", "stop", "other"}]
  /\ Quantity \in [Orders -> Nat \ {0}]
  /\ Levels \subseteq 0..4
  /\ Modes \subseteq {"paper", "live"}
  /\ SignalCap \in Nat \ {0}
  /\ UpdateCap \in Nat \ {0}
  /\ MaxFaults \in Nat
  /\ MaxRestarts \in Nat

VARIABLES
  \* ---- durable: Postgres and Redis
  row,        \* row[o]: the orders row, status "NONE" while there is none
  stateLog,   \* order_state_log, as the set of <<order, new_state>>
  position,   \* position[o]: quantity of the positions row o's fill opened, 0 = no row
  killKey,    \* Redis key killswitch:active
  \* ---- the OMS process
  mode,       \* the adapter built at startup: PaperSimulator or alpaca.Client
  active,     \* KillSwitch.active
  signals,    \* signalCh
  pending,    \* AutonomyGate.pendingApprovals
  loop,       \* processSignals: where it stands and its *model.Order
  updateCh,   \* the simulator's update channel; an update is its order
  listener,   \* StartFillListener / ProcessFill: where it stands, the order it read
  \* ---- the broker
  task,       \* task[o]: the simulator goroutine working for o, or "live"
  simPosition,\* simPosition[s]: quantity in the simulator's positions map
  \* ---- history and bounds
  seen,       \* signals already published
  verdict,    \* verdict[o]: what the risk manager said of o
  sent,       \* sent[o]: SubmitOrder calls that reached the broker
  executed,   \* executed[o]: shares the broker executed
  posted,     \* posted[o]: shares updatePosition applied to the table
  faults, restarts

durable == <<row, stateLog, position>>
broker == <<task, simPosition, executed>>
bounds == <<faults, restarts>>
vars == <<durable, killKey, mode, active, signals, pending, loop, updateCh, listener,
          broker, seen, verdict, sent, posted, bounds>>

--------------------------------------------------------------------------------
(* Types *)

RowStatus == OrderState \cup {"NONE"}

LoopSteps == {"idle", "create", "park", "check", "reject", "submit", "send", "link",
              "accept", "fail", "log"}
ListenerSteps == {"idle", "read", "save", "log", "post"}
TaskSteps == {"none", "market", "watch", "triggered", "sending", "done", "live"}

RowRecord == [status : RowStatus, linked : BOOLEAN, filled : Nat]
LoopRecord ==
  [pc : LoopSteps, ord : Orders \cup {NoOrder}, state : OrderState, then : LoopSteps]
ListenerRecord ==
  [pc : ListenerSteps, ord : Orders \cup {NoOrder}, status : OrderState, filled : Nat]

TypeOK ==
  /\ row \in [Orders -> RowRecord]
  /\ stateLog \subseteq Orders \X OrderState
  /\ position \in [Orders -> Nat]
  /\ killKey \in BOOLEAN
  /\ mode \in Modes
  /\ active \in BOOLEAN
  /\ signals \in Seq(Orders)
  /\ pending \subseteq Orders
  /\ loop \in LoopRecord
  /\ loop.pc # "idle" => loop.ord \in Orders
  /\ updateCh \in Seq(Orders)
  /\ listener \in ListenerRecord
  /\ listener.pc # "idle" => listener.ord \in Orders
  /\ task \in [Orders -> TaskSteps]
  /\ simPosition \in [Symbols -> Nat]
  /\ seen \subseteq Orders
  /\ verdict \in [Orders -> {"none", "passed", "failed"}]
  /\ sent \in [Orders -> Nat]
  /\ executed \in [Orders -> Nat]
  /\ posted \in [Orders -> Nat]
  /\ faults \in Nat
  /\ restarts \in Nat

IdleLoop == [pc |-> "idle", ord |-> NoOrder, state |-> "PENDING", then |-> "idle"]
IdleListener == [pc |-> "idle", ord |-> NoOrder, status |-> "PENDING", filled |-> 0]

Init ==
  /\ row = [o \in Orders |-> [status |-> "NONE", linked |-> FALSE, filled |-> 0]]
  /\ stateLog = {}
  /\ position = [o \in Orders |-> 0]
  /\ killKey \in BOOLEAN
  /\ mode \in Modes
  /\ active = killKey
  /\ signals = <<>>
  /\ pending = {}
  /\ loop = IdleLoop
  /\ updateCh = <<>>
  /\ listener = IdleListener
  /\ task = [o \in Orders |-> "none"]
  /\ simPosition = [s \in Symbols |-> 0]
  /\ seen = {}
  /\ verdict = [o \in Orders |-> "none"]
  /\ sent = [o \in Orders |-> 0]
  /\ executed = [o \in Orders |-> 0]
  /\ posted = [o \in Orders |-> 0]
  /\ faults = 0
  /\ restarts = 0

--------------------------------------------------------------------------------
(* Database statements *)

\* One statement returns to its caller. A failed one counts against the bound.
DbReturns(ok) ==
  /\ ok \/ faults < MaxFaults
  /\ faults' = IF ok THEN faults ELSE faults + 1
  /\ UNCHANGED restarts

\* SaveOrderState: a blind UPDATE of the whole row from the caller's copy. When the
\* caller sees an error (a timeout, a lost connection) the row may have been written.
SaveOrderState(o, status, linked, filled, ok) ==
  /\ \/ row' = [row EXCEPT ![o] = [status |-> status, linked |-> linked, filled |-> filled]]
     \/ ~ok /\ UNCHANGED row
  /\ DbReturns(ok)

\* LogStateTransition: one INSERT whose error is only logged.
LogStateTransition(o, new_state) ==
  \E ok \in BOOLEAN :
    /\ \/ stateLog' = stateLog \cup {<<o, new_state>>}
       \/ ~ok /\ UNCHANGED stateLog
    /\ DbReturns(ok)

--------------------------------------------------------------------------------
(* Signals *)

\* A strategy, or the gateway's POST /orders, publishes a signal. The receiver drops it
\* when signalCh is full.
PublishSignal(o) ==
  /\ o \notin seen
  /\ seen' = seen \cup {o}
  /\ signals' = IF Len(signals) < SignalCap THEN Append(signals, o) ELSE signals
  /\ UNCHANGED <<durable, killKey, mode, active, pending, loop, updateCh, listener,
                 broker, verdict, sent, posted, bounds>>

\* AutonomyGate.Evaluate: the state a new order starts in, or "blocked".
Evaluate(level) ==
  CASE level = 1 -> "AWAITING_APPROVAL"
    [] level \in {2, 3, 4} -> "APPROVED"
    [] OTHER -> "blocked"

--------------------------------------------------------------------------------
(* The signal loop: processSignals, one order at a time *)

Proceed(step) == IF step = "idle" THEN IdleLoop ELSE [loop EXCEPT !.pc = step]

\* Variant of Dequeue: the kill switch is not consulted.
DequeueUnderKill ==
  /\ loop.pc = "idle"
  /\ signals # <<>>
  /\ signals' = Tail(signals)
  /\ \E level \in Levels :
       loop' = IF Evaluate(level) = "blocked"
               THEN IdleLoop
               ELSE [pc |-> "create", ord |-> Head(signals), state |-> Evaluate(level),
                     then |-> "idle"]
  /\ UNCHANGED <<durable, killKey, mode, active, pending, updateCh, listener, broker,
                 seen, verdict, sent, posted, bounds>>

\* Take a signal; drop it while the kill switch is up or when the gate blocks it.
Dequeue ==
  /\ loop.pc = "idle"
  /\ signals # <<>>
  /\ signals' = Tail(signals)
  /\ \E level \in Levels :
       loop' = IF active \/ Evaluate(level) = "blocked"
               THEN IdleLoop
               ELSE [pc |-> "create", ord |-> Head(signals), state |-> Evaluate(level),
                     then |-> "idle"]
  /\ UNCHANGED <<durable, killKey, mode, active, pending, updateCh, listener, broker,
                 seen, verdict, sent, posted, bounds>>

\* CreateOrder: INSERT the row. On an error the loop drops the order, even if the
\* row was written.
CreateOrder ==
  /\ loop.pc = "create"
  /\ \E ok \in BOOLEAN :
       /\ \/ row' = [row EXCEPT ![loop.ord].status = loop.state]
          \/ ~ok /\ UNCHANGED row
       /\ DbReturns(ok)
       /\ loop' = Proceed(IF ~ok THEN "idle"
                          ELSE IF loop.state = "AWAITING_APPROVAL" THEN "park" ELSE "check")
  /\ UNCHANGED <<stateLog, position, killKey, mode, active, signals, pending, updateCh,
                 listener, broker, seen, verdict, sent, posted>>

AddPendingApproval ==
  /\ loop.pc = "park"
  /\ pending' = pending \cup {loop.ord}
  /\ loop' = IdleLoop
  /\ UNCHANGED <<durable, killKey, mode, active, signals, updateCh, listener, broker,
                 seen, verdict, sent, posted, bounds>>

\* Variant of CheckAll: no `continue` after a failed check.
CheckAllFallsThrough ==
  /\ loop.pc = "check"
  /\ \E answer \in {"passed", "failed"} : verdict' = [verdict EXCEPT ![loop.ord] = answer]
  /\ loop' = Proceed("submit")
  /\ UNCHANGED <<durable, killKey, mode, active, signals, pending, updateCh, listener,
                 broker, seen, sent, posted, bounds>>

\* RiskManager.CheckAll, whose answer is left open here, and SaveRiskCheckResults.
CheckAll ==
  /\ loop.pc = "check"
  /\ \E answer \in {"passed", "failed"} :
       /\ verdict' = [verdict EXCEPT ![loop.ord] = answer]
       /\ loop' = Proceed(IF answer = "passed" THEN "submit" ELSE "reject")
  /\ UNCHANGED <<durable, killKey, mode, active, signals, pending, updateCh, listener,
                 broker, seen, sent, posted, bounds>>

\* StateMachine.Transition called by the loop, whose every call ignores the error: an
\* edge outside the table does nothing; a failed save leaves the old state in memory.
\* `linked` is whether the order in memory carries its broker id.
Transition(newState, linked, next) ==
  IF CanTransition(loop.state, newState)
  THEN \E ok \in BOOLEAN :
         /\ SaveOrderState(loop.ord, newState, linked, 0, ok)
         /\ loop' = IF ok
                    THEN [loop EXCEPT !.pc = "log", !.state = newState, !.then = next]
                    ELSE Proceed(next)
  ELSE /\ loop' = Proceed(next)
       /\ UNCHANGED <<row, bounds>>

\* Variant of LoopTransition: no `continue` after a failed submission.
LoopTransitionFallsThrough ==
  /\ \/ loop.pc = "reject" /\ Transition("REJECTED", FALSE, "idle")
     \/ loop.pc = "submit" /\ Transition("SUBMITTED", FALSE, "send")
     \/ loop.pc = "fail" /\ Transition("FAILED", FALSE, "link")
     \/ loop.pc = "accept" /\ Transition("ACCEPTED", TRUE, "idle")
  /\ UNCHANGED <<stateLog, position, killKey, mode, active, signals, pending, updateCh,
                 listener, broker, seen, verdict, sent, posted>>

LoopTransition ==
  /\ \/ loop.pc = "reject" /\ Transition("REJECTED", FALSE, "idle")
     \/ loop.pc = "submit" /\ Transition("SUBMITTED", FALSE, "send")
     \/ loop.pc = "fail" /\ Transition("FAILED", FALSE, "idle")
     \/ loop.pc = "accept" /\ Transition("ACCEPTED", TRUE, "idle")
  /\ UNCHANGED <<stateLog, position, killKey, mode, active, signals, pending, updateCh,
                 listener, broker, seen, verdict, sent, posted>>

\* The rest of Transition, once the row is saved.
LoopLogTransition ==
  /\ loop.pc = "log"
  /\ LogStateTransition(loop.ord, loop.state)
  /\ loop' = Proceed(loop.then)
  /\ UNCHANGED <<row, position, killKey, mode, active, signals, pending, updateCh,
                 listener, broker, seen, verdict, sent, posted>>

\* No fill goroutine is inside its section under ps.mu; one that waits for room in
\* updateCh is.
MutexFree == \A o \in Orders : task[o] # "sending"

\* PaperSimulator.SubmitOrder: register the order and start its goroutine.
SubmitToPaper ==
  /\ loop.pc = "send"
  /\ mode = "paper"
  /\ MutexFree
  /\ task' = [task EXCEPT ![loop.ord] = IF TypeOf[loop.ord] = "market" THEN "market"
                                                                       ELSE "watch"]
  /\ sent' = [sent EXCEPT ![loop.ord] = @ + 1]
  /\ loop' = Proceed("link")
  /\ UNCHANGED <<durable, killKey, mode, active, signals, pending, updateCh, listener,
                 simPosition, executed, seen, verdict, posted, bounds>>

\* Variant of SubmitToAlpaca: the error of the request is not looked at.
SubmitToAlpacaUnchecked ==
  /\ loop.pc = "send"
  /\ mode = "live"
  /\ \E reached \in BOOLEAN :
       /\ task' = IF reached THEN [task EXCEPT ![loop.ord] = "live"] ELSE task
       /\ sent' = IF reached THEN [sent EXCEPT ![loop.ord] = @ + 1] ELSE sent
  /\ loop' = Proceed("link")
  /\ UNCHANGED <<durable, killKey, mode, active, signals, pending, updateCh, listener,
                 simPosition, executed, seen, verdict, posted, bounds>>

\* Variant of SubmitToAlpaca: a request that was not answered is sent again.
SubmitToAlpacaAgain ==
  /\ loop.pc = "send"
  /\ mode = "live"
  /\ \E reached, answered \in BOOLEAN :
       /\ answered => reached
       /\ task' = IF reached THEN [task EXCEPT ![loop.ord] = "live"] ELSE task
       /\ sent' = IF reached THEN [sent EXCEPT ![loop.ord] = @ + 1] ELSE sent
       /\ loop' = IF answered THEN Proceed("link") ELSE loop
  /\ UNCHANGED <<durable, killKey, mode, active, signals, pending, updateCh, listener,
                 simPosition, executed, seen, verdict, posted, bounds>>

\* alpaca.Client.SubmitOrder: the request may fail before or after it reached the broker.
SubmitToAlpaca ==
  /\ loop.pc = "send"
  /\ mode = "live"
  /\ \E reached, answered \in BOOLEAN :
       /\ answered => reached
       /\ task' = IF reached THEN [task EXCEPT ![loop.ord] = "live"] ELSE task
       /\ sent' = IF reached THEN [sent EXCEPT ![loop.ord] = @ + 1] ELSE sent
       /\ loop' = Proceed(IF answered THEN "link" ELSE "fail")
  /\ UNCHANGED <<durable, killKey, mode, active, signals, pending, updateCh, listener,
                 simPosition, executed, seen, verdict, posted, bounds>>

\* The bare SaveOrderState that stores the broker id; its error is ignored.
LinkBrokerOrder ==
  /\ loop.pc = "link"
  /\ \E ok \in BOOLEAN : SaveOrderState(loop.ord, loop.state, TRUE, 0, ok)
  /\ loop' = Proceed("accept")
  /\ UNCHANGED <<stateLog, position, killKey, mode, active, signals, pending, updateCh,
                 listener, broker, seen, verdict, sent, posted>>

LoopStep ==
  \/ Dequeue \/ CreateOrder \/ AddPendingApproval \/ CheckAll \/ LoopTransition
  \/ LoopLogTransition \/ SubmitToPaper \/ SubmitToAlpaca \/ LinkBrokerOrder

--------------------------------------------------------------------------------
(* The broker *)

\* Variant of ApplyFill: a sell of more than is held leaves a negative quantity.
ApplyFillUnclipped(pos, o) ==
  [pos EXCEPT ![SymbolOf[o]] =
     IF SideOf[o] = "buy" THEN @ + Quantity[o] ELSE 0 - Quantity[o] + @]

\* A buy adds to the simulator's position; a sell takes from it and never leaves it below
\* zero, whatever it sold.
ApplyFill(pos, o) ==
  [pos EXCEPT ![SymbolOf[o]] =
     IF SideOf[o] = "buy" THEN @ + Quantity[o]
     ELSE IF @ > Quantity[o] THEN @ - Quantity[o] ELSE 0]

\* The order is in ps.openOrders: processFill, which executes it, is what takes it out.
Open(o) == executed[o] = 0

\* monitorOrder: a tick that finds the order open and whose price crosses the limit or the
\* stop. Ticks that do not cross, and orders of other types, change nothing.
PriceCrosses(o) ==
  /\ task[o] = "watch"
  /\ Open(o)
  /\ TypeOf[o] \in {"limit", "stop"}
  /\ MutexFree
  /\ task' = [task EXCEPT ![o] = "triggered"]
  /\ UNCHANGED <<durable, killKey, mode, active, signals, pending, loop, updateCh,
                 listener, simPosition, executed, seen, verdict, sent, posted, bounds>>

\* Variant of SimulateFill: ps.mu is released before the send.
SimulateFillUnlocked(o) ==
  /\ task[o] \in {"market", "triggered"}
  /\ task' = [task EXCEPT ![o] = "sending"]
  /\ simPosition' = ApplyFill(simPosition, o)
  /\ executed' = [executed EXCEPT ![o] = @ + Quantity[o]]
  /\ UNCHANGED <<durable, killKey, mode, active, signals, pending, loop, updateCh,
                 listener, seen, verdict, sent, posted, bounds>>

\* processFill up to the send: take ps.mu, drop the open order, move the position.
SimulateFill(o) ==
  /\ task[o] \in {"market", "triggered"}
  /\ MutexFree
  /\ task' = [task EXCEPT ![o] = "sending"]
  /\ simPosition' = ApplyFill(simPosition, o)
  /\ executed' = [executed EXCEPT ![o] = @ + Quantity[o]]
  /\ UNCHANGED <<durable, killKey, mode, active, signals, pending, loop, updateCh,
                 listener, seen, verdict, sent, posted, bounds>>

\* The send on updateCh, still under ps.mu: it waits for room, then releases.
SendUpdate(o) ==
  /\ task[o] = "sending"
  /\ Len(updateCh) < UpdateCap
  /\ updateCh' = Append(updateCh, o)
  /\ task' = [task EXCEPT ![o] = "done"]
  /\ UNCHANGED <<durable, killKey, mode, active, signals, pending, loop, listener,
                 simPosition, executed, seen, verdict, sent, posted, bounds>>

\* The live broker executes an order it holds. Nothing in the client writes updateCh,
\* so the OMS is not told.
LiveExecute(o) ==
  /\ task[o] = "live"
  /\ task' = [task EXCEPT ![o] = "done"]
  /\ executed' = [executed EXCEPT ![o] = @ + Quantity[o]]
  /\ UNCHANGED <<durable, killKey, mode, active, signals, pending, loop, updateCh,
                 listener, simPosition, seen, verdict, sent, posted, bounds>>

BrokerStep(o) == PriceCrosses(o) \/ SimulateFill(o) \/ SendUpdate(o) \/ LiveExecute(o)

--------------------------------------------------------------------------------
(* The fill listener: StartFillListener and ProcessFill *)

\* Variant of ReceiveUpdate: the listener takes the simulator's mutex to receive.
ReceiveUpdateLocked ==
  /\ listener.pc = "idle"
  /\ updateCh # <<>>
  /\ MutexFree
  /\ listener' = [IdleListener EXCEPT !.pc = "read", !.ord = Head(updateCh)]
  /\ updateCh' = Tail(updateCh)
  /\ UNCHANGED <<durable, killKey, mode, active, signals, pending, loop, broker, seen,
                 verdict, sent, posted, bounds>>

ReceiveUpdate ==
  /\ listener.pc = "idle"
  /\ updateCh # <<>>
  /\ listener' = [IdleListener EXCEPT !.pc = "read", !.ord = Head(updateCh)]
  /\ updateCh' = Tail(updateCh)
  /\ UNCHANGED <<durable, killKey, mode, active, signals, pending, loop, broker, seen,
                 verdict, sent, posted, bounds>>

\* The state a fill leads to, given the quantity filled with it.
FillState(o, filled) == IF filled >= Quantity[o] THEN "FILLED" ELSE "PARTIAL_FILL"

\* Look the order up by broker id, read it, add the fill, and check the edge. The
\* update is dropped when the row does not carry the id yet, when the edge is not in
\* the table, and on a database error. An id once in a row stays there, so the two
\* SELECTs are one step.
ReadOrder ==
  /\ listener.pc = "read"
  /\ \E ok \in BOOLEAN :
       LET r == row[listener.ord]
           filled == r.filled + Quantity[listener.ord]
           status == FillState(listener.ord, filled)
       IN /\ DbReturns(ok)
          /\ listener' = IF ok /\ r.linked /\ CanTransition(r.status, status)
                         THEN [listener EXCEPT !.pc = "save", !.status = status,
                                               !.filled = filled]
                         ELSE IdleListener
  /\ UNCHANGED <<durable, killKey, mode, active, signals, pending, loop, updateCh, broker,
                 seen, verdict, sent, posted>>

\* Transition's save, from the copy ReadOrder took.
SaveFill ==
  /\ listener.pc = "save"
  /\ \E ok \in BOOLEAN :
       /\ SaveOrderState(listener.ord, listener.status, TRUE, listener.filled, ok)
       /\ listener' = IF ok THEN [listener EXCEPT !.pc = "log"] ELSE IdleListener
  /\ UNCHANGED <<stateLog, position, killKey, mode, active, signals, pending, loop,
                 updateCh, broker, seen, verdict, sent, posted>>

LogFill ==
  /\ listener.pc = "log"
  /\ LogStateTransition(listener.ord, listener.status)
  /\ listener' = [listener EXCEPT !.pc = "post"]
  /\ UNCHANGED <<row, position, killKey, mode, active, signals, pending, loop, updateCh,
                 broker, seen, verdict, sent, posted>>

\* The rows the positions table has for a symbol. Nothing keeps it from having two.
OpenRows(symbol) == {o \in Orders : SymbolOf[o] = symbol /\ position[o] > 0}

\* What updatePosition writes once it found a row, any one of the symbol's, or none.
PostFill(o, found) ==
  \/ /\ found
     /\ \E p \in OpenRows(SymbolOf[o]) :
          position' = [position EXCEPT ![p] = IF SideOf[o] = "buy" THEN @ + Quantity[o]
                                              ELSE IF @ > Quantity[o] THEN @ - Quantity[o]
                                              ELSE 0]
  \/ ~found /\ SideOf[o] = "buy" /\ position' = [position EXCEPT ![o] = Quantity[o]]
  \/ ~found /\ SideOf[o] = "sell" /\ UNCHANGED position

\* updatePosition: a SELECT that fails is taken for one that found nothing, and the error
\* of the write is discarded.
UpdatePosition ==
  /\ listener.pc = "post"
  /\ \E ok \in BOOLEAN :
       /\ \/ /\ \/ PostFill(listener.ord, OpenRows(SymbolOf[listener.ord]) # {})
                \/ ~ok /\ PostFill(listener.ord, FALSE)
             /\ posted' = [posted EXCEPT ![listener.ord] = @ + Quantity[listener.ord]]
          \/ ~ok /\ UNCHANGED <<position, posted>>
       /\ DbReturns(ok)
  /\ listener' = IdleListener
  /\ UNCHANGED <<row, stateLog, killKey, mode, active, signals, pending, loop, updateCh,
                 broker, seen, verdict, sent>>

ListenerStep == ReceiveUpdate \/ ReadOrder \/ SaveFill \/ LogFill \/ UpdatePosition

--------------------------------------------------------------------------------
(* The gateway, the gate's timer and the process itself *)

\* Variant of GatewayFrom: FILLED is missing from the statuses a cancel leaves alone.
GatewayFromFilled ==
  [CANCELLED |-> (OrderState \ Terminal) \cup {"FILLED"}, APPROVED |-> {"AWAITING_APPROVAL"},
   REJECTED |-> {"AWAITING_APPROVAL"}]

\* The statuses the gateway's UPDATE for each request may start from.
GatewayFrom ==
  [CANCELLED |-> OrderState \ Terminal, APPROVED |-> {"AWAITING_APPROVAL"},
   REJECTED |-> {"AWAITING_APPROVAL"}]

\* PUT /orders/:id/cancel, /approve and /reject: one UPDATE guarded by the row's status.
\* What the gateway publishes afterwards, no OMS goroutine subscribes to.
GatewayUpdate(o, status) ==
  /\ row[o].status \in GatewayFrom[status]
  /\ row' = [row EXCEPT ![o].status = status]
  /\ UNCHANGED <<stateLog, position, killKey, mode, active, signals, pending, loop,
                 updateCh, listener, broker, seen, verdict, sent, posted, bounds>>

\* POST /killswitch/activate and /deactivate: only the Redis key changes; the OMS does
\* not subscribe to the messages published with it.
SetKillKey(on) ==
  /\ killKey' = on
  /\ UNCHANGED <<durable, mode, active, signals, pending, loop, updateCh, listener, broker,
                 seen, verdict, sent, posted, bounds>>

\* expireLoop: the entry leaves the map, five minutes or more after it entered.
ExpireApproval(o) ==
  /\ o \in pending
  /\ pending' = pending \ {o}
  /\ UNCHANGED <<durable, killKey, mode, active, signals, loop, updateCh, listener, broker,
                 seen, verdict, sent, posted, bounds>>

\* The OMS stops (a crash, or a shutdown that cuts its goroutines off) and starts again:
\* memory, channels and the simulator are new, NewKillSwitch reads the key, the database
\* and a live broker's orders stay.
Restart(m) ==
  /\ restarts < MaxRestarts
  /\ restarts' = restarts + 1
  /\ mode' = m
  /\ active' = killKey
  /\ signals' = <<>>
  /\ pending' = {}
  /\ loop' = IdleLoop
  /\ updateCh' = <<>>
  /\ listener' = IdleListener
  /\ task' = [o \in Orders |-> IF task[o] \in {"live", "none"} THEN task[o] ELSE "done"]
  /\ simPosition' = [s \in Symbols |-> 0]
  /\ UNCHANGED <<durable, killKey, seen, verdict, sent, executed, posted, faults>>

Next ==
  \/ \E o \in Orders :
       \/ PublishSignal(o)
       \/ BrokerStep(o)
       \/ ExpireApproval(o)
       \/ \E status \in {"CANCELLED", "APPROVED", "REJECTED"} : GatewayUpdate(o, status)
  \/ LoopStep
  \/ ListenerStep
  \/ \E on \in BOOLEAN : SetKillKey(on)
  \/ \E m \in Modes : Restart(m)

\* The Go scheduler runs every goroutine that can run, every database statement returns
\* within its five-second deadline, and the HTTP client within thirty. Prices, users,
\* brokers and restarts owe nothing.
Fairness ==
  /\ WF_vars(LoopStep)
  /\ WF_vars(ListenerStep)
  /\ \A o \in Orders : WF_vars(SimulateFill(o)) /\ WF_vars(SendUpdate(o))

Spec == Init /\ [][Next]_vars

FairSpec == Spec /\ Fairness

--------------------------------------------------------------------------------
(* Safety *)

\* The database says FILLED exactly of the orders it has booked, each for its whole
\* quantity, and books nothing the broker did not execute: no interleaving of the loop's
\* blind saves, the listener's and the gateway's updates books a fill twice or in part.
BookedIffFilled ==
  \A o \in Orders :
    /\ row[o].filled \in {0, Quantity[o]}
    /\ row[o].filled <= executed[o]
    /\ row[o].status = "FILLED" <=> row[o].filled = Quantity[o]

\* An order is at the broker only if the risk manager passed it; in particular not when
\* it waits, or waited, for a user's approval (processSignals).
OnlyVettedOrdersReachBroker ==
  \A o \in Orders : sent[o] > 0 => verdict[o] = "passed" /\ o \notin pending

\* A row that carries a broker id, or a status only a broker's answer leads to, belongs
\* to an order the broker was given: no failed save and no restart invents one.
BrokerClaimsAreTrue ==
  \A o \in Orders :
    row[o].linked \/ row[o].status \in {"ACCEPTED", "PARTIAL_FILL", "FILLED"}
      => sent[o] > 0

\* When every execution has been posted, no statement failed and the process never
\* restarted, the positions table equals the simulator's map: one row for each symbol
\* held. A sell of more than is held closes the position, so the two agree only if the
\* listener applies fills in the simulator's order: the send under ps.mu keeps it.
BookMatchesSimulator ==
  restarts = 0 /\ faults = 0 /\ executed = posted =>
    \A s \in Symbols :
      IF simPosition[s] = 0 THEN OpenRows(s) = {}
      ELSE \E o \in Orders : OpenRows(s) = {o} /\ position[o] = simPosition[s]

\* FILLED, REJECTED and FAILED are final: no later save, retry, gateway request or
\* restart changes such a row's status (IsTerminal).
SettledStaysSettled ==
  [][\A o \in Orders :
       row[o].status \in {"FILLED", "REJECTED", "FAILED"} => row'[o].status = row[o].status]_vars

\* A process that came up with the kill switch on gives no order to the broker, until
\* it is restarted with the key gone.
KilledProcessSendsNothing ==
  [][active => sent' = sent]_vars

\* The order path implements the ledger: handed over, executed and booked at most once
\* each, in that order, and never undone.
Ledger == INSTANCE ExecutionLedger WITH booked <- [o \in Orders |-> row[o].filled]

ImplementsLedger == Ledger!LedgerSpec

--------------------------------------------------------------------------------
(* Liveness, under FairSpec *)

\* The loop comes back for the next signal: no save, submission or wait for ps.mu holds
\* it forever.
LoopReturns == loop.pc # "idle" ~> loop.pc = "idle"

InFlight(o) ==
  \/ task[o] \in {"market", "triggered", "sending"}
  \/ \E i \in DOMAIN updateCh : updateCh[i] = o
  \/ listener.ord = o

\* Once a simulator goroutine is to fill an order, its update is sent, received and dealt
\* with: the full channel, the sender that holds ps.mu and the listener never wait on
\* one another.
FillsDrain == \A o \in Orders : InFlight(o) ~> ~InFlight(o)

--------------------------------------------------------------------------------
(* What the texts around the code say and the code does not do *)

\* "order cancelled" (gateway's cancel) and IsTerminal: a cancelled order stays so.
CancelledStaysCancelled ==
  [][\A o \in Orders : row[o].status = "CANCELLED" => row'[o].status = "CANCELLED"]_vars

\* "Find the order by broker ID" (ProcessFill): the row of an update can be found and
\* moved, so with no fault, no restart and no user at work a fill is booked.
FillsFindTheirOrder ==
  \A o \in Orders :
    executed[o] > 0 /\ ~InFlight(o) => row[o].filled = Quantity[o]

================================================================================
