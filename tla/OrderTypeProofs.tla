---------------------------- MODULE OrderTypeProofs -----------------------------
(***************************************************************************)
(* The type invariant of OrderLifecycle, for any set of orders, any        *)
(* capacities and any number of faults and restarts, and the lemmas about  *)
(* its helpers.                                                            *)
(***************************************************************************)
EXTENDS OrderLifecycle, SequenceTheorems, TLAPS

--------------------------------------------------------------------------------
(* Type correctness *)

\* Every order is for at least one share.
LEMMA QuantityPositive == \A o \in Orders : Quantity[o] \in Nat /\ Quantity[o] > 0
  BY OrdersAssumption

\* A fill moves a position to a natural number.
LEMMA ApplyFillType ==
  ASSUME NEW pos \in [Symbols -> Nat], NEW o \in Orders
  PROVE  ApplyFill(pos, o) \in [Symbols -> Nat]
  BY OrdersAssumption, QuantityPositive DEF ApplyFill

\* So does posting it to the positions table.
LEMMA PostFillType ==
  ASSUME position \in [Orders -> Nat], NEW o \in Orders, NEW found \in BOOLEAN,
         PostFill(o, found) \/ UNCHANGED position
  PROVE  position' \in [Orders -> Nat]
  <1>1. CASE UNCHANGED position
      BY <1>1
  <1>2. ASSUME NEW p \in Orders, NEW quantity \in Nat,
               position' = [position EXCEPT ![p] = quantity]
        PROVE  position' \in [Orders -> Nat]
      BY <1>2
  <1>3. CASE PostFill(o, found)
    <2>1. PICK p \in Orders :
            \/ UNCHANGED position
            \/ position' = [position EXCEPT ![p] = @ + Quantity[o]]
            \/ position' = [position EXCEPT ![p] = @ - Quantity[o]] /\ position[p] > Quantity[o]
            \/ position' = [position EXCEPT ![p] = 0]
            \/ position' = [position EXCEPT ![p] = Quantity[o]]
        BY <1>3 DEF PostFill, OpenRows
    <2>2. /\ position[p] + Quantity[o] \in Nat /\ Quantity[o] \in Nat
          /\ position[p] > Quantity[o] => position[p] - Quantity[o] \in Nat
        BY QuantityPositive
    <2> QED
        BY <1>1, <1>2, <2>1, <2>2
  <1> QED
      BY <1>1, <1>3

\* The two goroutines at rest.
LEMMA IdleTypes == IdleLoop \in LoopRecord /\ IdleListener \in ListenerRecord
  BY DEF IdleLoop, IdleListener, LoopRecord, ListenerRecord, LoopSteps, ListenerSteps, OrderState

\* Going on to a step changes the step and nothing else, and forgets the order at the end.
LEMMA ProceedType ==
  ASSUME loop \in LoopRecord, loop.ord \in Orders, NEW step \in LoopSteps
  PROVE  /\ Proceed(step) \in LoopRecord
         /\ Proceed(step).pc = step
         /\ Proceed(step).ord = IF step = "idle" THEN NoOrder ELSE loop.ord
         /\ step # "idle" => Proceed(step).state = loop.state /\ Proceed(step).then = loop.then
  BY IdleTypes DEF Proceed, LoopRecord, IdleLoop

\* A save keeps the types, whatever it is given.
LEMMA SaveType ==
  ASSUME TypeOK, NEW o \in Orders, NEW status \in OrderState, NEW linked \in BOOLEAN,
         NEW filled \in Nat, NEW ok \in BOOLEAN, SaveOrderState(o, status, linked, filled, ok)
  PROVE  row' \in [Orders -> RowRecord] /\ faults' \in Nat /\ restarts' \in Nat
  <1> DEFINE saved == [status |-> status, linked |-> linked, filled |-> filled]
  <1>1. saved \in RowRecord
    BY DEF RowRecord, RowStatus
  <1>2. row' = [row EXCEPT ![o] = saved] \/ UNCHANGED row
    BY DEF SaveOrderState
  <1>3. row' \in [Orders -> RowRecord]
    <2> HIDE DEF saved
    <2> QED BY <1>1, <1>2 DEF TypeOK
  <1> QED
    BY <1>3 DEF TypeOK, SaveOrderState, DbReturns

\* So does any statement, of the counters of faults and restarts.
LEMMA DbType ==
  ASSUME TypeOK, NEW ok \in BOOLEAN, DbReturns(ok)
  PROVE  faults' \in Nat /\ restarts' \in Nat
  BY DEF TypeOK, DbReturns

\* So does an insert into the state log.
LEMMA LogType ==
  ASSUME TypeOK, NEW o \in Orders, NEW status \in OrderState, LogStateTransition(o, status)
  PROVE  stateLog' \subseteq Orders \X OrderState /\ faults' \in Nat /\ restarts' \in Nat
  BY DEF TypeOK, LogStateTransition, DbReturns

\* So does a transition, whether it saves, fails to save or does nothing.
LEMMA TransitionType ==
  ASSUME TypeOK, loop.ord \in Orders, NEW newState \in OrderState, NEW linked \in BOOLEAN,
         NEW next \in LoopSteps, Transition(newState, linked, next)
  PROVE  /\ row' \in [Orders -> RowRecord] /\ faults' \in Nat /\ restarts' \in Nat
         /\ loop' \in LoopRecord /\ (loop'.pc # "idle" => loop'.ord \in Orders)
  <1> DEFINE logging == [loop EXCEPT !.pc = "log", !.state = newState, !.then = next]
  <1>1. logging \in LoopRecord /\ logging.ord \in Orders
      BY DEF TypeOK, LoopRecord, LoopSteps
  <1>2. Proceed(next) \in LoopRecord
        /\ (Proceed(next).pc # "idle" => Proceed(next).ord \in Orders)
      BY ProceedType DEF TypeOK
  <1>3. loop' = logging \/ loop' = Proceed(next)
      BY DEF Transition
  <1>4. \/ \E ok \in BOOLEAN : SaveOrderState(loop.ord, newState, linked, 0, ok)
        \/ UNCHANGED <<row, bounds>>
      BY DEF Transition
  <1>5. row' \in [Orders -> RowRecord] /\ faults' \in Nat /\ restarts' \in Nat
    <2>1. CASE UNCHANGED <<row, bounds>>
        BY <2>1 DEF TypeOK, bounds
    <2>2. ASSUME NEW ok \in BOOLEAN, SaveOrderState(loop.ord, newState, linked, 0, ok)
          PROVE  row' \in [Orders -> RowRecord] /\ faults' \in Nat /\ restarts' \in Nat
        BY <2>2, SaveType
    <2> QED
        BY <1>4, <2>1, <2>2
  <1> HIDE DEF logging
  <1> QED
      BY <1>1, <1>2, <1>3, <1>5

\* The types hold at the start.
LEMMA TypeInit == Init => TypeOK
  <1> SUFFICES ASSUME Init PROVE TypeOK
      OBVIOUS
  <1>1. row \in [Orders -> RowRecord]
      BY DEF Init, RowRecord, RowStatus
  <1> QED
      BY <1>1, IdleTypes DEF Init, TypeOK, IdleLoop, IdleListener, TaskSteps

\* No step breaks a type.
LEMMA TypeStep == TypeOK /\ [Next]_vars => TypeOK'
  <1> SUFFICES ASSUME TypeOK, [Next]_vars PROVE TypeOK'
      OBVIOUS
  <1>1. ASSUME NEW o \in Orders, PublishSignal(o)
         PROVE  TypeOK'
    <2>1. signals' \in Seq(Orders)
      BY <1>1, AppendProperties DEF PublishSignal, TypeOK
    <2> QED
      BY <1>1, <2>1
      DEF PublishSignal, TypeOK, durable, broker, bounds
  <1>2. CASE Dequeue
    <2>1. signals' \in Seq(Orders) /\ Head(signals) \in Orders
      BY <1>2, HeadTailProperties DEF Dequeue, TypeOK
    <2>2. loop' \in LoopRecord /\ (loop'.pc # "idle" => loop'.ord \in Orders)
      BY <1>2, <2>1, IdleTypes
      DEF Dequeue, TypeOK, Evaluate, IdleLoop, LoopRecord, LoopSteps, OrderState
    <2> QED
      BY <1>2, <2>1, <2>2
      DEF Dequeue, TypeOK, durable, broker, bounds
  <1>3. CASE CreateOrder
    <2>1. row' \in [Orders -> RowRecord]
      <3>1. [row[loop.ord] EXCEPT !.status = loop.state] \in RowRecord
        <4>1. row[loop.ord] \in RowRecord /\ loop.state \in RowStatus
            BY <1>3 DEF CreateOrder, TypeOK, LoopRecord, RowStatus
        <4> QED
            BY <4>1 DEF RowRecord
      <3>2. \/ row' = [row EXCEPT ![loop.ord] = [row[loop.ord] EXCEPT !.status = loop.state]]
            \/ UNCHANGED row
          BY <1>3 DEF CreateOrder
      <3> QED
          BY <1>3, <3>1, <3>2 DEF CreateOrder, TypeOK
    <2>2. loop' \in LoopRecord /\ (loop'.pc # "idle" => loop'.ord \in Orders)
      BY <1>3, ProceedType DEF CreateOrder, TypeOK, LoopSteps
    <2>3. faults' \in Nat /\ restarts' \in Nat
      BY <1>3, DbType DEF CreateOrder, TypeOK
    <2> QED
      BY <1>3, <2>1, <2>2, <2>3
      DEF CreateOrder, TypeOK, durable, broker, bounds
  <1>4. CASE AddPendingApproval
    <2>1. pending' \subseteq Orders
      BY <1>4 DEF AddPendingApproval, TypeOK
    <2>2. loop' \in LoopRecord /\ (loop'.pc # "idle" => loop'.ord \in Orders)
      BY <1>4, IdleTypes DEF AddPendingApproval, TypeOK, IdleLoop
    <2> QED
      BY <1>4, <2>1, <2>2
      DEF AddPendingApproval, TypeOK, durable, broker, bounds
  <1>5. CASE CheckAll
    <2>1. verdict' \in [Orders -> {"none", "passed", "failed"}]
      BY <1>5 DEF CheckAll, TypeOK
    <2>2. loop' \in LoopRecord /\ (loop'.pc # "idle" => loop'.ord \in Orders)
      BY <1>5, ProceedType DEF CheckAll, TypeOK, LoopSteps
    <2> QED
      BY <1>5, <2>1, <2>2
      DEF CheckAll, TypeOK, durable, broker, bounds
  <1>6. CASE LoopTransition
    <2>1. /\ row' \in [Orders -> RowRecord] /\ faults' \in Nat /\ restarts' \in Nat
          /\ loop' \in LoopRecord /\ (loop'.pc # "idle" => loop'.ord \in Orders)
      BY <1>6, TransitionType DEF LoopTransition, TypeOK, OrderState, LoopSteps
    <2> QED
      BY <1>6, <2>1 DEF LoopTransition, TypeOK, durable, broker, bounds
  <1>7. CASE LoopLogTransition
    <2>1. stateLog' \subseteq Orders \X OrderState /\ faults' \in Nat /\ restarts' \in Nat
      BY <1>7, LogType DEF LoopLogTransition, TypeOK, LoopRecord
    <2>2. loop' \in LoopRecord /\ (loop'.pc # "idle" => loop'.ord \in Orders)
      BY <1>7, ProceedType DEF LoopLogTransition, TypeOK, LoopRecord
    <2> QED
      BY <1>7, <2>1, <2>2
      DEF LoopLogTransition, TypeOK, durable, broker, bounds
  <1>8. CASE SubmitToPaper
    <2>1. task' \in [Orders -> TaskSteps]
      BY <1>8 DEF SubmitToPaper, TypeOK, TaskSteps
    <2>2. sent' \in [Orders -> Nat]
      BY <1>8 DEF SubmitToPaper, TypeOK
    <2>3. loop' \in LoopRecord /\ (loop'.pc # "idle" => loop'.ord \in Orders)
      BY <1>8, ProceedType DEF SubmitToPaper, TypeOK, LoopSteps
    <2> QED
      BY <1>8, <2>1, <2>2, <2>3
      DEF SubmitToPaper, TypeOK, durable, broker, bounds
  <1>9. CASE SubmitToAlpaca
    <2>1. task' \in [Orders -> TaskSteps]
      BY <1>9 DEF SubmitToAlpaca, TypeOK, TaskSteps
    <2>2. sent' \in [Orders -> Nat]
      BY <1>9 DEF SubmitToAlpaca, TypeOK
    <2>3. loop' \in LoopRecord /\ (loop'.pc # "idle" => loop'.ord \in Orders)
      BY <1>9, ProceedType DEF SubmitToAlpaca, TypeOK, LoopSteps
    <2> QED
      BY <1>9, <2>1, <2>2, <2>3
      DEF SubmitToAlpaca, TypeOK, durable, broker, bounds
  <1>10. CASE LinkBrokerOrder
    <2>1. row' \in [Orders -> RowRecord] /\ faults' \in Nat /\ restarts' \in Nat
      <3>1. PICK ok \in BOOLEAN : SaveOrderState(loop.ord, loop.state, TRUE, 0, ok)
          BY <1>10 DEF LinkBrokerOrder
      <3>2. loop.ord \in Orders /\ loop.state \in OrderState
          BY <1>10 DEF LinkBrokerOrder, TypeOK, LoopRecord
      <3> QED
          BY <3>1, <3>2, SaveType
    <2>2. loop' \in LoopRecord /\ (loop'.pc # "idle" => loop'.ord \in Orders)
      BY <1>10, ProceedType DEF LinkBrokerOrder, TypeOK, LoopSteps
    <2> QED
      BY <1>10, <2>1, <2>2
      DEF LinkBrokerOrder, TypeOK, durable, broker, bounds
  <1>11. ASSUME NEW o \in Orders, PriceCrosses(o)
         PROVE  TypeOK'
    <2>1. task' \in [Orders -> TaskSteps]
      BY <1>11 DEF PriceCrosses, TypeOK, TaskSteps
    <2> QED
      BY <1>11, <2>1
      DEF PriceCrosses, TypeOK, durable, broker, bounds
  <1>12. ASSUME NEW o \in Orders, SimulateFill(o)
         PROVE  TypeOK'
    <2>1. task' \in [Orders -> TaskSteps]
      BY <1>12 DEF SimulateFill, TypeOK, TaskSteps
    <2>2. simPosition' \in [Symbols -> Nat]
      BY <1>12, ApplyFillType DEF SimulateFill, TypeOK
    <2>3. executed' \in [Orders -> Nat]
      BY <1>12, QuantityPositive DEF SimulateFill, TypeOK
    <2> QED
      BY <1>12, <2>1, <2>2, <2>3
      DEF SimulateFill, TypeOK, durable, broker, bounds
  <1>13. ASSUME NEW o \in Orders, SendUpdate(o)
         PROVE  TypeOK'
    <2>1. updateCh' \in Seq(Orders)
      BY <1>13, AppendProperties DEF SendUpdate, TypeOK
    <2>2. task' \in [Orders -> TaskSteps]
      BY <1>13 DEF SendUpdate, TypeOK, TaskSteps
    <2> QED
      BY <1>13, <2>1, <2>2
      DEF SendUpdate, TypeOK, durable, broker, bounds
  <1>14. ASSUME NEW o \in Orders, LiveExecute(o)
         PROVE  TypeOK'
    <2>1. task' \in [Orders -> TaskSteps]
      BY <1>14 DEF LiveExecute, TypeOK, TaskSteps
    <2>2. executed' \in [Orders -> Nat]
      BY <1>14, QuantityPositive DEF LiveExecute, TypeOK
    <2> QED
      BY <1>14, <2>1, <2>2
      DEF LiveExecute, TypeOK, durable, broker, bounds
  <1>15. CASE ReceiveUpdate
    <2>1. updateCh' \in Seq(Orders) /\ Head(updateCh) \in Orders
      BY <1>15, HeadTailProperties DEF ReceiveUpdate, TypeOK
    <2>2. listener' \in ListenerRecord /\ (listener'.pc # "idle" => listener'.ord \in Orders)
      BY <1>15, <2>1, IdleTypes
      DEF ReceiveUpdate, TypeOK, IdleListener, ListenerRecord, ListenerSteps
    <2> QED
      BY <1>15, <2>1, <2>2
      DEF ReceiveUpdate, TypeOK, durable, broker, bounds
  <1>16. CASE ReadOrder
    <2> DEFINE filled == row[listener.ord].filled + Quantity[listener.ord]
    <2> DEFINE status == FillState(listener.ord, filled)
    <2>1. filled \in Nat /\ status \in OrderState
      BY <1>16, QuantityPositive DEF ReadOrder, TypeOK, RowRecord, FillState, OrderState
    <2>2. \/ listener' = [listener EXCEPT !.pc = "save", !.status = status, !.filled = filled]
          \/ listener' = IdleListener
      BY <1>16 DEF ReadOrder
    <2>3. listener' \in ListenerRecord /\ (listener'.pc # "idle" => listener'.ord \in Orders)
      <3> HIDE DEF filled, status
      <3> QED
          BY <1>16, <2>1, <2>2, IdleTypes
          DEF ReadOrder, TypeOK, IdleListener, ListenerRecord, ListenerSteps
    <2>4. faults' \in Nat /\ restarts' \in Nat
      BY <1>16, DbType DEF ReadOrder
    <2> QED
      BY <1>16, <2>3, <2>4 DEF ReadOrder, TypeOK, durable, broker, bounds
  <1>17. CASE SaveFill
    <2>1. row' \in [Orders -> RowRecord] /\ faults' \in Nat /\ restarts' \in Nat
      <3>1. PICK ok \in BOOLEAN :
              SaveOrderState(listener.ord, listener.status, TRUE, listener.filled, ok)
          BY <1>17 DEF SaveFill
      <3>2. listener.ord \in Orders /\ listener.status \in OrderState /\ listener.filled \in Nat
          BY <1>17 DEF SaveFill, TypeOK, ListenerRecord
      <3> QED
          BY <3>1, <3>2, SaveType
    <2>2. listener' \in ListenerRecord /\ (listener'.pc # "idle" => listener'.ord \in Orders)
      BY <1>17, IdleTypes DEF SaveFill, TypeOK, IdleListener, ListenerRecord, ListenerSteps
    <2> QED
      BY <1>17, <2>1, <2>2
      DEF SaveFill, TypeOK, durable, broker, bounds
  <1>18. CASE LogFill
    <2>1. stateLog' \subseteq Orders \X OrderState /\ faults' \in Nat /\ restarts' \in Nat
      BY <1>18, LogType DEF LogFill, TypeOK, ListenerRecord
    <2>2. listener' \in ListenerRecord /\ (listener'.pc # "idle" => listener'.ord \in Orders)
      BY <1>18 DEF LogFill, TypeOK, ListenerRecord, ListenerSteps
    <2> QED
      BY <1>18, <2>1, <2>2
      DEF LogFill, TypeOK, durable, broker, bounds
  <1>19. CASE UpdatePosition
    <2>1. position' \in [Orders -> Nat]
      <3>1. PICK found \in BOOLEAN : PostFill(listener.ord, found) \/ UNCHANGED position
          BY <1>19 DEF UpdatePosition
      <3>2. position \in [Orders -> Nat] /\ listener.ord \in Orders
          BY <1>19 DEF UpdatePosition, TypeOK
      <3> QED
          BY <3>1, <3>2, PostFillType
    <2>2. posted' \in [Orders -> Nat]
      <3>1. \/ posted' = [posted EXCEPT ![listener.ord] = @ + Quantity[listener.ord]]
            \/ UNCHANGED posted
          BY <1>19 DEF UpdatePosition
      <3>2. posted \in [Orders -> Nat] /\ listener.ord \in Orders
          BY <1>19 DEF UpdatePosition, TypeOK
      <3> QED
          BY <3>1, <3>2, QuantityPositive
    <2>3. listener' \in ListenerRecord /\ (listener'.pc # "idle" => listener'.ord \in Orders)
      BY <1>19, IdleTypes DEF UpdatePosition, TypeOK, IdleListener
    <2>4. faults' \in Nat /\ restarts' \in Nat
      BY <1>19, DbType DEF UpdatePosition, TypeOK
    <2> QED
      BY <1>19, <2>1, <2>2, <2>3, <2>4
      DEF UpdatePosition, TypeOK, durable, broker, bounds
  <1>20. ASSUME NEW o \in Orders, NEW status \in {"CANCELLED", "APPROVED", "REJECTED"},
                GatewayUpdate(o, status)
         PROVE  TypeOK'
    <2>1. row' \in [Orders -> RowRecord]
      BY <1>20 DEF GatewayUpdate, TypeOK, RowRecord, RowStatus, OrderState
    <2> QED
      BY <1>20, <2>1
      DEF GatewayUpdate, TypeOK, durable, broker, bounds
  <1>21. ASSUME NEW on \in BOOLEAN, SetKillKey(on)
         PROVE  TypeOK'
      BY <1>21 DEF SetKillKey, TypeOK, durable, broker, bounds
  <1>22. ASSUME NEW o \in Orders, ExpireApproval(o)
         PROVE  TypeOK'
      BY <1>22 DEF ExpireApproval, TypeOK, durable, broker, bounds
  <1>23. ASSUME NEW m \in Modes, Restart(m)
         PROVE  TypeOK'
    <2>1. signals' \in Seq(Orders) /\ updateCh' \in Seq(Orders)
      BY <1>23 DEF Restart, TypeOK
    <2>2. loop' \in LoopRecord /\ (loop'.pc # "idle" => loop'.ord \in Orders)
      BY <1>23, IdleTypes DEF Restart, TypeOK, IdleLoop
    <2>3. listener' \in ListenerRecord /\ (listener'.pc # "idle" => listener'.ord \in Orders)
      BY <1>23, IdleTypes DEF Restart, TypeOK, IdleListener
    <2>4. task' \in [Orders -> TaskSteps]
      BY <1>23 DEF Restart, TypeOK, TaskSteps
    <2> QED
      BY <1>23, <2>1, <2>2, <2>3, <2>4
      DEF Restart, TypeOK, durable, broker, bounds
  <1>24. CASE UNCHANGED vars
      BY <1>24 DEF vars, TypeOK, durable, broker, bounds
  <1> QED
      BY <1>1, <1>2, <1>3, <1>4, <1>5, <1>6, <1>7, <1>8, <1>9, <1>10, <1>11, <1>12, 
         <1>13, <1>14, <1>15, <1>16, <1>17, <1>18, <1>19, <1>20, <1>21, <1>22, <1>23, <1>24
      DEF Next, LoopStep, BrokerStep, ListenerStep

\* Every variable keeps its type in every reachable state.
THEOREM TypeCorrect == Spec => []TypeOK
  <1>1. Init => TypeOK
      BY TypeInit
  <1>2. TypeOK /\ [Next]_vars => TypeOK'
      BY TypeStep
  <1> QED
      BY <1>1, <1>2, PTL DEF Spec
================================================================================
