------------------------------ MODULE StreamProofs ------------------------------
(***************************************************************************)
(* Theorems of StreamConnection, for every set of symbols, every watchlist *)
(* and every number of connections, failures and changes: types, that      *)
(* calls of Connect never overlap, that no watched symbol is forgotten and *)
(* that the connection in use is pinged. They rest on StreamAssumption.    *)
(***************************************************************************)
EXTENDS StreamConnection, FiniteSetTheorems, TLAPS

\* The steps from the one that follows Publish to the end of the read loop.
Owning == {"announce", "copy", "fetch", "write", "spawn", "loop", "read", "lost"}

\* Those among them in which Subscribe sends by itself.
Announced == {"copy", "fetch", "write", "spawn", "loop", "read"}

\* Those in which the symbols have been copied.
Copied == {"fetch", "write", "spawn", "loop", "read"}

Used(k) == driver[k].pc # "idle"

\* Connect is called for the next connection when the read loop of the last has ended.
InTurn == \A j, k \in Conns : Used(k) /\ j < k => driver[j].pc = "done"

\* The provider's connection is the current driver's, or Disconnect has taken it.
Ownership ==
  /\ conn # None => Used(conn)
  /\ \A k \in Conns : driver[k].pc \in Owning => conn \in {k, None}
  /\ \A k \in Conns : driver[k].pc = "write" => driver[k].conn = k

\* Until the process is told to stop, the state says what the driver has.
InService ==
  /\ cancelled = {} => shutdown = "run"
  /\ \A k \in Conns : driver[k].pc \in Owning /\ cancelled = {} => conn = k
  /\ \A k \in Conns : driver[k].pc \in Announced /\ cancelled = {} => state = "connected"

\* A ping loop writes to a connection not older than its own, nor newer than the current.
Pings ==
  /\ \A j \in pinging : driver[j].pc \in {"loop", "read", "lost", "done"}
  /\ \A j \in pinging : conn # None => j <= conn
  /\ \A j \in Conns : pinged[j] # None =>
       /\ j <= pinged[j]
       /\ Used(pinged[j])
       /\ conn # None => pinged[j] <= conn
  /\ \A k \in Conns : InUse(k) => k \in pinging

\* What driver k is going to send.
Promised(k) == IF driver[k].pc \in {"fetch", "write"} THEN driver[k].syms ELSE {}

\* The list of symbols reaches the server by one of the two who send.
Delivery ==
  /\ reload.op = "unsubscribe" /\ reload.pc \in {"check", "fetch", "write"} =>
       reload.syms \cap symbols = {}
  /\ reload.pc = "write" => reload.conn # None
  /\ \A k \in Conns :
       driver[k].pc \in Copied /\ conn = k /\ k \in live /\ cancelled = {} =>
         symbols \ Untold(k) \subseteq served[k] \cup Promised(k)

IInv == TypeOK /\ InTurn /\ Ownership /\ InService /\ Pings /\ Delivery

--------------------------------------------------------------------------------
(* The first state *)

LEMMA CallType ==
  ASSUME NEW op \in {"subscribe", "unsubscribe"}, NEW syms \in SUBSET Symbols,
         NEW remove \in SUBSET Symbols, NEW target \in SUBSET Symbols
  PROVE  Call(op, syms, remove, target) \in Reload
BY DEF Call, Reload

LEMMA DriverType == Idle \in Driver /\ (\A pc \in ConnectSteps \cup ReadSteps \cup {"idle", "done"} :
                      [Idle EXCEPT !.pc = pc] \in Driver)
BY DEF Idle, Driver

LEMMA StartInv == Init => IInv
<1> SUFFICES ASSUME Init PROVE IInv
    OBVIOUS
<1>1. 1 \in Conns /\ Starting \in Driver /\ Idle \in Driver
    BY StreamAssumption, DriverType DEF Conns, Starting, ConnectSteps
<1>2. driver \in [Conns -> Driver]
    BY <1>1 DEF Init
<1>3. reload \in Reload
    BY CallType, StreamAssumption DEF Init
<1>4. TypeOK
    BY <1>2, <1>3, StreamAssumption DEF Init, TypeOK, Conns
<1>5. \A k \in Conns : driver[k].pc \in {"idle", "start"} /\ (driver[k].pc = "start" => k = 1)
    BY DEF Init, Starting, Idle
<1>6. InTurn
    BY <1>5 DEF InTurn, Used, Conns
<1>7. Ownership /\ InService
    BY <1>5 DEF Init, Ownership, InService, Owning, Announced
<1>8. Pings
    BY <1>5 DEF Init, Pings, InUse
<1>9. Delivery
    BY <1>5 DEF Init, Delivery, Copied, Call
<1> QED
    BY <1>4, <1>6, <1>7, <1>8, <1>9 DEF IInv
--------------------------------------------------------------------------------
(* Types *)

LEMMA LeaveType ==
  ASSUME TypeOK, NEW k \in Conns, NEW pc \in ConnectSteps \cup ReadSteps \cup {"idle", "done"},
         GoTo(k, pc) \/ Leave(k, pc)
  PROVE  driver' \in [Conns -> Driver]
<1>1. [Idle EXCEPT !.pc = pc] \in Driver
    BY DriverType
<1>2. [driver[k] EXCEPT !.pc = pc] \in Driver
    BY DEF TypeOK, Driver
<1> QED
    BY <1>1, <1>2 DEF TypeOK, GoTo, Leave

LEMMA ToldType ==
  ASSUME TypeOK, NEW c \in Conns, NEW now \in SUBSET Symbols
  PROVE  Told(c, now) \in [Conns -> SUBSET Symbols]
BY DEF Told, TypeOK

LEMMA ConnectType ==
  ASSUME TypeOK, Ownership, NEW k \in Conns, Connect(k)
  PROVE  TypeOK'
<1> USE DEF ConnectSteps, ReadSteps
<1>1. CASE Start(k)
    BY <1>1, LeaveType DEF Start, TypeOK, netVars, pingVars, downVars, reloadVars
<1>2. CASE Check(k)
    BY <1>2, LeaveType DEF Check, TypeOK, netVars, pingVars, downVars, reloadVars
<1>3. CASE DialSucceeds(k)
    BY <1>3, LeaveType DEF DialSucceeds, TypeOK, pingVars, downVars, reloadVars
<1>4. CASE DialFails(k)
  <2>1. driver[k] \in Driver /\ driver[k].attempt + 1 \in Nat
      BY DEF TypeOK, Driver
  <2>2. ASSUME NEW n \in Nat
        PROVE  [driver[k] EXCEPT !.pc = "pause", !.attempt = n] \in Driver
      BY <2>1 DEF Driver
  <2>3. [driver[k] EXCEPT !.pc = "pause", !.attempt = driver[k].attempt + 1] \in Driver
      BY <2>1, <2>2
  <2>4. driver' \in [Conns -> Driver]
      BY <1>4, <2>3 DEF DialFails, TypeOK
  <2> QED
      BY <1>4, <2>4 DEF DialFails, TypeOK, netVars, pingVars, downVars, reloadVars
<1>5. CASE Pause(k)
    BY <1>5, LeaveType DEF Pause, TypeOK, netVars, pingVars, downVars, reloadVars
<1>6. CASE Publish(k)
    BY <1>6, LeaveType DEF Publish, TypeOK, pingVars, downVars, reloadVars
<1>7. CASE Announce(k)
    BY <1>7, LeaveType DEF Announce, TypeOK, netVars, pingVars, downVars, reloadVars
<1>8. CASE Copy(k)
  <2>1. driver[k] \in Driver /\ symbols \in SUBSET Symbols
      BY DEF TypeOK
  <2>2. ASSUME NEW pc \in {"spawn", "fetch"}
        PROVE  [driver[k] EXCEPT !.pc = pc, !.syms = symbols] \in Driver
      BY <2>1 DEF Driver
  <2>3. driver' \in [Conns -> Driver]
      BY <1>8, <2>2 DEF Copy, TypeOK
  <2> QED
      BY <1>8, <2>3 DEF Copy, TypeOK, netVars, pingVars, downVars, reloadVars
<1>9. CASE Fetch(k)
  <2>1. [driver[k] EXCEPT !.pc = "write", !.conn = conn] \in Driver
      BY DEF TypeOK, Driver
  <2>2. driver' \in [Conns -> Driver]
      BY <1>9, <2>1, LeaveType DEF Fetch, TypeOK
  <2> QED
      BY <1>9, <2>2 DEF Fetch, TypeOK, netVars, pingVars, downVars, reloadVars
<1>10. CASE Write(k)
  <2>1. driver[k].conn = k /\ driver[k].syms \subseteq Symbols
      BY <1>10 DEF Write, At, Ownership, TypeOK, Driver
  <2>2. served' \in [Conns -> SUBSET Symbols]
      BY <1>10, <2>1, ToldType DEF Write, TypeOK
  <2> QED
      BY <1>10, <2>2, LeaveType DEF Write, TypeOK, pingVars, downVars, reloadVars
<1>11. CASE Spawn(k)
    BY <1>11, LeaveType DEF Spawn, TypeOK, netVars, downVars, reloadVars
<1> QED
    BY <1>1, <1>2, <1>3, <1>4, <1>5, <1>6, <1>7, <1>8, <1>9, <1>10, <1>11 DEF Connect

LEMMA LoopType ==
  ASSUME TypeOK, NEW k \in Conns, readLoop(k) \/ Message(k)
  PROVE  TypeOK'
<1> USE DEF ConnectSteps, ReadSteps
<1>1. CASE Loop(k)
  <2>1. [driver[k] EXCEPT !.pc = "read", !.conn = conn] \in Driver
      BY DEF TypeOK, Driver
  <2>2. driver' \in [Conns -> Driver]
      BY <1>1, <2>1, LeaveType DEF Loop, TypeOK
  <2> QED
      BY <1>1, <2>2 DEF Loop, TypeOK, netVars, pingVars, downVars, reloadVars
<1>2. CASE ReadFails(k)
    BY <1>2, LeaveType DEF ReadFails, TypeOK, netVars, pingVars, downVars, reloadVars
<1>3. CASE Reconnect(k)
  <2>1. [driver[k] EXCEPT !.pc = "done"] \in Driver
      BY DEF TypeOK, Driver
  <2>2. Starting \in Driver
      BY DriverType DEF Starting
  <2>3. driver' \in [Conns -> Driver]
      BY <1>3, <2>1, <2>2 DEF Reconnect, TypeOK
  <2> QED
      BY <1>3, <2>3 DEF Reconnect, TypeOK, netVars, pingVars, downVars, reloadVars
<1>4. CASE Message(k)
    BY <1>4, LeaveType DEF Message, TypeOK, netVars, pingVars, downVars, reloadVars
<1> QED
    BY <1>1, <1>2, <1>3, <1>4 DEF readLoop

LEMMA PingType ==
  ASSUME TypeOK, NEW k \in Conns, pingLoop(k)
  PROVE  TypeOK'
BY DEF pingLoop, PingReads, PingWrites, PingEnds, TypeOK, netVars, downVars, reloadVars

LEMMA ReturnedType ==
  ASSUME TypeOK, Returned
  PROVE  reload' \in Reload /\ watchlist' \subseteq Symbols
<1>1. reload.remove \subseteq Symbols /\ reload.target \subseteq Symbols
    BY DEF TypeOK, Reload
<1>2. Call("unsubscribe", reload.remove, {}, reload.target) \in Reload
    BY <1>1, CallType
<1>3. [Call("subscribe", {}, {}, reload.target) EXCEPT !.pc = "idle"] \in Reload
    BY <1>1 DEF Call, Reload
<1> QED
    BY <1>1, <1>2, <1>3 DEF Returned, TypeOK

LEMMA ReloadType ==
  ASSUME TypeOK, Reloading, reload.pc = "write" => reload.conn # None
  PROVE  TypeOK'
<1>1. CASE Edit
  <2>1. reload.syms \subseteq Symbols
      BY DEF TypeOK, Reload
  <2>2. reload' \in Reload /\ watchlist' \subseteq Symbols
    <3>1. \A syms \in SUBSET Symbols :
            [reload EXCEPT !.pc = "check", !.syms = syms] \in Reload
        BY DEF TypeOK, Reload
    <3>2. [reload EXCEPT !.pc = "check"] \in Reload
        BY DEF TypeOK, Reload
    <3>3. reload.syms \ symbols \in SUBSET Symbols /\ watchlist \subseteq Symbols
        BY <2>1 DEF TypeOK
    <3> QED
        BY <1>1, <2>1, <3>1, <3>2, <3>3, ReturnedType DEF Edit
  <2> QED
      BY <1>1, <2>1, <2>2 DEF Edit, TypeOK, netVars, pingVars, downVars
<1>2. CASE CheckConnected
  <2>1. [reload EXCEPT !.pc = "fetch"] \in Reload
      BY DEF TypeOK, Reload
  <2>2. reload' \in Reload /\ watchlist' \subseteq Symbols
      BY <1>2, <2>1, ReturnedType DEF CheckConnected, TypeOK
  <2> QED
      BY <1>2, <2>2 DEF CheckConnected, TypeOK, netVars, pingVars, downVars
<1>3. CASE FetchConn
  <2>1. [reload EXCEPT !.pc = "write", !.conn = conn] \in Reload
      BY DEF TypeOK, Reload
  <2>2. reload' \in Reload /\ watchlist' \subseteq Symbols
      BY <1>3, <2>1, ReturnedType DEF FetchConn, TypeOK
  <2> QED
      BY <1>3, <2>2 DEF FetchConn, TypeOK, netVars, pingVars, downVars
<1>4. CASE Send
  <2>1. reload.conn \in Conns /\ reload.syms \subseteq Symbols
      BY <1>4 DEF Send, TypeOK, Reload
  <2>2. served' \in [Conns -> SUBSET Symbols]
      BY <1>4, <2>1, ToldType DEF Send, TypeOK
  <2>3. reload' \in Reload /\ watchlist' \subseteq Symbols
      BY <1>4, ReturnedType DEF Send
  <2> QED
      BY <1>4, <2>2, <2>3 DEF Send, TypeOK, pingVars, downVars
<1> QED
    BY <1>1, <1>2, <1>3, <1>4 DEF Reloading

LEMMA StartReloadType ==
  ASSUME TypeOK, NEW new \in SUBSET Symbols, StartReload(new)
  PROVE  TypeOK'
<1>1. reload' \in Reload
    BY CallType DEF StartReload, TypeOK
<1> QED
    BY <1>1, StreamAssumption DEF StartReload, TypeOK, netVars, pingVars, downVars

\* What is left: the connection breaks, and the process stops.
Stopping == Cancel \/ Disconnect

LEMMA StoppingType ==
  ASSUME TypeOK, Stopping
  PROVE  TypeOK'
BY DEF Stopping, Cancel, Disconnect, CancelProvider, TakeConn, CloseConn, Report, Wait,
       ShutdownStep, TypeOK, netVars, pingVars, reloadVars

LEMMA BreakType ==
  ASSUME TypeOK, NEW c \in Conns, Break(c)
  PROVE  TypeOK'
BY DEF Break, TypeOK, pingVars, downVars, reloadVars

\* Every step keeps the types.
LEMMA StepType == TypeOK /\ Ownership /\ Delivery /\ [Next]_vars => TypeOK'
<1> SUFFICES ASSUME TypeOK, Ownership, Delivery, [Next]_vars PROVE TypeOK'
    OBVIOUS
<1>1. CASE UNCHANGED vars
    BY <1>1 DEF vars, TypeOK, netVars, pingVars, downVars, reloadVars
<1>2. reload.pc = "write" => reload.conn # None
    BY DEF Delivery
<1> QED
    BY <1>1, <1>2, ConnectType, LoopType, PingType, ReloadType, StartReloadType,
       StoppingType, BreakType DEF Next, Stopping
--------------------------------------------------------------------------------
(* The drivers *)

Active(k) == driver[k].pc \notin {"idle", "done"}

LEMMA Alone ==
  ASSUME InTurn, NEW k \in Conns, Active(k), NEW j \in Conns, j # k
  PROVE  ~Active(j) /\ (j < k => driver[j].pc = "done") /\ (k < j => ~Used(j))
BY StreamAssumption DEF InTurn, Active, Used, Conns

\* Driver k goes on and no other does.
OnlyMoves(k) ==
  /\ Active(k)
  /\ driver'[k].pc # "idle"
  /\ \A j \in Conns \ {k} : driver'[j] = driver[j]

\* Driver k goes to pc and no other moves.
To(k, pc) ==
  /\ driver'[k].pc = pc
  /\ \A j \in Conns \ {k} : driver'[j] = driver[j]

LEMMA Going ==
  ASSUME TypeOK, NEW k \in Conns, NEW pc, GoTo(k, pc) \/ Leave(k, pc)
  PROVE  To(k, pc)
BY DEF TypeOK, Driver, GoTo, Leave, Idle, To

LEMMA MovesAlone ==
  ASSUME TypeOK, NEW k \in Conns,
         (Connect(k) \/ Loop(k) \/ ReadFails(k) \/ Message(k))
  PROVE  OnlyMoves(k)
<1>1. \E pc \in ConnectSteps \cup ReadSteps \cup {"done"} : To(k, pc)
  <2>1. CASE Start(k) \/ Check(k) \/ DialSucceeds(k) \/ Pause(k)
      BY <2>1, Going DEF Start, Check, DialSucceeds, Pause, ConnectSteps
  <2>2. CASE Publish(k) \/ Announce(k) \/ Write(k) \/ Spawn(k)
      BY <2>2, Going DEF Publish, Announce, Write, Spawn, ConnectSteps, ReadSteps
  <2>3. CASE ReadFails(k) \/ Message(k)
      BY <2>3, Going DEF ReadFails, Message, ReadSteps
  <2>4. CASE Loop(k)
      BY <2>4, Going DEF Loop, ReadSteps, To, TypeOK, Driver
  <2>5. CASE Fetch(k)
      BY <2>5, Going DEF Fetch, ConnectSteps, To, TypeOK, Driver
  <2>6. CASE DialFails(k) \/ Copy(k)
      BY <2>6 DEF DialFails, Copy, ConnectSteps, To, TypeOK, Driver
  <2> QED
      BY <2>1, <2>2, <2>3, <2>4, <2>5, <2>6 DEF Connect
<1>2. Active(k)
    BY DEF Active, Connect, At, Start, Check, DialSucceeds, DialFails, Pause, Publish,
           Announce, Copy, Fetch, Write, Spawn, Loop, ReadFails, Message
<1> QED
    BY <1>1, <1>2 DEF OnlyMoves, To, ConnectSteps, ReadSteps

LEMMA TurnStep ==
  ASSUME InTurn, NEW k \in Conns, OnlyMoves(k)
  PROVE  InTurn'
<1> SUFFICES ASSUME NEW i \in Conns, NEW j \in Conns, Used(j)', i < j
             PROVE  driver'[i].pc = "done"
    BY DEF InTurn
<1>1. CASE i = k
  <2>1. j # k /\ k < j /\ ~Used(j)
      BY <1>1, Alone, StreamAssumption DEF OnlyMoves, Conns
  <2> QED
      BY <2>1 DEF OnlyMoves, Used
<1>2. CASE i # k
  <2>1. driver[i].pc = "done"
      BY <1>2 DEF InTurn, OnlyMoves, Used, Active
  <2> QED
      BY <1>2, <2>1 DEF OnlyMoves
<1> QED
    BY <1>1, <1>2

\* Every variable but the drivers, the state and the watchlist.
othersVars == <<symbols, conn, live, served, pinging, pinged, cancelled, shutdown,
                reload>>

Rest == InTurn /\ Ownership /\ InService /\ Pings /\ Delivery

\* The symbols of the list that no one is going to send on k have been sent.
Delivered(k) == symbols \ Untold(k) \subseteq served[k] \cup Promised(k)

\* A step of driver k that only moves it along keeps the invariant, if it does not skip one
\* of the steps the invariant speaks of.
LEMMA QuietStep ==
  ASSUME IInv, NEW k \in Conns, OnlyMoves(k), UNCHANGED othersVars,
         driver'[k].pc \in Owning => driver[k].pc \in Owning,
         driver'[k].pc \in Announced /\ cancelled = {} => state' = "connected",
         driver'[k].pc = "write" => driver'[k].conn = k,
         driver[k].pc \in {"loop", "read", "lost"} =>
           driver'[k].pc \in {"loop", "read", "lost", "done"},
         driver'[k].pc \in {"loop", "read"} => driver[k].pc \in {"loop", "read"},
         driver'[k].pc \in Copied /\ conn = k /\ k \in live /\ cancelled = {} =>
           Delivered(k)'
  PROVE  Rest'
<1> USE DEF IInv
<1>1. InTurn'
    BY TurnStep
<1>2. Ownership'
    BY DEF Ownership, OnlyMoves, othersVars, Used, TypeOK
<1>3. InService'
  <2>1. \A j \in Conns \ {k} : driver'[j].pc \notin Announced
      BY Alone DEF OnlyMoves, Active, Announced
  <2> QED
      BY <2>1 DEF InService, OnlyMoves, othersVars
<1>4. Pings'
  <2>1. \A j \in Conns : Used(j) => Used(j)'
      BY DEF OnlyMoves, Used
  <2>2. \A j \in Conns : InUse(j)' => InUse(j)
      BY DEF InUse, OnlyMoves, othersVars
  <2>3. \A j \in pinging : driver'[j].pc \in {"loop", "read", "lost", "done"}
      BY DEF Pings, OnlyMoves, Active, TypeOK
  <2>4. \A j \in Conns : pinged[j] \in Conns \cup {None}
      BY DEF TypeOK
  <2> QED
      BY <2>1, <2>2, <2>3, <2>4 DEF Pings, othersVars
<1>5. Delivery'
  <2>1. ASSUME NEW j \in Conns \ {k} PROVE Delivered(j)' = Delivered(j)
      BY DEF Delivered, Promised, OnlyMoves, othersVars, Untold
  <2>2. ASSUME NEW j \in Conns,
               driver'[j].pc \in Copied /\ conn' = j /\ j \in live' /\ cancelled' = {}
        PROVE  Delivered(j)'
      BY <2>1, <2>2 DEF Delivery, Delivered, OnlyMoves, othersVars
  <2> QED
      BY <2>2 DEF Delivery, Delivered, othersVars
<1> QED
    BY <1>1, <1>2, <1>3, <1>4, <1>5 DEF Rest
--------------------------------------------------------------------------------
(* Connect keeps the invariant *)

LEMMA EarlyInv ==
  ASSUME IInv, NEW k \in Conns,
         Start(k) \/ Check(k) \/ DialFails(k) \/ Pause(k)
  PROVE  Rest'
<1>1. OnlyMoves(k) /\ UNCHANGED othersVars
    BY MovesAlone DEF IInv, Connect, Start, Check, DialFails, Pause, othersVars, netVars,
       pingVars, downVars, reloadVars
<1>2. /\ driver[k].pc \in {"start", "check", "dial", "pause"}
      /\ driver'[k].pc \in {"check", "dial", "pause", "done"}
  <2>1. CASE Start(k) \/ Check(k) \/ Pause(k)
      BY <2>1, Going DEF Start, Check, Pause, At, To, IInv
  <2>2. CASE DialFails(k)
      BY <2>2 DEF DialFails, At, IInv, TypeOK, Driver
  <2> QED
      BY <2>1, <2>2
<1> QED
    BY <1>1, <1>2, QuietStep DEF Owning, Announced, Copied

LEMMA AnnounceInv ==
  ASSUME IInv, NEW k \in Conns, Announce(k)
  PROVE  Rest'
<1>1. OnlyMoves(k) /\ UNCHANGED othersVars /\ state' = "connected"
    BY MovesAlone DEF IInv, Connect, Announce, othersVars, netVars, pingVars, downVars,
       reloadVars
<1>2. driver[k].pc = "announce" /\ driver'[k].pc = "copy"
    BY Going DEF Announce, At, To, IInv
<1> QED
    BY <1>1, <1>2, QuietStep DEF Owning, Announced, Copied

LEMMA CopyInv ==
  ASSUME IInv, NEW k \in Conns, Copy(k)
  PROVE  Rest'
<1>1. OnlyMoves(k) /\ UNCHANGED othersVars /\ state' = state
    BY MovesAlone DEF IInv, Connect, Copy, othersVars, netVars, pingVars, downVars,
       reloadVars
<1>2. /\ driver[k].pc = "copy"
      /\ driver'[k].syms = symbols
      /\ driver'[k].pc = IF symbols = {} THEN "spawn" ELSE "fetch"
    BY DEF Copy, At, IInv, TypeOK, Driver
<1>3. Delivered(k)'
    BY <1>1, <1>2 DEF Delivered, Promised, othersVars
<1>4. cancelled = {} => state = "connected"
    BY <1>2 DEF IInv, InService, Announced
<1> QED
    BY <1>1, <1>2, <1>3, <1>4, QuietStep DEF Owning, Announced

LEMMA FetchInv ==
  ASSUME IInv, NEW k \in Conns, Fetch(k)
  PROVE  Rest'
<1>1. OnlyMoves(k) /\ UNCHANGED othersVars /\ state' = state
    BY MovesAlone DEF IInv, Connect, Fetch, othersVars, netVars, pingVars, downVars,
       reloadVars
<1>2. driver[k].pc = "fetch"
    BY DEF Fetch, At
<1>3. conn \in {k, None}
    BY <1>2 DEF IInv, Ownership, Owning
<1>4. CASE conn = None
  <2>1. driver'[k].pc = "spawn" /\ conn # k
      BY <1>4, Going, StreamAssumption DEF Fetch, To, IInv, Conns, None
  <2>2. cancelled = {} => state = "connected"
      BY <1>2 DEF IInv, InService, Announced
  <2> QED
      BY <1>1, <1>2, <2>1, <2>2, QuietStep DEF Owning
<1>5. CASE conn # None
  <2>1. /\ driver'[k].pc = "write"
        /\ driver'[k].conn = k
        /\ driver'[k].syms = driver[k].syms
      BY <1>3, <1>5 DEF Fetch, IInv, TypeOK, Driver
  <2>2. Delivered(k)' <=> Delivered(k)
      BY <1>1, <1>2, <2>1 DEF Delivered, Promised, othersVars, Untold
  <2>3. cancelled = {} => state = "connected"
      BY <1>2 DEF IInv, InService, Announced
  <2>4. conn = k /\ k \in live /\ cancelled = {} => Delivered(k)
      BY <1>2 DEF IInv, Delivery, Copied, Delivered
  <2> QED
      BY <1>1, <1>2, <2>1, <2>2, <2>3, <2>4, QuietStep DEF Owning
<1> QED
    BY <1>4, <1>5
\* While driver k is not in use, nothing is.
LEMMA NothingInUse ==
  ASSUME IInv, NEW k \in Conns, OnlyMoves(k), driver'[k].pc \notin Copied
  PROVE  /\ \A j \in Conns : ~InUse(j)'
         /\ \A j \in Conns : driver'[j].pc \notin Copied
         /\ \A j \in Conns \ {k} : ~Active(j) /\ ~Active(j)'
BY Alone DEF IInv, OnlyMoves, InUse, Copied, Active

LEMMA DialSucceedsInv ==
  ASSUME IInv, NEW k \in Conns, DialSucceeds(k)
  PROVE  Rest'
<1> USE DEF IInv
<1>1. OnlyMoves(k) /\ driver'[k].pc = "publish" /\ driver[k].pc = "dial"
    BY MovesAlone, Going DEF Connect, DialSucceeds, To, At
<1>2. UNCHANGED <<state, symbols, conn, pinging, pinged, cancelled, shutdown, reload>>
    BY DEF DialSucceeds, pingVars, downVars, reloadVars
<1>3. /\ \A j \in Conns : ~InUse(j)'
      /\ \A j \in Conns : driver'[j].pc \notin Copied
      /\ \A j \in Conns \ {k} : ~Active(j) /\ ~Active(j)'
    BY <1>1, NothingInUse DEF Copied
<1>4. \A j \in Conns : driver'[j].pc \notin Owning /\ (Used(j) => Used(j)')
    BY <1>1, <1>3 DEF Owning, Active, OnlyMoves, Used
<1>5. InTurn'
    BY <1>1, TurnStep
<1>6. Ownership' /\ InService'
    BY <1>2, <1>4, StreamAssumption
       DEF Ownership, InService, Owning, Announced, TypeOK
<1>7. Pings'
    BY <1>1, <1>2, <1>3, <1>4 DEF Pings, OnlyMoves, TypeOK
<1>8. Delivery'
    BY <1>2, <1>3 DEF Delivery
<1> QED
    BY <1>5, <1>6, <1>7, <1>8 DEF Rest

LEMMA PublishInv ==
  ASSUME IInv, NEW k \in Conns, Publish(k)
  PROVE  Rest'
<1> USE DEF IInv
<1>1. OnlyMoves(k) /\ driver'[k].pc = "announce" /\ driver[k].pc = "publish"
    BY MovesAlone, Going DEF Connect, Publish, To, At
<1>2. UNCHANGED <<state, symbols, pinging, pinged, cancelled, shutdown, reload>> /\ conn' = k
    BY DEF Publish, pingVars, downVars, reloadVars
<1>3. /\ \A j \in Conns : ~InUse(j)'
      /\ \A j \in Conns : driver'[j].pc \notin Copied
      /\ \A j \in Conns \ {k} : ~Active(j) /\ ~Active(j)'
    BY <1>1, NothingInUse DEF Copied
<1>4. \A j \in Conns \ {k} : driver'[j].pc \notin Owning
    BY <1>3 DEF Owning, Active
<1>5. \A j \in Conns : Used(j) => Used(j)' /\ j <= k
    BY <1>1, Alone, StreamAssumption DEF OnlyMoves, Used, Conns
<1>6. InTurn'
    BY <1>1, TurnStep
<1>7. Ownership' /\ InService'
    BY <1>1, <1>2, <1>4 DEF Ownership, InService, Owning, Announced, Used
<1>8. Pings'
  <2>1. \A j \in pinging : driver'[j].pc \in {"loop", "read", "lost", "done"} /\ j <= k
      BY <1>1, <1>5 DEF Pings, OnlyMoves, TypeOK, Used
  <2>2. ASSUME NEW j \in Conns, pinged[j] # None
        PROVE  j <= pinged[j] /\ Used(pinged[j])' /\ pinged[j] <= k
    <3>1. pinged[j] \in Conns
        BY <2>2 DEF TypeOK
    <3>2. j <= pinged[j] /\ Used(pinged[j])
        BY <2>2 DEF Pings
    <3> QED
        BY <1>2, <1>5, <3>1, <3>2 DEF Used
  <2> QED
      BY <1>2, <1>3, <2>1, <2>2 DEF Pings
<1>9. Delivery'
    BY <1>2, <1>3 DEF Delivery
<1> QED
    BY <1>6, <1>7, <1>8, <1>9 DEF Rest

LEMMA WriteInv ==
  ASSUME IInv, NEW k \in Conns, Write(k)
  PROVE  Rest'
<1> USE DEF IInv
<1>1. OnlyMoves(k) /\ driver'[k].pc = "spawn" /\ driver[k].pc = "write"
    BY MovesAlone, Going DEF Connect, Write, To, At
<1>2. UNCHANGED <<state, symbols, conn, live, pinging, pinged, cancelled, shutdown, reload>>
    BY DEF Write, pingVars, downVars, reloadVars
<1>3. \A j \in Conns \ {k} : ~Active(j) /\ ~Active(j)'
    BY <1>1, Alone DEF OnlyMoves, Active
<1>4. driver[k].conn = k
    BY <1>1 DEF Ownership
<1>5. InTurn'
    BY <1>1, TurnStep
<1>6. Ownership' /\ InService'
    BY <1>1, <1>2, <1>3 DEF Ownership, InService, Owning, Announced, Used, Active, OnlyMoves,
       TypeOK
<1>7. Pings'
  <2>1. \A j \in Conns : ~InUse(j)'
      BY <1>1, <1>3 DEF InUse, Active
  <2>2. \A j \in Conns : (Used(j) => Used(j)') /\ (j # k => driver'[j].pc = driver[j].pc)
      BY <1>1 DEF OnlyMoves, Used
  <2> QED
      BY <1>1, <1>2, <2>1, <2>2 DEF Pings, TypeOK
<1>8. Delivery'
  <2>1. ASSUME conn = k, k \in live, cancelled = {} PROVE Delivered(k)'
    <3>1. symbols \ Untold(k) \subseteq served[k] \cup driver[k].syms
        BY <1>1, <2>1 DEF Delivery, Copied, Promised
    <3>2. served'[k] = served[k] \cup driver[k].syms
        BY <1>4, <2>1 DEF Write, Told, TypeOK
    <3> QED
        BY <1>1, <1>2, <3>1, <3>2 DEF Delivered, Promised, Untold
  <2>2. \A j \in Conns \ {k} : driver'[j].pc \notin Copied
      BY <1>3 DEF Copied, Active
  <2> QED
      BY <1>2, <2>1, <2>2 DEF Delivery, Delivered
<1> QED
    BY <1>5, <1>6, <1>7, <1>8 DEF Rest

LEMMA SpawnInv ==
  ASSUME IInv, NEW k \in Conns, Spawn(k)
  PROVE  Rest'
<1> USE DEF IInv
<1>1. OnlyMoves(k) /\ driver'[k].pc = "loop" /\ driver[k].pc = "spawn"
    BY MovesAlone, Going DEF Connect, Spawn, To, At
<1>2. /\ UNCHANGED <<state, symbols, conn, live, served, pinged, cancelled, shutdown, reload>>
      /\ pinging' = pinging \cup {k}
    BY DEF Spawn, netVars, downVars, reloadVars
<1>3. \A j \in Conns \ {k} : ~Active(j) /\ ~Active(j)'
    BY <1>1, Alone DEF OnlyMoves, Active
<1>4. InTurn'
    BY <1>1, TurnStep
<1>5. Ownership' /\ InService'
    BY <1>1, <1>2, <1>3 DEF Ownership, InService, Owning, Announced, Used, Active, OnlyMoves,
       TypeOK
<1>6. Pings'
  <2>1. \A j \in Conns \ {k} : ~InUse(j)'
      BY <1>3 DEF InUse, Active
  <2>2. \A j \in Conns : (Used(j) => Used(j)') /\ (j # k => driver'[j].pc = driver[j].pc)
      BY <1>1 DEF OnlyMoves, Used
  <2>3. conn \in {k, None}
      BY <1>1 DEF Ownership, Owning
  <2>4. ASSUME NEW j \in pinging'
        PROVE  /\ driver'[j].pc \in {"loop", "read", "lost", "done"}
               /\ conn # None => j <= conn
    <3>1. CASE j = k
        BY <1>1, <2>3, <3>1 DEF Conns
    <3>2. CASE j # k
        BY <1>2, <2>2, <3>2 DEF Pings, TypeOK
    <3> QED
        BY <3>1, <3>2
  <2>5. ASSUME NEW j \in Conns, pinged[j] # None PROVE Used(pinged[j])'
      BY <1>2, <2>2, <2>5 DEF Pings, TypeOK, Used
  <2> QED
      BY <1>2, <2>1, <2>4, <2>5 DEF Pings
<1>7. Delivery'
  <2>1. Delivered(k)' <=> Delivered(k)
      BY <1>1, <1>2 DEF Delivered, Promised, Untold
  <2>2. \A j \in Conns \ {k} : driver'[j].pc \notin Copied
      BY <1>3 DEF Copied, Active
  <2> QED
      BY <1>1, <1>2, <2>1, <2>2 DEF Delivery, Delivered, Copied
<1> QED
    BY <1>4, <1>5, <1>6, <1>7 DEF Rest
LEMMA ConnectInv ==
  ASSUME IInv, NEW k \in Conns, Connect(k)
  PROVE  Rest'
BY EarlyInv, AnnounceInv, CopyInv, FetchInv, DialSucceedsInv, PublishInv, WriteInv, SpawnInv
   DEF Connect

--------------------------------------------------------------------------------
(* So do the read loop and the ping loops *)

LEMMA ReadInv ==
  ASSUME IInv, NEW k \in Conns, Loop(k) \/ ReadFails(k) \/ Message(k)
  PROVE  Rest'
<1>1. OnlyMoves(k) /\ UNCHANGED othersVars /\ state' = state
    BY MovesAlone DEF IInv, Loop, ReadFails, Message, othersVars, netVars, pingVars,
       downVars, reloadVars
<1>2. driver[k].pc \in {"loop", "read"} /\ driver'[k].pc \in {"loop", "read", "lost", "done"}
  <2>1. CASE ReadFails(k) \/ Message(k)
      BY <2>1, Going DEF ReadFails, Message, At, To, IInv
  <2>2. CASE Loop(k)
      BY <2>2, Going DEF Loop, At, To, IInv, TypeOK, Driver
  <2> QED
      BY <2>1, <2>2
<1>3. cancelled = {} => state = "connected"
    BY <1>2 DEF IInv, InService, Announced
<1>4. driver'[k].pc \in Copied /\ conn = k /\ k \in live /\ cancelled = {} => Delivered(k)'
  <2>1. conn = k /\ k \in live /\ cancelled = {} => Delivered(k)
      BY <1>2 DEF IInv, Delivery, Copied, Delivered
  <2>2. driver'[k].pc \in Copied => (Delivered(k)' <=> Delivered(k))
      BY <1>1, <1>2 DEF Delivered, Promised, Untold, othersVars, Copied
  <2> QED
      BY <2>1, <2>2
<1> QED
    BY <1>1, <1>2, <1>3, <1>4, QuietStep DEF Owning, Announced

LEMMA ReconnectInv ==
  ASSUME IInv, NEW k \in Conns, Reconnect(k)
  PROVE  Rest'
<1> USE DEF IInv
<1>1. /\ driver[k].pc = "lost" /\ k + 1 \in Conns
      /\ driver'[k].pc = "done" /\ driver'[k + 1].pc = "start"
      /\ \A j \in Conns : j # k /\ j # k + 1 => driver'[j] = driver[j]
    BY StreamAssumption DEF Reconnect, At, TypeOK, Driver, Starting, Idle, Conns
<1>2. UNCHANGED othersVars
    BY DEF Reconnect, othersVars, netVars, pingVars, downVars, reloadVars
<1>3. Active(k) /\ k < k + 1
    BY <1>1, StreamAssumption DEF Active, Conns
<1>4. \A j \in Conns : /\ j # k => ~Active(j)
                       /\ j < k => driver[j].pc = "done"
                       /\ k < j => ~Used(j)
    BY <1>3, Alone, StreamAssumption DEF Conns
<1>5. \A j \in Conns : (Used(j) => Used(j)') /\ driver'[j].pc \notin Owning
    BY <1>1, <1>3, <1>4 DEF Active, Used, Owning
<1>6. InTurn'
  <2> SUFFICES ASSUME NEW i \in Conns, NEW j \in Conns, Used(j)', i < j
               PROVE  driver'[i].pc = "done"
      BY DEF InTurn
  <2>1. j <= k + 1
      BY <1>1, <1>3, <1>4, StreamAssumption DEF Used, Conns
  <2>2. i <= k
      BY <2>1, StreamAssumption DEF Conns
  <2> QED
      BY <1>1, <1>3, <1>4, <2>2, StreamAssumption DEF Conns
<1>7. Ownership' /\ InService'
  <2>1. \A j \in Conns : driver'[j].pc \notin Owning /\ driver'[j].pc # "write"
                         /\ driver'[j].pc \notin Announced
      BY <1>5 DEF Owning, Announced
  <2> QED
      BY <1>2, <1>5, <2>1 DEF Ownership, InService, othersVars, TypeOK, Used
<1>8. Pings'
  <2>1. \A j \in Conns : ~InUse(j)'
      BY <1>5 DEF InUse, Owning
  <2>2. \A j \in pinging : driver'[j].pc \in {"loop", "read", "lost", "done"}
    <3>1. ~Used(k + 1)
        BY <1>1, <1>3, <1>4
    <3> QED
        BY <1>1, <3>1 DEF Pings, TypeOK, Used
  <2>3. ASSUME NEW j \in Conns, pinged[j] # None PROVE Used(pinged[j])'
      BY <1>2, <1>5, <2>3 DEF Pings, TypeOK, Used, othersVars
  <2> QED
      BY <1>2, <2>1, <2>2, <2>3 DEF Pings, othersVars
<1>9. Delivery'
    BY <1>2, <1>5 DEF Delivery, othersVars, Copied, Owning
<1> QED
    BY <1>6, <1>7, <1>8, <1>9 DEF Rest

LEMMA PingInv ==
  ASSUME IInv, NEW k \in Conns, pingLoop(k)
  PROVE  Rest'
<1> USE DEF IInv
<1>1. UNCHANGED <<state, symbols, conn, live, served, driver, cancelled, shutdown, reload>>
    BY DEF pingLoop, PingReads, PingWrites, PingEnds, netVars, downVars, reloadVars
<1>2. InTurn' /\ Ownership' /\ InService' /\ Delivery'
    BY <1>1 DEF InTurn, Ownership, InService, Delivery, Used, Untold, Promised
<1>3. \A j \in Conns : InUse(j)' <=> InUse(j)
    BY <1>1 DEF InUse
<1>4. Pings'
  <2>1. CASE PingReads(k)
    <3>1. Used(conn) /\ k <= conn /\ conn <= conn
        BY <2>1 DEF PingReads, Ownership, Pings, TypeOK, Conns
    <3>2. /\ pinging' = pinging
          /\ \A j \in Conns : pinged'[j] = IF j = k THEN conn ELSE pinged[j]
        BY <2>1 DEF PingReads, TypeOK
    <3> QED
        BY <1>1, <1>3, <3>1, <3>2 DEF Pings, Used
  <2>2. CASE PingEnds(k)
    <3>1. ~InUse(k)
        BY <2>2, StreamAssumption DEF PingEnds, InUse, None, Conns
    <3> QED
        BY <1>1, <1>3, <2>2, <3>1 DEF Pings, PingEnds, Used
  <2>3. CASE PingWrites(k)
    <3>1. InUse(k) => pinged[k] = k
        BY <2>3, StreamAssumption DEF PingWrites, InUse, Pings, TypeOK, None, Conns
    <3>2. InUse(k) => pinging' = pinging
        BY <2>3, <3>1 DEF PingWrites, InUse
    <3>3. /\ pinging' \subseteq pinging /\ (\A j \in pinging : j # k => j \in pinging')
          /\ \A j \in Conns : pinged'[j] = IF j = k THEN None ELSE pinged[j]
        BY <2>3 DEF PingWrites, TypeOK
    <3> QED
        BY <1>1, <1>3, <3>2, <3>3 DEF Pings, Used
  <2> QED
      BY <2>1, <2>2, <2>3 DEF pingLoop
<1> QED
    BY <1>2, <1>4 DEF Rest
--------------------------------------------------------------------------------
(* So do a break and the shutdown *)

LEMMA BreakInv ==
  ASSUME IInv, NEW c \in Conns, Break(c)
  PROVE  Rest'
<1> USE DEF IInv
<1>1. /\ UNCHANGED <<state, symbols, conn, driver, pinging, pinged, cancelled, shutdown, reload>>
      /\ live' = live \ {c}
      /\ \A k \in Conns : k # c => served'[k] = served[k]
    BY DEF Break, pingVars, downVars, reloadVars, TypeOK
<1>2. InTurn' /\ Ownership' /\ InService'
    BY <1>1 DEF InTurn, Ownership, InService, Used
<1>3. \A k \in Conns : InUse(k)' => InUse(k)
    BY <1>1 DEF InUse
<1>4. Pings'
    BY <1>1, <1>3 DEF Pings, Used
<1>5. Delivery'
    BY <1>1 DEF Delivery, Untold, Promised
<1> QED
    BY <1>2, <1>4, <1>5 DEF Rest

LEMMA StoppingInv ==
  ASSUME IInv, Stopping
  PROVE  Rest'
<1> USE DEF IInv
<1>1. /\ UNCHANGED <<symbols, served, driver, pinging, pinged, reload>>
      /\ conn' \in {conn, None}
    BY DEF Stopping, Cancel, Disconnect, CancelProvider, TakeConn, CloseConn, Report, Wait,
       netVars, pingVars, reloadVars
<1>2. cancelled' # {}
  <2>1. CASE Cancel \/ CancelProvider
      BY <2>1 DEF Cancel, CancelProvider
  <2>2. CASE TakeConn \/ CloseConn \/ Report \/ Wait
      BY <2>2 DEF TakeConn, CloseConn, Report, Wait, ShutdownStep, InService
  <2> QED
      BY <2>1, <2>2 DEF Stopping, Disconnect
<1>3. InTurn' /\ Ownership' /\ InService'
    BY <1>1, <1>2 DEF InTurn, Ownership, InService, Used
<1>4. Pings'
    BY <1>1, <1>2 DEF Pings, Used, InUse
<1>5. Delivery'
    BY <1>1, <1>2 DEF Delivery
<1> QED
    BY <1>3, <1>4, <1>5 DEF Rest

--------------------------------------------------------------------------------
(* So do Subscribe and Unsubscribe *)

\* A step that leaves the drivers, the pings and the shutdown alone has to keep Delivery.
LEMMA ListStep ==
  ASSUME IInv, Delivery',
         UNCHANGED <<state, conn, live, driver, pinging, pinged, cancelled, shutdown>>
  PROVE  Rest'
<1>1. InTurn' /\ Ownership' /\ InService'
    BY DEF IInv, InTurn, Ownership, InService, Used
<1>2. Pings'
    BY DEF IInv, Pings, Used, InUse
<1> QED
    BY <1>1, <1>2 DEF Rest

\* When a call returns, nothing is left to be told.
LEMMA ReturnedList ==
  ASSUME Returned
  PROVE  /\ reload'.pc \in {"idle", "edit"}
         /\ \A k \in Conns : Untold(k)' = {}
BY DEF Returned, Call, Untold

\* A driver whose connection the delivery speaks of.
Delivers(k) == driver[k].pc \in Copied /\ conn = k /\ k \in live /\ cancelled = {}

LEMMA ReturnedDelivery ==
  ASSUME Returned, UNCHANGED <<conn, live, driver, cancelled>>,
         \A k \in Conns : Delivers(k) => symbols' \subseteq served'[k] \cup Promised(k)
  PROVE  Delivery'
BY ReturnedList DEF Delivery, Delivers, Promised

LEMMA StartReloadInv ==
  ASSUME IInv, NEW new \in SUBSET Symbols, StartReload(new)
  PROVE  Rest'
<1>1. /\ UNCHANGED <<state, conn, live, driver, pinging, pinged, cancelled, shutdown>>
      /\ UNCHANGED <<symbols, served>>
    BY DEF StartReload, netVars, pingVars, downVars
<1>2. reload'.pc = "edit" /\ \A k \in Conns : Untold(k)' = {} /\ Untold(k) = {}
    BY DEF StartReload, Call, Untold
<1>3. Delivery'
    BY <1>1, <1>2 DEF IInv, Delivery, Promised
<1> QED
    BY <1>1, <1>3, ListStep

LEMMA EditInv ==
  ASSUME IInv, Edit
  PROVE  Rest'
<1>1. /\ UNCHANGED <<state, conn, live, driver, pinging, pinged, cancelled, shutdown>>
      /\ served' = served
      /\ reload.pc = "edit"
    BY DEF Edit, netVars, pingVars, downVars
<1>2. \A k \in Conns : Delivers(k) => symbols \subseteq served[k] \cup Promised(k)
    BY <1>1 DEF IInv, Delivery, Delivers, Untold
<1>3. Delivery'
  <2>1. CASE symbols' \subseteq symbols /\ Returned
      BY <1>1, <1>2, <2>1, ReturnedDelivery
  <2>2. CASE /\ reload.op = "subscribe"
             /\ symbols' = symbols \cup reload.syms
             /\ reload' = [reload EXCEPT !.pc = "check", !.syms = reload.syms \ symbols]
    <3>1. reload'.pc = "check" /\ reload'.op = "subscribe"
          /\ reload'.syms = reload.syms \ symbols
        BY <2>2 DEF IInv, TypeOK, Reload
    <3>2. \A k \in Conns : Untold(k)' = reload.syms \ symbols
        BY <3>1 DEF Untold
    <3> QED
        BY <1>1, <1>2, <2>2, <3>1, <3>2 DEF Delivery, Delivers, Promised
  <2>3. CASE /\ reload.op = "unsubscribe"
             /\ symbols' = symbols \ reload.syms
             /\ reload' = [reload EXCEPT !.pc = "check"]
    <3>1. reload'.pc = "check" /\ reload'.op = "unsubscribe" /\ reload'.syms = reload.syms
        BY <2>3 DEF IInv, TypeOK, Reload
    <3> QED
        BY <1>1, <1>2, <2>3, <3>1 DEF Delivery, Delivers, Promised
  <2> QED
      BY <2>1, <2>2, <2>3 DEF Edit
<1> QED
    BY <1>1, <1>3, ListStep

LEMMA CheckConnectedInv ==
  ASSUME IInv, CheckConnected
  PROVE  Rest'
<1>1. /\ UNCHANGED <<state, conn, live, driver, pinging, pinged, cancelled, shutdown>>
      /\ UNCHANGED <<symbols, served>>
      /\ reload.pc = "check"
    BY DEF CheckConnected, netVars, pingVars, downVars
<1>2. Delivery'
  <2>1. CASE ~IsConnected /\ Returned
    <3>1. \A k \in Conns : ~Delivers(k)
        BY <2>1, StreamAssumption
           DEF IsConnected, Delivers, IInv, InService, Copied, Announced, None, Conns
    <3> QED
        BY <1>1, <2>1, <3>1, ReturnedDelivery
  <2>2. CASE reload' = [reload EXCEPT !.pc = "fetch"]
    <3>1. reload'.pc = "fetch" /\ reload'.op = reload.op /\ reload'.syms = reload.syms
        BY <2>2 DEF IInv, TypeOK, Reload
    <3> QED
        BY <1>1, <3>1 DEF IInv, Delivery, Untold, Promised
  <2> QED
      BY <2>1, <2>2 DEF CheckConnected
<1> QED
    BY <1>1, <1>2, ListStep

LEMMA FetchConnInv ==
  ASSUME IInv, FetchConn
  PROVE  Rest'
<1>1. /\ UNCHANGED <<state, conn, live, driver, pinging, pinged, cancelled, shutdown>>
      /\ UNCHANGED <<symbols, served>>
      /\ reload.pc = "fetch"
    BY DEF FetchConn, netVars, pingVars, downVars
<1>2. Delivery'
  <2>1. CASE conn = None /\ Returned
    <3>1. \A k \in Conns : ~Delivers(k)
        BY <2>1, StreamAssumption DEF Delivers, None, Conns
    <3> QED
        BY <1>1, <2>1, <3>1, ReturnedDelivery
  <2>2. CASE conn # None /\ reload' = [reload EXCEPT !.pc = "write", !.conn = conn]
    <3>1. /\ reload'.pc = "write" /\ reload'.conn = conn
          /\ reload'.op = reload.op /\ reload'.syms = reload.syms
        BY <2>2 DEF IInv, TypeOK, Reload
    <3> QED
        BY <1>1, <2>2, <3>1 DEF IInv, Delivery, Untold, Promised
  <2> QED
      BY <2>1, <2>2 DEF FetchConn
<1> QED
    BY <1>1, <1>2, ListStep

LEMMA SendInv ==
  ASSUME IInv, Send
  PROVE  Rest'
<1>1. /\ UNCHANGED <<state, conn, live, driver, pinging, pinged, cancelled, shutdown>>
      /\ symbols' = symbols /\ Returned
      /\ reload.pc = "write"
    BY DEF Send, pingVars, downVars
<1>2. reload.conn \in Conns /\ reload.op \in {"subscribe", "unsubscribe"}
    BY <1>1 DEF IInv, TypeOK, Reload, Delivery
<1>3. ASSUME NEW k \in Conns, Delivers(k)
      PROVE  symbols \subseteq served'[k] \cup Promised(k)
  <2>1. symbols \ Untold(k) \subseteq served[k] \cup Promised(k)
      BY <1>3 DEF IInv, Delivery, Delivers
  <2>2. CASE reload.conn # k
      BY <1>1, <1>2, <2>1, <2>2 DEF Send, Told, Untold, IInv, TypeOK
  <2>3. CASE reload.conn = k /\ reload.op = "subscribe"
      BY <1>1, <1>3, <2>1, <2>3 DEF Send, Told, Untold, IInv, TypeOK, Delivers
  <2>4. CASE reload.conn = k /\ reload.op = "unsubscribe"
    <3>1. reload.syms \cap symbols = {}
        BY <1>1, <2>4 DEF IInv, Delivery
    <3>2. served'[k] = served[k] \ reload.syms /\ Untold(k) = {}
        BY <1>3, <2>4 DEF Send, Told, Untold, IInv, TypeOK, Delivers
    <3> QED
        BY <2>1, <3>1, <3>2
  <2> QED
      BY <1>2, <2>2, <2>3, <2>4
<1>4. Delivery'
    BY <1>1, <1>3, ReturnedDelivery
<1> QED
    BY <1>1, <1>4, ListStep

--------------------------------------------------------------------------------
(* Theorems *)

LEMMA StillInv == IInv /\ UNCHANGED vars => Rest'
BY ListStep DEF IInv, vars, netVars, pingVars, downVars, reloadVars, Delivery, Untold, Promised

LEMMA StepInv == IInv /\ [Next]_vars => IInv'
<1> SUFFICES ASSUME IInv, [Next]_vars PROVE IInv'
    OBVIOUS
<1>1. TypeOK'
    BY StepType DEF IInv
<1>2. Rest'
  <2>1. ASSUME NEW k \in Conns,
               Connect(k) \/ readLoop(k) \/ Message(k) \/ pingLoop(k) \/ Break(k)
        PROVE  Rest'
      BY <2>1, ConnectInv, ReadInv, ReconnectInv, PingInv, BreakInv DEF readLoop
  <2>2. CASE Reloading
      BY <2>2, EditInv, CheckConnectedInv, FetchConnInv, SendInv DEF Reloading
  <2>3. ASSUME NEW new \in SUBSET Symbols, StartReload(new) PROVE Rest'
      BY <2>3, StartReloadInv
  <2>4. CASE Stopping
      BY <2>4, StoppingInv
  <2>5. CASE UNCHANGED vars
      BY <2>5, StillInv
  <2> QED
      BY <2>1, <2>2, <2>3, <2>4, <2>5 DEF Next, Stopping
<1> QED
    BY <1>1, <1>2 DEF Rest, IInv

\* The inductive invariant: see its parts.
THEOREM StreamInvariance == Spec => []IInv
<1> QED
    BY StartInv, StepInv, PTL DEF Spec

\* Every variable keeps its type, and only a running ping loop writes.
THEOREM StreamTypeCorrect == Spec => []TypeOK
<1>1. IInv => TypeOK
    BY DEF IInv
<1> QED
    BY <1>1, StreamInvariance, PTL

\* Connect and readLoop never overlap: see OneDriver.
THEOREM OneDriverHolds == Spec => []OneDriver
<1>1. IInv => OneDriver
  <2> DEFINE busy == {k \in Conns : driver[k].pc \notin {"idle", "done"}}
  <2> SUFFICES ASSUME IInv PROVE Cardinality(busy) <= 1
      BY DEF OneDriver
  <2>1. CASE busy = {}
      BY <2>1, FS_EmptySet
  <2>2. ASSUME NEW k \in busy PROVE Cardinality(busy) <= 1
    <3>1. k \in Conns /\ Active(k)
        BY DEF Active
    <3>2. \A j \in busy : j = k
        BY <3>1, Alone DEF IInv, Active
    <3>3. busy = {k}
        BY <3>2
    <3> QED
        BY <3>3, FS_Singleton
  <2> QED
      BY <2>1, <2>2
<1> QED
    BY <1>1, StreamInvariance, PTL

\* No interleaving of Subscribe and a reconnection loses a symbol: see WatchedIsServed.
THEOREM WatchedIsServedHolds == Spec => []WatchedIsServed
<1>1. IInv => WatchedIsServed
    BY DEF IInv, Delivery, WatchedIsServed, InUse, Copied, Promised
<1> QED
    BY <1>1, StreamInvariance, PTL

\* A connection in use has a ping loop, its own: see KeptAlive.
THEOREM KeptAliveHolds == Spec => []KeptAlive
<1>1. IInv => KeptAlive
    BY DEF IInv, Pings, KeptAlive
<1> QED
    BY <1>1, StreamInvariance, PTL
================================================================================
