---------------------------- MODULE StreamConnection ----------------------------
(***************************************************************************)
(* The provider's market data stream: connecting with retries, subscribing *)
(* again, the read loop that reconnects, the ping loops, Disconnect, and   *)
(* the goroutine that carries changes of the watchlist to the provider.    *)
(* They share conn, state and symbols under p.mu, which is released        *)
(* between reading one of them and using it: a step is a section under the *)
(* lock, a call of the network, or a test of a context.                    *)
(*                                                                         *)
(* The k-th call of Connect either returns an error or hands the k-th      *)
(* connection to the k-th read loop, and that loop, when it ends on an     *)
(* error, calls Connect again; driver[k] is the goroutine that is in the   *)
(* one or the other.                                                       *)
(*                                                                         *)
(* A definition marked "Variant of" is the code with one slip in it. No    *)
(* action uses it: it shows that a property can tell the slip.             *)
(***************************************************************************)
EXTENDS Naturals, FiniteSets

CONSTANTS
  Symbols,
  FirstWatchlist,  \* what LoadWatchlist returned
  MaxConns,        \* bound: calls of Connect
  MaxFailures,     \* bound: attempts that fail in one call of Connect
  MaxReloads       \* bound: changes of the watchlist

ASSUME StreamAssumption ==
  /\ FirstWatchlist \subseteq Symbols
  /\ MaxConns \in Nat \ {0}
  /\ MaxFailures \in Nat
  /\ MaxReloads \in Nat

Conns == 1..MaxConns

None == 0  \* nil in place of a connection

VARIABLES
  state,      \* p.state
  conn,       \* p.conn
  symbols,    \* p.symbols
  live,       \* connections whose socket works
  served,     \* served[c]: what the server sends on connection c
  driver,     \* driver[k]: Connect and readLoop
  pinging,    \* ping loops that run
  pinged,     \* pinged[k]: the connection ping loop k has read and is writing to
  cancelled,  \* contexts that are cancelled
  shutdown,   \* where main is with shutting down
  closing,    \* the connection Disconnect took
  watchlist,  \* symbols of main
  reload,     \* what main, then the goroutine with the hot reload, is doing
  reloads     \* changes of the watchlist so far

netVars == <<conn, live, served>>
pingVars == <<pinging, pinged>>
downVars == <<cancelled, shutdown, closing>>
reloadVars == <<watchlist, reload, reloads>>
vars == <<state, symbols, netVars, driver, pingVars, downVars, reloadVars>>

ConnectSteps == {"start", "check", "dial", "pause", "publish", "announce", "copy",
                 "fetch", "write", "spawn"}

ReadSteps == {"loop", "read", "lost"}

\* attempt counts the failures in this call; conn and syms are the local variables.
Driver == [pc : ConnectSteps \cup ReadSteps \cup {"idle", "done"}, attempt : Nat,
           conn : Conns \cup {None}, syms : SUBSET Symbols]

\* A call of Subscribe or Unsubscribe with syms; remove and target are what the callback
\* of the hot reload has yet to take away and to assign.
Reload == [pc : {"idle", "edit", "check", "fetch", "write"}, op : {"subscribe", "unsubscribe"},
           syms : SUBSET Symbols, remove : SUBSET Symbols, target : SUBSET Symbols,
           conn : Conns \cup {None}]

TypeOK ==
  /\ state \in {"connecting", "connected", "disconnected", "reconnecting"}
  /\ conn \in Conns \cup {None}
  /\ symbols \subseteq Symbols
  /\ live \subseteq Conns
  /\ served \in [Conns -> SUBSET Symbols]
  /\ driver \in [Conns -> Driver]
  /\ pinging \subseteq Conns
  /\ pinged \in [Conns -> Conns \cup {None}]
  /\ cancelled \subseteq {"main", "provider"}
  /\ shutdown \in {"run", "cancel", "take", "close", "report", "wait", "over"}
  /\ closing \in Conns \cup {None}
  /\ watchlist \subseteq Symbols
  /\ reload \in Reload
  /\ reloads \in 0..MaxReloads
  /\ \A k \in Conns : pinged[k] # None => k \in pinging

Idle == [pc |-> "idle", attempt |-> 0, conn |-> None, syms |-> {}]

Starting == [Idle EXCEPT !.pc = "start"]

Call(op, syms, remove, target) ==
  [pc |-> "edit", op |-> op, syms |-> syms, remove |-> remove, target |-> target,
   conn |-> None]

\* main has started Connect and is about to Subscribe.
Init ==
  /\ state = "disconnected"
  /\ conn = None
  /\ symbols = {}
  /\ live = {}
  /\ served = [c \in Conns |-> {}]
  /\ driver = [k \in Conns |-> IF k = 1 THEN Starting ELSE Idle]
  /\ pinging = {}
  /\ pinged = [k \in Conns |-> None]
  /\ cancelled = {}
  /\ shutdown = "run"
  /\ closing = None
  /\ watchlist = FirstWatchlist
  /\ reload = Call("subscribe", FirstWatchlist, {}, FirstWatchlist)
  /\ reloads = 0

IsConnected == state = "connected" /\ conn # None

--------------------------------------------------------------------------------
(* Connect and reconnect.Run *)

\* main connects with its own context, the read loop with the provider's.
Context(k) == IF k = 1 THEN "main" ELSE "provider"

Cancelled(k) == Context(k) \in cancelled

At(k, pc) == driver[k].pc = pc

GoTo(k, pc) == driver' = [driver EXCEPT ![k].pc = pc]

\* Go on at pc, the local variables being out of scope.
Leave(k, pc) == driver' = [driver EXCEPT ![k] = [Idle EXCEPT !.pc = pc]]

Start(k) ==
  /\ At(k, "start")
  /\ state' = "connecting"
  /\ GoTo(k, "check")
  /\ UNCHANGED <<symbols, netVars, pingVars, downVars, reloadVars>>

\* The head of the retry loop.
Check(k) ==
  /\ At(k, "check")
  /\ \/ Cancelled(k) /\ Leave(k, "done")
     \/ ~Cancelled(k) /\ GoTo(k, "dial")
  /\ UNCHANGED <<state, symbols, netVars, pingVars, downVars, reloadVars>>

DialSucceeds(k) ==
  /\ At(k, "dial")
  /\ live' = live \cup {k}
  /\ Leave(k, "publish")
  /\ UNCHANGED <<state, conn, served, symbols, pingVars, downVars, reloadVars>>

\* Dialling or authenticating fails; a connection that was open is closed.
DialFails(k) ==
  /\ At(k, "dial")
  /\ driver[k].attempt < MaxFailures \/ Cancelled(k)
  /\ driver' = [driver EXCEPT ![k].pc = "pause", ![k].attempt = @ + 1]
  /\ UNCHANGED <<state, symbols, netVars, pingVars, downVars, reloadVars>>

\* Variant of Pause: a failure is final.
PauseForGood(k) ==
  /\ At(k, "pause")
  /\ Leave(k, "done")
  /\ UNCHANGED <<state, symbols, netVars, pingVars, downVars, reloadVars>>

\* The pause is over, or the context is cancelled.
Pause(k) ==
  /\ At(k, "pause")
  /\ \/ GoTo(k, "check")
     \/ Cancelled(k) /\ Leave(k, "done")
  /\ UNCHANGED <<state, symbols, netVars, pingVars, downVars, reloadVars>>

Publish(k) ==
  /\ At(k, "publish")
  /\ conn' = k
  /\ GoTo(k, "announce")
  /\ UNCHANGED <<state, live, served, symbols, pingVars, downVars, reloadVars>>

Announce(k) ==
  /\ At(k, "announce")
  /\ state' = "connected"
  /\ GoTo(k, "copy")
  /\ UNCHANGED <<symbols, netVars, pingVars, downVars, reloadVars>>

\* Variant of Copy: only a later connection subscribes by itself, the first waits for main.
CopyAgain(k) ==
  /\ At(k, "copy")
  /\ driver' = [driver EXCEPT ![k].pc = IF symbols = {} \/ k = 1 THEN "spawn" ELSE "fetch",
                             ![k].syms = symbols]
  /\ UNCHANGED <<state, symbols, netVars, pingVars, downVars, reloadVars>>

Copy(k) ==
  /\ At(k, "copy")
  /\ driver' = [driver EXCEPT ![k].pc = IF symbols = {} THEN "spawn" ELSE "fetch",
                             ![k].syms = symbols]
  /\ UNCHANGED <<state, symbols, netVars, pingVars, downVars, reloadVars>>

\* sendSubscribe reads the connection; an error is logged.
Fetch(k) ==
  /\ At(k, "fetch")
  /\ \/ conn = None /\ Leave(k, "spawn")
     \/ conn # None /\ driver' = [driver EXCEPT ![k].pc = "write", ![k].conn = conn]
  /\ UNCHANGED <<state, symbols, netVars, pingVars, downVars, reloadVars>>

\* What a message does to the server's list; on a broken connection it is lost.
Told(c, now) == IF c \in live THEN [served EXCEPT ![c] = now] ELSE served

Write(k) ==
  /\ At(k, "write")
  /\ served' = Told(driver[k].conn, served[driver[k].conn] \cup driver[k].syms)
  /\ Leave(k, "spawn")
  /\ UNCHANGED <<state, conn, live, symbols, pingVars, downVars, reloadVars>>

\* Variant of Spawn: a ping loop that still runs is taken to be enough.
SpawnOnce(k) ==
  /\ At(k, "spawn")
  /\ pinging' = IF pinging = {} THEN {k} ELSE pinging
  /\ GoTo(k, "loop")
  /\ UNCHANGED <<state, symbols, netVars, pinged, downVars, reloadVars>>

\* Start the ping loop and the read loop; Connect returns.
Spawn(k) ==
  /\ At(k, "spawn")
  /\ pinging' = pinging \cup {k}
  /\ GoTo(k, "loop")
  /\ UNCHANGED <<state, symbols, netVars, pinged, downVars, reloadVars>>

--------------------------------------------------------------------------------
(* readLoop and pingLoop *)

\* The head of the loop.
Loop(k) ==
  /\ At(k, "loop")
  /\ \/ conn = None /\ Leave(k, "done")
     \/ conn # None /\ driver' = [driver EXCEPT ![k].pc = "read", ![k].conn = conn]
  /\ UNCHANGED <<state, symbols, netVars, pingVars, downVars, reloadVars>>

\* A message arrives and is handled. The loop does not look at the context.
Message(k) ==
  /\ At(k, "read")
  /\ driver[k].conn \in live
  /\ Leave(k, "loop")
  /\ UNCHANGED <<state, symbols, netVars, pingVars, downVars, reloadVars>>

ReadFails(k) ==
  /\ At(k, "read")
  /\ driver[k].conn \notin live
  /\ Leave(k, IF "provider" \in cancelled THEN "done" ELSE "lost")
  /\ UNCHANGED <<state, symbols, netVars, pingVars, downVars, reloadVars>>

\* Variant of Reconnect: the loop starts Connect and does not return.
ReconnectAndStay(k) ==
  /\ At(k, "lost")
  /\ k + 1 \in Conns
  /\ state' = "reconnecting"
  /\ driver' = [driver EXCEPT ![k].pc = "loop", ![k + 1] = Starting]
  /\ UNCHANGED <<symbols, netVars, pingVars, downVars, reloadVars>>

Reconnect(k) ==
  /\ At(k, "lost")
  /\ k + 1 \in Conns
  /\ state' = "reconnecting"
  /\ driver' = [driver EXCEPT ![k].pc = "done", ![k + 1] = Starting]
  /\ UNCHANGED <<symbols, netVars, pingVars, downVars, reloadVars>>

\* Every 30 seconds the loop reads the connection.
PingReads(k) ==
  /\ k \in pinging
  /\ pinged[k] = None
  /\ conn # None
  /\ pinged' = [pinged EXCEPT ![k] = conn]
  /\ UNCHANGED <<state, symbols, netVars, driver, pinging, downVars, reloadVars>>

\* Variant of PingEnds: the loop ends in the middle of a ping.
PingEndsAnyhow(k) ==
  /\ k \in pinging
  /\ conn = None \/ "provider" \in cancelled
  /\ pinging' = pinging \ {k}
  /\ UNCHANGED <<state, symbols, netVars, driver, pinged, downVars, reloadVars>>

PingEnds(k) ==
  /\ k \in pinging
  /\ pinged[k] = None
  /\ conn = None \/ "provider" \in cancelled
  /\ pinging' = pinging \ {k}
  /\ UNCHANGED <<state, symbols, netVars, driver, pinged, downVars, reloadVars>>

\* The ping is written; on a broken connection that may fail, which ends the loop.
PingWrites(k) ==
  /\ k \in pinging
  /\ pinged[k] # None
  /\ pinged' = [pinged EXCEPT ![k] = None]
  /\ \/ UNCHANGED pinging
     \/ pinged[k] \notin live /\ pinging' = pinging \ {k}
  /\ UNCHANGED <<state, symbols, netVars, driver, downVars, reloadVars>>

--------------------------------------------------------------------------------
(* Subscribe and Unsubscribe, called by main and by the hot reload *)

\* The payload names the whole new watchlist.
StartReload(new) ==
  /\ reload.pc = "idle"
  /\ reloads < MaxReloads
  /\ reload' = Call("subscribe", new \ watchlist, watchlist \ new, new)
  /\ reloads' = reloads + 1
  /\ UNCHANGED <<state, symbols, netVars, driver, pingVars, downVars, watchlist>>

\* The call returns. The callback goes on to Unsubscribe, or assigns the new watchlist.
Returned ==
  IF reload.op = "subscribe" /\ reload.remove # {}
  THEN /\ reload' = Call("unsubscribe", reload.remove, {}, reload.target)
       /\ UNCHANGED watchlist
  ELSE /\ reload' = [Call("subscribe", {}, {}, reload.target) EXCEPT !.pc = "idle"]
       /\ watchlist' = reload.target

\* The list of symbols changes under the lock. Subscribe keeps the new ones only, and
\* returns if there are none.
Edit ==
  LET fresh == reload.syms \ symbols
  IN /\ reload.pc = "edit"
     /\ \/ /\ reload.op = "subscribe"
           /\ symbols' = symbols \cup reload.syms
           /\ \/ fresh = {} /\ Returned
              \/ /\ fresh # {}
                 /\ reload' = [reload EXCEPT !.pc = "check", !.syms = fresh]
                 /\ UNCHANGED watchlist
        \/ /\ reload.op = "unsubscribe"
           /\ symbols' = symbols \ reload.syms
           /\ reload' = [reload EXCEPT !.pc = "check"]
           /\ UNCHANGED watchlist
     /\ UNCHANGED <<state, netVars, driver, pingVars, downVars, reloads>>

\* Not connected: "will subscribe on connect".
CheckConnected ==
  /\ reload.pc = "check"
  /\ \/ ~IsConnected /\ Returned
     \/ IsConnected /\ reload' = [reload EXCEPT !.pc = "fetch"] /\ UNCHANGED watchlist
  /\ UNCHANGED <<state, symbols, netVars, driver, pingVars, downVars, reloads>>

FetchConn ==
  /\ reload.pc = "fetch"
  /\ \/ conn = None /\ Returned
     \/ /\ conn # None
        /\ reload' = [reload EXCEPT !.pc = "write", !.conn = conn]
        /\ UNCHANGED watchlist
  /\ UNCHANGED <<state, symbols, netVars, driver, pingVars, downVars, reloads>>

\* The message is written; no caller looks at the error.
Send ==
  LET c == reload.conn
  IN /\ reload.pc = "write"
     /\ served' = Told(c, IF reload.op = "subscribe" THEN served[c] \cup reload.syms
                                                     ELSE served[c] \ reload.syms)
     /\ Returned
     /\ UNCHANGED <<state, symbols, conn, live, driver, pingVars, downVars, reloads>>

--------------------------------------------------------------------------------
(* The connection breaks; the process is told to stop *)

\* The server forgets what it sent. Bound: the last connection does not break.
Break(c) ==
  /\ c \in live
  /\ c < MaxConns
  /\ live' = live \ {c}
  /\ served' = [served EXCEPT ![c] = {}]
  /\ UNCHANGED <<state, symbols, conn, driver, pingVars, downVars, reloadVars>>

ShutdownStep(from, to) == shutdown = from /\ shutdown' = to

\* The signal: main cancels its context.
Cancel ==
  /\ ShutdownStep("run", "cancel")
  /\ cancelled' = cancelled \cup {"main"}
  /\ UNCHANGED <<state, symbols, netVars, driver, pingVars, closing, reloadVars>>

\* Disconnect, in the order of its steps.
CancelProvider ==
  /\ ShutdownStep("cancel", "take")
  /\ cancelled' = cancelled \cup {"provider"}
  /\ UNCHANGED <<state, symbols, netVars, driver, pingVars, closing, reloadVars>>

TakeConn ==
  /\ ShutdownStep("take", "close")
  /\ closing' = conn
  /\ conn' = None
  /\ UNCHANGED <<state, symbols, live, served, driver, pingVars, cancelled, reloadVars>>

CloseConn ==
  /\ ShutdownStep("close", "report")
  /\ live' = live \ {closing}
  /\ UNCHANGED <<state, symbols, conn, served, driver, pingVars, cancelled, closing, reloadVars>>

Report ==
  /\ ShutdownStep("report", "wait")
  /\ state' = "disconnected"
  /\ UNCHANGED <<symbols, netVars, driver, pingVars, cancelled, closing, reloadVars>>

\* wg.Wait: no read loop and no ping loop is left.
Wait ==
  /\ ShutdownStep("wait", "over")
  /\ pinging = {}
  /\ \A k \in Conns : driver[k].pc \notin ReadSteps
  /\ UNCHANGED <<state, symbols, netVars, driver, pingVars, cancelled, closing, reloadVars>>

Disconnect == CancelProvider \/ TakeConn \/ CloseConn \/ Report \/ Wait

--------------------------------------------------------------------------------

Connect(k) ==
  \/ Start(k) \/ Check(k) \/ DialSucceeds(k) \/ DialFails(k) \/ Pause(k) \/ Publish(k)
  \/ Announce(k) \/ Copy(k) \/ Fetch(k) \/ Write(k) \/ Spawn(k)

readLoop(k) == Loop(k) \/ ReadFails(k) \/ Reconnect(k)

pingLoop(k) == PingReads(k) \/ PingWrites(k) \/ PingEnds(k)

Reloading == Edit \/ CheckConnected \/ FetchConn \/ Send

Next ==
  \/ \E k \in Conns : Connect(k) \/ readLoop(k) \/ Message(k) \/ pingLoop(k) \/ Break(k)
  \/ \E new \in SUBSET Symbols : StartReload(new)
  \/ Reloading
  \/ Cancel
  \/ Disconnect

\* Goroutines run, the server answers an attempt, a broken connection is found out by the
\* read deadline. Nothing is owed by the feed, the operator or the network.
Fairness ==
  /\ \A k \in Conns : WF_vars(Connect(k)) /\ WF_vars(readLoop(k))
  /\ WF_vars(Reloading)

Spec == Init /\ [][Next]_vars

FairSpec == Spec /\ Fairness

--------------------------------------------------------------------------------
(* Properties *)

\* One goroutine at a time connects or reads: however connections break, calls of Connect
\* never overlap and no connection has two read loops.
OneDriver ==
  Cardinality({k \in Conns : driver[k].pc \notin {"idle", "done"}}) <= 1

\* Driver k has a connection in use: it is the provider's, it works, and the service is not
\* about to stop. (A Disconnect that meets a Connect leaves "disconnected" and a connection.)
InUse(k) ==
  /\ driver[k].pc \in {"loop", "read"}
  /\ conn = k
  /\ k \in live
  /\ cancelled = {}

\* What Subscribe has put into the list and is going to send on connection k.
Untold(k) ==
  IF /\ reload.op = "subscribe"
     /\ reload.pc \in {"check", "fetch"} \/ (reload.pc = "write" /\ reload.conn = k)
  THEN reload.syms ELSE {}

\* No watched symbol is forgotten: whether Subscribe came before, during or after a
\* reconnection, the server sends every symbol of the list on the connection in use, up to
\* those Subscribe is about to send on this very connection.
WatchedIsServed ==
  \A k \in Conns : InUse(k) => symbols \ Untold(k) \subseteq served[k]

\* A connection in use is kept alive by a ping loop, although loops of earlier connections
\* move on to it and may end with the connection they read before.
KeptAlive == \A k \in Conns : InUse(k) => pinging # {}

\* Under FairSpec: a symbol of the watchlist is served sooner or later, through any number
\* of breaks and failures, unless it is removed or the process is told to stop.
Serving(s) == \E k \in Conns : InUse(k) /\ s \in served[k]

WatchedGetsServed ==
  \A s \in Symbols : s \in symbols ~> Serving(s) \/ s \notin symbols \/ cancelled # {}
================================================================================
