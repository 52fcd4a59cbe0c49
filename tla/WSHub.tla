--------------------------------- MODULE WSHub ---------------------------------
(***************************************************************************)
(* The gateway's websocket hub: one goroutine relays Redis messages into   *)
(* the broadcast channel, one (Run) owns the map of clients and hands each *)
(* message to every client's send channel without waiting, and every       *)
(* client has a goroutine that writes and one that reads. A client whose   *)
(* channel is full is dropped; one whose connection ends unregisters.      *)
(*                                                                         *)
(* Messages are numbered as they are broadcast. A step is one operation   *)
(* on a channel or on the connection. A send on a closed channel, and a    *)
(* second close, panic and end the process.                                *)
(*                                                                         *)
(* A definition marked "Variant of" is the code with one slip in it. No    *)
(* action uses it: it shows that a property can tell the slip.             *)
(***************************************************************************)
EXTENDS Naturals, Sequences

CONSTANTS
  Clients,       \* connections, each upgraded once
  SendCap,       \* capacity of a client's channel (256 in the code)
  BroadcastCap,  \* capacity of the broadcast channel (256 in the code)
  MaxMessages    \* bound: messages Redis delivers

ASSUME WSHubAssumption ==
  /\ SendCap \in Nat \ {0}
  /\ BroadcastCap \in Nat \ {0}
  /\ MaxMessages \in Nat

Messages == 1..MaxMessages

VARIABLES
  arrived,    \* messages subscribeRedisToWS has broadcast
  broadcast,  \* h.broadcast
  fan,        \* the message Run is handing out, and the clients it has not come to
  clients,    \* h.clients
  from,       \* from[c]: messages Run had taken when c registered
  send,       \* send[c]: c.send
  closed,     \* c.send is closed
  conn,       \* conn[c]: the connection as the gateway sees it
  peer,       \* peer[c]: whether the browser is still there
  reader,     \* reader[c]: ReadPump
  writer,     \* writer[c]: WritePump
  hand,       \* hand[c]: the message WritePump took last and has not written, 0 for none
  written,    \* written[c]: the messages written to the connection
  panicked

vars == <<arrived, broadcast, fan, clients, from, send, closed, conn, peer,
          reader, writer, hand, written, panicked>>

hubVars == <<fan, clients, from, closed, panicked>>
feedVars == <<arrived, broadcast>>
pumpVars == <<conn, peer, reader, writer, hand, written>>

Idle == [message |-> 0, left |-> {}]

TypeOK ==
  /\ arrived \in 0..MaxMessages
  /\ broadcast \in Seq(Messages) /\ Len(broadcast) <= BroadcastCap
  /\ fan \in [message : 0..MaxMessages, left : SUBSET Clients]
  /\ clients \in SUBSET Clients
  /\ from \in [Clients -> 0..MaxMessages]
  /\ send \in [Clients -> Seq(Messages)]
  /\ \A c \in Clients : Len(send[c]) <= SendCap
  /\ closed \in [Clients -> BOOLEAN]
  /\ conn \in [Clients -> {"none", "open", "closed"}]
  /\ peer \in [Clients -> {"up", "gone"}]
  /\ reader \in [Clients -> {"none", "reading", "unregister", "close", "done"}]
  /\ writer \in [Clients -> {"none", "waiting", "writing", "done"}]
  /\ hand \in [Clients -> 0..MaxMessages]
  /\ written \in [Clients -> Seq(Messages)]
  /\ panicked \in BOOLEAN

Init ==
  /\ arrived = 0 /\ broadcast = <<>>
  /\ fan = Idle
  /\ clients = {}
  /\ from = [c \in Clients |-> 0]
  /\ send = [c \in Clients |-> <<>>]
  /\ closed = [c \in Clients |-> FALSE]
  /\ conn = [c \in Clients |-> "none"]
  /\ peer = [c \in Clients |-> "up"]
  /\ reader = [c \in Clients |-> "none"]
  /\ writer = [c \in Clients |-> "none"]
  /\ hand = [c \in Clients |-> 0]
  /\ written = [c \in Clients |-> <<>>]
  /\ panicked = FALSE

--------------------------------------------------------------------------------
(* The relay *)

\* A message comes out of the subscription's channel, once Broadcast finds room for it.
\* Those Redis loses, or drops while the relay waits, are never numbered.
Broadcast ==
  /\ ~panicked
  /\ arrived < MaxMessages
  /\ Len(broadcast) < BroadcastCap
  /\ arrived' = arrived + 1
  /\ broadcast' = Append(broadcast, arrived + 1)
  /\ UNCHANGED <<hubVars, send, pumpVars>>

\* Messages Run has taken out of the broadcast channel.
Taken == arrived - Len(broadcast)

--------------------------------------------------------------------------------
(* Run: it takes one case of its select at a time *)

AtSelect == ~panicked /\ fan = Idle

\* GET /ws, from the upgrade to the start of both pumps: the handler waits in Register until
\* Run receives the client. An upgrade that fails leaves nothing behind.
Register(c) ==
  /\ AtSelect
  /\ conn[c] = "none"
  /\ conn' = [conn EXCEPT ![c] = "open"]
  /\ clients' = clients \cup {c}
  /\ from' = [from EXCEPT ![c] = Taken]
  /\ reader' = [reader EXCEPT ![c] = "reading"]
  /\ writer' = [writer EXCEPT ![c] = "waiting"]
  /\ UNCHANGED <<feedVars, fan, closed, panicked, send, peer, hand, written>>

\* close(c.send)
Close(c) ==
  /\ closed' = [closed EXCEPT ![c] = TRUE]
  /\ panicked' = closed[c]

\* Variant of Unregister: the channel is closed whether or not the client is in the map.
UnregisterTwice(c) ==
  /\ AtSelect
  /\ reader[c] = "unregister"
  /\ reader' = [reader EXCEPT ![c] = "close"]
  /\ clients' = clients \ {c}
  /\ Close(c)
  /\ UNCHANGED <<feedVars, fan, from, send, conn, peer, writer, hand, written>>

\* Run receives a client whose ReadPump has ended: forget it unless it was dropped before.
Unregister(c) ==
  /\ AtSelect
  /\ reader[c] = "unregister"
  /\ reader' = [reader EXCEPT ![c] = "close"]
  /\ clients' = clients \ {c}
  /\ IF c \in clients THEN Close(c) ELSE UNCHANGED <<closed, panicked>>
  /\ UNCHANGED <<feedVars, fan, from, send, conn, peer, writer, hand, written>>

\* Run receives a message and starts its loop over the map.
TakeMessage ==
  /\ AtSelect
  /\ broadcast # <<>>
  /\ broadcast' = Tail(broadcast)
  /\ fan' = IF clients = {} THEN Idle ELSE [message |-> Head(broadcast), left |-> clients]
  /\ UNCHANGED <<arrived, clients, from, closed, panicked, send, pumpVars>>

\* The loop goes on to the next client, and ends with the last one.
PassedOn(c) ==
  fan' = IF fan.left = {c} THEN Idle ELSE [fan EXCEPT !.left = @ \ {c}]

Enqueue(c) ==
  /\ send' = [send EXCEPT ![c] = Append(@, fan.message)]
  /\ panicked' = closed[c]
  /\ UNCHANGED <<clients, closed>>

Drop(c) ==
  /\ clients' = clients \ {c}
  /\ Close(c)
  /\ UNCHANGED send

\* Variant of HandOut: a full channel is waited for.
HandOutWaiting(c) ==
  /\ ~panicked
  /\ c \in fan.left
  /\ Len(send[c]) < SendCap
  /\ Enqueue(c)
  /\ PassedOn(c)
  /\ UNCHANGED <<feedVars, from, pumpVars>>

\* Variant of HandOut: the channel has no bound.
HandOutUnbounded(c) ==
  /\ ~panicked
  /\ c \in fan.left
  /\ Enqueue(c)
  /\ PassedOn(c)
  /\ UNCHANGED <<feedVars, from, pumpVars>>

\* Variant of HandOut: a full channel misses the message, and the client stays.
HandOutSkipping(c) ==
  /\ ~panicked
  /\ c \in fan.left
  /\ IF Len(send[c]) < SendCap THEN Enqueue(c) ELSE UNCHANGED <<send, clients, closed, panicked>>
  /\ PassedOn(c)
  /\ UNCHANGED <<feedVars, from, pumpVars>>

\* One client's turn: its channel takes the message, or it is full and the client dropped.
HandOut(c) ==
  /\ ~panicked
  /\ c \in fan.left
  /\ IF Len(send[c]) < SendCap THEN Enqueue(c) ELSE Drop(c)
  /\ PassedOn(c)
  /\ UNCHANGED <<feedVars, from, pumpVars>>

--------------------------------------------------------------------------------
(* The pumps *)

\* WritePump returns: the deferred call closes the connection.
WriterReturns(c) ==
  /\ writer' = [writer EXCEPT ![c] = "done"]
  /\ conn' = [conn EXCEPT ![c] = "closed"]
  /\ UNCHANGED <<feedVars, hubVars, send, peer, reader, hand, written>>

\* WritePump takes the next message.
Take(c) ==
  /\ ~panicked
  /\ writer[c] = "waiting"
  /\ send[c] # <<>>
  /\ hand' = [hand EXCEPT ![c] = Head(send[c])]
  /\ send' = [send EXCEPT ![c] = Tail(@)]
  /\ writer' = [writer EXCEPT ![c] = "writing"]
  /\ UNCHANGED <<feedVars, hubVars, conn, peer, reader, written>>

\* The channel is closed and empty: WritePump writes a close message and returns.
SeeClosed(c) ==
  /\ ~panicked
  /\ writer[c] = "waiting"
  /\ closed[c] /\ send[c] = <<>>
  /\ WriterReturns(c)

WriteSucceeds(c) ==
  /\ ~panicked
  /\ writer[c] = "writing"
  /\ conn[c] = "open"
  /\ written' = [written EXCEPT ![c] = Append(@, hand[c])]
  /\ hand' = [hand EXCEPT ![c] = 0]
  /\ writer' = [writer EXCEPT ![c] = "waiting"]
  /\ UNCHANGED <<feedVars, hubVars, send, conn, peer, reader>>

\* The connection is closed or broken, or the deadline passed: what it took is lost.
WriteFails(c) ==
  /\ ~panicked
  /\ writer[c] = "writing"
  /\ WriterReturns(c)

\* A ping that cannot be written; one that can changes nothing.
PingFails(c) ==
  /\ ~panicked
  /\ writer[c] = "waiting"
  /\ conn[c] = "closed" \/ peer[c] = "gone"
  /\ WriterReturns(c)

\* Variant of ReadFails: ReadPump only notices a connection the gateway has closed, as it
\* would without the read deadline.
ReadFailsWithoutDeadline(c) ==
  /\ ~panicked
  /\ reader[c] = "reading"
  /\ conn[c] = "closed"
  /\ reader' = [reader EXCEPT ![c] = "unregister"]
  /\ UNCHANGED <<feedVars, hubVars, send, conn, peer, writer, hand, written>>

\* ReadMessage fails: WritePump closed the connection, or nothing came before the deadline.
ReadFails(c) ==
  /\ ~panicked
  /\ reader[c] = "reading"
  /\ conn[c] = "closed" \/ peer[c] = "gone"
  /\ reader' = [reader EXCEPT ![c] = "unregister"]
  /\ UNCHANGED <<feedVars, hubVars, send, conn, peer, writer, hand, written>>

\* The deferred conn.Close of ReadPump, once Unregister has returned.
ReaderCloses(c) ==
  /\ ~panicked
  /\ reader[c] = "close"
  /\ conn' = [conn EXCEPT ![c] = "closed"]
  /\ reader' = [reader EXCEPT ![c] = "done"]
  /\ UNCHANGED <<feedVars, hubVars, send, peer, writer, hand, written>>

\* The browser closes the page, loses the network, or sends more than the read limit.
PeerLeaves(c) ==
  /\ conn[c] = "open" /\ peer[c] = "up"
  /\ peer' = [peer EXCEPT ![c] = "gone"]
  /\ UNCHANGED <<feedVars, hubVars, send, conn, reader, writer, hand, written>>

--------------------------------------------------------------------------------

Write(c) == Take(c) \/ SeeClosed(c) \/ WriteSucceeds(c) \/ WriteFails(c)

Read(c) == ReadFails(c) \/ ReaderCloses(c)

Next ==
  \/ Broadcast \/ TakeMessage
  \/ \E c \in Clients :
       \/ Register(c) \/ Unregister(c) \/ HandOut(c)
       \/ Take(c) \/ SeeClosed(c) \/ WriteSucceeds(c) \/ WriteFails(c) \/ PingFails(c)
       \/ ReadFails(c) \/ ReaderCloses(c) \/ PeerLeaves(c)

\* Every goroutine runs, and a write ends by its deadline. Run's select chooses at random
\* among its ready cases; as messages and clients are bounded here, weak fairness of each
\* case is enough. Nothing is owed by Redis or the browsers, and no ping need fail.
Fairness ==
  /\ WF_vars(TakeMessage)
  /\ \A c \in Clients :
       /\ WF_vars(Unregister(c)) /\ WF_vars(HandOut(c))
       /\ WF_vars(Write(c)) /\ WF_vars(Read(c))

Spec == Init /\ [][Next]_vars

FairSpec == Spec /\ Fairness

--------------------------------------------------------------------------------
(* Properties *)

\* No order of drops, unregistrations and messages sends on a closed channel or closes one
\* twice, which would end the gateway: Run deletes a client from the map in the same turn
\* in which it closes its channel, and both ways out of the map look there first.
NoPanic == ~panicked

\* Where a client stands for the feed.
Place(c) ==
  CASE c \in clients -> "in"
    [] c \notin clients /\ conn[c] = "none" -> "out"
    [] OTHER -> "cut"

\* The hub implements the feed: whatever a client is sent is the messages in order, with
\* none missing since it registered, until the connection ends; one that falls behind by
\* more than its channel, the message in its writer's hand and the one being handed out is
\* cut off.
Feed == INSTANCE Subscriptions WITH
  Subscribers <- Clients, MaxLag <- SendCap + 2, log <- Taken, got <- written,
  place <- [c \in Clients |-> Place(c)]

ImplementsFeed == Feed!FeedSpec

\* Under FairSpec: the broadcast channel does not stay full for ever, so the relay is never
\* held up by a client that does not read: it carries the order updates and kill switch
\* alerts of everyone.
BroadcastReturns == Len(broadcast) = BroadcastCap ~> Len(broadcast) < BroadcastCap

\* Under FairSpec: a client that went away leaves the map, its connection is closed and
\* both of its goroutines end, whatever each of them was waiting for.
GoneIsForgotten ==
  \A c \in Clients :
    peer[c] = "gone" ~>
      c \notin clients /\ conn[c] = "closed" /\ reader[c] = "done" /\ writer[c] = "done"
================================================================================
