------------------------------ MODULE MarketFeed -------------------------------
(***************************************************************************)
(* One symbol from the exchange to Redis, in the market data process: the  *)
(* provider's tick channel, the ingest loop that validates a tick against  *)
(* the last known one and merges the two, RedisPublisher with its retry    *)
(* buffer, the two goroutines that publish REST snapshots to the same      *)
(* latest-price key, and BarAggregator, its timer and the loop that        *)
(* publishes its bars.                                                     *)
(*                                                                         *)
(* What the exchange does is numbered: `latest` says how recent the quote  *)
(* behind the key is. A step is a section under a lock, a channel          *)
(* operation, or a Redis pipeline. A goroutine's own values change with    *)
(* the step that computes them.                                            *)
(*                                                                         *)
(* A definition marked "Variant of" is the code with one slip in it. No    *)
(* action uses it: it shows that a property can tell the slip.             *)
(***************************************************************************)
EXTENDS Integers, Sequences

CONSTANTS
  Quotes,        \* quotes the exchange may send: records of bid and ask
  Trades,        \* trades it may send: records of price and size
  TickCapacity,  \* capacity of the provider's tick channel (10000 in the code)
  BarCapacity,   \* capacity of the aggregator's output channel (1000 in the code)
  MaxBuffer,     \* capacity of the publisher's retry buffer (10000 in the code)
  MaxEvents,     \* bound: quotes and trades
  MaxMinute,     \* bound: minutes that pass
  MaxFaults      \* bound: requests to Redis and to the REST interface that fail

ASSUME MarketFeedAssumption ==
  /\ \A q \in Quotes : q.bid \in Int /\ q.ask \in Int
  /\ \A t \in Trades : t.price \in Int /\ t.size \in Int
  /\ TickCapacity \in Nat \ {0}
  /\ BarCapacity \in Nat \ {0}
  /\ MaxBuffer \in Nat \ {0}
  /\ MaxEvents \in Nat
  /\ MaxMinute \in Nat \ {0}
  /\ MaxFaults \in Nat

Events == 1..MaxEvents

Minutes == 1..MaxMinute

\* A failed publication, numbered in the order the buffer is offered them.
Items == 1..MaxFaults

\* The goroutines that call PublishTick.
Publishers == {"ingest", "first", "periodic"}

VARIABLES
  now,        \* the minute of the clock
  newest,     \* events of the exchange so far
  tickCh,     \* the provider's tick channel
  lastKnown,  \* the last tick ingested, as merged
  publisher,  \* publisher[g]: where the goroutine stands, and the event it publishes
  latest,     \* the event behind market:latest, 0 while the key is not set
  buffer,     \* p.buffer: the items to be retried
  flusher,    \* the flush loop: where it stands, and its copy of the buffer
  items,      \* items offered to the buffer so far
  retried,    \* retried[i]: times the flush loop put item i into the stream
  bar,        \* the bar being built
  outputCh,   \* the aggregator's output channel
  published,  \* the stream market:bars
  counted,    \* history: the events AddTick has seen
  lost,       \* history: the events of bars nobody could be given
  faults      \* requests that failed so far

feed == <<now, newest, tickCh, lastKnown>>

redis == <<publisher, latest, buffer, flusher, items, retried>>

bars == <<bar, outputCh, published, counted, lost>>

vars == <<now, newest, tickCh, lastKnown, publisher, latest, buffer, flusher, items, retried,
          bar, outputCh, published, counted, lost, faults>>

\* A tick as it was parsed: numbers of any sign. `traded` is the volume the exchange
\* reported with the event, for reference.
RawTick ==
  [event : Events, bid : Int, ask : Int, last : Int, volume : Int, minute : Nat,
   traded : Int]

\* A tick that was validated.
Tick ==
  [event : Events, bid : Nat, ask : Nat, last : Nat, volume : Nat, minute : Nat,
   traded : Int]

NoTick ==
  [event |-> 0, bid |-> 0, ask |-> 0, last |-> 0, volume |-> 0, minute |-> 0, traded |-> 0]

\* `ticks`: the events in the bar, whose number is its tradeCount.
Bar == [minute : Nat, ticks : SUBSET Events, volume : Nat, traded : Int]

NoBar == [minute |-> 0, ticks |-> {}, volume |-> 0, traded |-> 0]

PublisherRecord ==
  [pc : {"wait", "fallback", "publish", "failed", "count", "done"}, event : 0..MaxEvents]

FeedTypeOK ==
  /\ now \in Minutes
  /\ newest \in 0..MaxEvents
  /\ tickCh \in Seq(RawTick)
  /\ Len(tickCh) <= TickCapacity
  /\ lastKnown \in Tick \cup {NoTick}

RedisTypeOK ==
  /\ publisher \in [Publishers -> PublisherRecord]
  /\ latest \in 0..MaxEvents
  /\ buffer \in Seq(Items)
  /\ Len(buffer) <= MaxBuffer
  /\ flusher \in [pc : {"wait", "exec", "failed"}, batch : Seq(Items)]
  /\ items \in 0..MaxFaults
  /\ retried \in [Items -> Nat]
  /\ faults \in 0..MaxFaults

BarsTypeOK ==
  /\ bar \in Bar
  /\ outputCh \in Seq(Bar)
  /\ Len(outputCh) <= BarCapacity
  /\ published \in Seq(Bar)
  /\ counted \subseteq Events
  /\ lost \subseteq Events

TypeOK == FeedTypeOK /\ RedisTypeOK /\ BarsTypeOK

Init ==
  /\ now = 1
  /\ newest = 0
  /\ tickCh = <<>>
  /\ lastKnown = NoTick
  /\ publisher = [g \in Publishers |-> [pc |-> "wait", event |-> 0]]
  /\ latest = 0
  /\ buffer = <<>>
  /\ flusher = [pc |-> "wait", batch |-> <<>>]
  /\ items = 0
  /\ retried = [i \in Items |-> 0]
  /\ bar = NoBar
  /\ outputCh = <<>>
  /\ published = <<>>
  /\ counted = {}
  /\ lost = {}
  /\ faults = 0

Elements(s) == {s[i] : i \in DOMAIN s}

Fault == faults < MaxFaults /\ faults' = faults + 1

--------------------------------------------------------------------------------
(* The provider *)

\* parseQuoteToTick: the last price of a quote is its midpoint, and it has no volume.
QuoteTick(q, n, minute) ==
  [event |-> n, bid |-> q.bid, ask |-> q.ask, last |-> (q.bid + q.ask) \div 2,
   volume |-> 0, minute |-> minute, traded |-> 0]

\* parseTradeToTick: a trade has neither bid nor ask.
TradeTick(t, n, minute) ==
  [event |-> n, bid |-> 0, ask |-> 0, last |-> t.price,
   volume |-> t.size, minute |-> minute, traded |-> t.size]

Sent(n, minute) ==
  {QuoteTick(q, n, minute) : q \in Quotes} \cup {TradeTick(t, n, minute) : t \in Trades}

\* The minutes the exchange may stamp an event with: its clock may be ahead.
Stamps == {now, now + 1} \cap Minutes

\* processMessage: a tick goes into the channel, or is dropped when the channel is full.
Receive(tick) ==
  tickCh' = IF Len(tickCh) < TickCapacity THEN Append(tickCh, tick) ELSE tickCh

\* The exchange has a quote or a trade. The stream delivers it, or has a gap.
Event ==
  /\ newest < MaxEvents
  /\ newest' = newest + 1
  /\ \/ \E minute \in Stamps : \E tick \in Sent(newest + 1, minute) : Receive(tick)
     \/ UNCHANGED tickCh
  /\ UNCHANGED <<now, lastKnown, redis, bars, faults>>

Minute ==
  /\ now < MaxMinute
  /\ now' = now + 1
  /\ UNCHANGED <<newest, tickCh, lastKnown, redis, bars, faults>>

--------------------------------------------------------------------------------
(* The ingest loop *)

Distance(a, b) == IF a > b THEN a - b ELSE b - a

\* ValidateTick, `horizon` being the minute it is five seconds from now: a price, nothing
\* negative, no crossed market, not from the future, and no move by more than half of the
\* last known price.
Valid(tick, prev, horizon) ==
  /\ tick.last > 0
  /\ tick.bid >= 0 /\ tick.ask >= 0 /\ tick.volume >= 0
  /\ ~(tick.bid > 0 /\ tick.ask > 0 /\ tick.bid > tick.ask)
  /\ tick.minute <= horizon
  /\ prev.last > 0 => 2 * Distance(tick.last, prev.last) <= prev.last

\* What the tick leaves at zero is taken from the last known one.
Merged(tick, prev) ==
  [tick EXCEPT !.bid = IF @ = 0 THEN prev.bid ELSE @,
               !.ask = IF @ = 0 THEN prev.ask ELSE @,
               !.volume = IF @ = 0 THEN prev.volume ELSE @]

GoTo(g, pc) == publisher' = [publisher EXCEPT ![g] = [pc |-> pc, event |-> 0]]

StartPublishing(g, event) ==
  publisher' = [publisher EXCEPT ![g] = [pc |-> "publish", event |-> event]]

\* A tick from the channel: rejected, or merged, stored and on its way to Redis.
Ingest ==
  /\ publisher["ingest"].pc = "wait"
  /\ tickCh # <<>>
  /\ tickCh' = Tail(tickCh)
  /\ LET tick == Head(tickCh)
     IN \E horizon \in {now, now + 1} :
          IF Valid(tick, lastKnown, horizon)
          THEN /\ lastKnown' = Merged(tick, lastKnown)
               /\ StartPublishing("ingest", tick.event)
          ELSE UNCHANGED <<lastKnown, publisher>>
  /\ UNCHANGED <<now, newest, latest, buffer, flusher, items, retried, bars, faults>>

--------------------------------------------------------------------------------
(* RedisPublisher *)

\* Where a goroutine goes when PublishTick returned. The ingest loop adds the tick to its
\* bar even when it was not published; the first snapshot is taken once.
AfterPublish == [ingest |-> "count", first |-> "done", periodic |-> "wait"]

Return(g) == GoTo(g, AfterPublish[g])

\* The pipeline of PublishTick: the stream, the latest price, the active symbols.
PublishSucceeds(g) ==
  /\ publisher[g].pc = "publish"
  /\ latest' = publisher[g].event
  /\ Return(g)
  /\ UNCHANGED <<feed, buffer, flusher, items, retried, bars, faults>>

\* The pipeline fails, before or after the latest price was set.
PublishFails(g) ==
  /\ publisher[g].pc = "publish"
  /\ Fault
  /\ latest' \in {latest, publisher[g].event}
  /\ GoTo(g, "failed")
  /\ UNCHANGED <<feed, buffer, flusher, items, retried, bars>>

\* Variant of Keep: the buffer may grow past its capacity.
KeepUnbounded(g) ==
  /\ publisher[g].pc = "failed"
  /\ items' = items + 1
  /\ buffer' = Append(buffer, items + 1)
  /\ Return(g)
  /\ UNCHANGED <<feed, latest, flusher, retried, bars, faults>>

\* Variant of Keep: the last place is never used.
KeepOffByOne(g) ==
  /\ publisher[g].pc = "failed"
  /\ items' = items + 1
  /\ buffer' = IF Len(buffer) < MaxBuffer - 1 THEN Append(buffer, items + 1) ELSE buffer
  /\ Return(g)
  /\ UNCHANGED <<feed, latest, flusher, retried, bars, faults>>

\* Under bufferMu, the message is kept while there is room.
Keep(g) ==
  /\ publisher[g].pc = "failed"
  /\ items' = items + 1
  /\ buffer' = IF Len(buffer) < MaxBuffer THEN Append(buffer, items + 1) ELSE buffer
  /\ Return(g)
  /\ UNCHANGED <<feed, latest, flusher, retried, bars, faults>>

\* flush, up to the unlock: take the whole buffer.
FlushTakes ==
  /\ flusher.pc = "wait"
  /\ buffer # <<>>
  /\ flusher' = [pc |-> "exec", batch |-> buffer]
  /\ buffer' = <<>>
  /\ UNCHANGED <<feed, publisher, latest, items, retried, bars, faults>>

Retried(some) == [i \in Items |-> IF i \in some THEN retried[i] + 1 ELSE retried[i]]

FlushSucceeds ==
  /\ flusher.pc = "exec"
  /\ retried' = Retried(Elements(flusher.batch))
  /\ flusher' = [pc |-> "wait", batch |-> <<>>]
  /\ UNCHANGED <<feed, publisher, latest, buffer, items, bars, faults>>

\* The pipeline is no transaction: when it fails, some of its messages may be in the stream.
FlushFails ==
  /\ flusher.pc = "exec"
  /\ \/ UNCHANGED <<retried, faults>>
     \/ /\ Fault
        /\ \E some \in SUBSET Elements(flusher.batch) : retried' = Retried(some)
  /\ flusher' = [flusher EXCEPT !.pc = "failed"]
  /\ UNCHANGED <<feed, publisher, latest, buffer, items, bars>>

Capped(s) == IF Len(s) > MaxBuffer THEN SubSeq(s, 1, MaxBuffer) ELSE s

\* The batch goes in front of what arrived since; the end is cut off.
PutBack ==
  /\ flusher.pc = "failed"
  /\ buffer' = Capped(flusher.batch \o buffer)
  /\ flusher' = [pc |-> "wait", batch |-> <<>>]
  /\ UNCHANGED <<feed, publisher, latest, items, retried, bars, faults>>

--------------------------------------------------------------------------------
(* REST snapshots *)

\* The request answers with what the exchange has now.
Fetch(g) ==
  /\ g # "ingest"
  /\ publisher[g].pc \in {"wait", "fallback"}
  /\ newest > 0
  /\ StartPublishing(g, newest)
  /\ UNCHANGED <<feed, latest, buffer, flusher, items, retried, bars, faults>>

\* Variant of FetchFails: the periodic loop ends at its first error.
FetchFailsForGood(g) ==
  /\ g # "ingest"
  /\ publisher[g].pc \in {"wait", "fallback"}
  /\ GoTo(g, IF g = "first" /\ publisher[g].pc = "wait" THEN "fallback" ELSE "done")
  /\ UNCHANGED <<feed, latest, buffer, flusher, items, retried, bars, faults>>

\* The request fails. The first snapshot falls back on a request per symbol, once; the
\* periodic one waits for its next minute.
FetchFails(g) ==
  /\ g # "ingest"
  /\ publisher[g].pc \in {"wait", "fallback"}
  /\ GoTo(g, CASE g = "periodic" -> "wait"
               [] publisher[g].pc = "wait" -> "fallback"
               [] OTHER -> "done")
  /\ UNCHANGED <<feed, latest, buffer, flusher, items, retried, bars, faults>>

--------------------------------------------------------------------------------
(* BarAggregator *)

\* emitBar: into the channel, or nowhere when it is full.
EmitBar(b) ==
  IF Len(outputCh) < BarCapacity
  THEN outputCh' = Append(outputCh, b) /\ UNCHANGED lost
  ELSE lost' = lost \cup b.ticks /\ UNCHANGED outputCh

WithTick(b, tick) ==
  [minute |-> tick.minute, ticks |-> b.ticks \cup {tick.event},
   volume |-> b.volume + tick.volume, traded |-> b.traded + tick.traded]

\* AddTick: a tick of another minute than the bar's emits the bar and starts one.
AddTick ==
  /\ publisher["ingest"].pc = "count"
  /\ GoTo("ingest", "wait")
  /\ counted' = counted \cup {lastKnown.event}
  /\ IF bar # NoBar /\ bar.minute # lastKnown.minute
     THEN EmitBar(bar) /\ bar' = WithTick(NoBar, lastKnown)
     ELSE bar' = WithTick(bar, lastKnown) /\ UNCHANGED <<outputCh, lost>>
  /\ UNCHANGED <<feed, latest, buffer, flusher, items, retried, published, faults>>

\* Variant of CheckAndEmit: the bar is emitted and not removed.
CheckAndEmitKeeping ==
  /\ bar # NoBar
  /\ bar.minute < now
  /\ EmitBar(bar)
  /\ UNCHANGED <<feed, redis, bar, published, counted, faults>>

\* checkAndEmit: the timer finds a bar of an earlier minute.
CheckAndEmit ==
  /\ bar # NoBar
  /\ bar.minute < now
  /\ EmitBar(bar)
  /\ bar' = NoBar
  /\ UNCHANGED <<feed, redis, published, counted, faults>>

\* A bar from the channel goes to its stream; an error is only logged.
PublishBar ==
  /\ outputCh # <<>>
  /\ outputCh' = Tail(outputCh)
  /\ \/ /\ published' = Append(published, Head(outputCh))
        /\ UNCHANGED <<lost, faults>>
     \/ /\ Fault
        /\ lost' = lost \cup Head(outputCh).ticks
        /\ UNCHANGED published
  /\ UNCHANGED <<feed, redis, bar, counted>>

--------------------------------------------------------------------------------

Publish(g) == PublishSucceeds(g) \/ PublishFails(g) \/ Keep(g)

Snapshot(g) == Fetch(g) \/ FetchFails(g) \/ Publish(g)

IngestLoop == Ingest \/ Publish("ingest") \/ AddTick

FlushLoop == FlushTakes \/ FlushSucceeds \/ FlushFails \/ PutBack

Next ==
  \/ Event \/ Minute
  \/ Ingest
  \/ \E g \in Publishers : PublishSucceeds(g) \/ PublishFails(g) \/ Keep(g)
  \/ \E g \in Publishers : Fetch(g) \/ FetchFails(g)
  \/ FlushTakes \/ FlushSucceeds \/ FlushFails \/ PutBack
  \/ AddTick \/ CheckAndEmit \/ PublishBar

\* The goroutines run and their requests return. Nothing is owed by the exchange, the stream
\* or the aggregator.
Fairness ==
  /\ WF_vars(IngestLoop)
  /\ WF_vars(Publish("periodic"))
  /\ WF_vars(Fetch("periodic"))

Spec == Init /\ [][Next]_vars

FairSpec == Spec /\ Fairness

--------------------------------------------------------------------------------
(* Properties *)

Held == Elements(buffer) \cup Elements(flusher.batch)

Retry == INSTANCE Outbox WITH Capacity <- MaxBuffer,
           accepted <- 1..items, held <- Held, delivered <- retried

\* The retry buffer implements the bounded outbox: a message that was kept leaves memory only
\* into the stream, or when MaxBuffer messages are held; no interleaving of the three
\* goroutines that fill the buffer with the loop that empties it and puts it back loses one
\* otherwise, or sends one again that the stream has acknowledged.
ImplementsOutbox == Retry!OutboxSpec

TicksIn(s) == UNION {s[i].ticks : i \in DOMAIN s}

Apart(s) == \A i, j \in DOMAIN s : i # j => s[i].ticks \cap s[j].ticks = {}

\* Every tick that reached the aggregator is in exactly one bar, the open one, one on its way
\* or one published, unless its bar could not be handed on: neither the timer and a tick of
\* another minute emitting in turn, nor ticks that arrive late or ahead, count one twice or
\* drop one.
TickInOneBar ==
  /\ Apart(outputCh)
  /\ Apart(published)
  /\ bar.ticks \cap TicksIn(outputCh) = {}
  /\ bar.ticks \cap TicksIn(published) = {}
  /\ TicksIn(outputCh) \cap TicksIn(published) = {}
  /\ counted = lost \cup bar.ticks \cup TicksIn(outputCh) \cup TicksIn(published)
  /\ lost \cap (bar.ticks \cup TicksIn(outputCh) \cup TicksIn(published)) = {}

\* "Periodic snapshot refresh - ensures data stays current even if WebSocket has gaps"
\* (main.go): under FairSpec, once the exchange is silent, the latest price becomes that of
\* its last event and stays so, whatever the stream lost, the validator rejected, the
\* pipelines dropped, or an older snapshot overwrote.
LatestCatchesUp == (newest = MaxEvents) ~> [](latest = newest)

\* "BarAggregator aggregates ticks into 1-minute OHLCV bars": the volume of a bar is what was
\* traded in it.
BarVolumeIsTraded == \A i \in DOMAIN published : published[i].volume = published[i].traded
================================================================================
