# Verification of the trading platform

TLA+ specifications of the services under `src/trading-platform`, the TLC runs
that check them on small instances, and theorems about them that TLAPS checks
for every value of the constants. Paths below are relative to
`src/trading-platform`; `oms`, `gateway`, `market-data` and `watchdog` stand for
`services/oms`, `services/gateway`, `services/market-data` and
`services/watchdog`.

## 1. The system

Five Go services over Postgres (with Timescale) and Redis, a dashboard, an
installer:

    strategies --strategy:signals--> OMS --orders--> broker (paper, in process; or Alpaca)
    dashboard --HTTP--> gateway --SQL, Redis--> (the same tables and keys)
    Alpaca stream --> market-data --streams, COPY--> Redis, Postgres
    watchdog --health checks, docker restart--> every service

The services share no memory and no locks. They meet in rows (`orders`,
`positions`, `risk_config`, `config`), in Redis keys (`killswitch:active`,
`market:latest:*`) and on Redis channels, which deliver to whoever listens at
that moment.

### Components

| component | state | operations | hard behaviour | what makes it correct |
|---|---|---|---|---|
| signal loop `oms/cmd/server/main.go` | one order in hand | take a signal, gate, insert, risk check, submit, link, accept | every error ignored; row saved blindly; gateway and listener write the same row | an order reaches the broker once, vetted; the row tells the truth |
| state machine, persistence `oms/internal/order` | `orders`, `order_state_log` | Transition, SaveOrderState, LogStateTransition | failed statement may have run; log after save | terminal rows stay; only table edges are saved |
| signal receiver `oms/internal/signal` | `signalCh` (100) | publish, take | drop when full | a signal becomes at most one order |
| autonomy gate `oms/internal/autonomy` | `pendingApprovals` | Evaluate, AddPendingApproval, expire | approval arrives in another process | no unapproved order is sent; an approved one goes on |
| paper simulator `oms/internal/broker/paper` | open orders, positions, `updateCh` (100) | SubmitOrder, fill, monitor | one goroutine per order; send on a full channel under `ps.mu` | fills once; nobody waits for ever |
| live client `oms/internal/broker/alpaca` | connected flag | SubmitOrder | request lost on the way out or back; no update stream | no second submission |
| fill processor `oms/internal/fill` | `positions` | ProcessFill, updatePosition | races with the loop's saves | each fill booked once, positions follow the broker |
| kill switch `oms/internal/killswitch` | flag, Redis key | read at startup, consult | key set by another process | nothing is sent under it |
| risk manager `oms/internal/risk` | recent orders | CheckAll | limits that change, a list one check cuts and the next reads, a stale snapshot | no limit is outrun |
| configuration `oms/internal/config`, `gateway/.../config_routes.go` | rows, the OMS's copy, channel | update, publish, load, reload | messages lost or overtaken | a change reaches the OMS |
| portfolio tracker `oms/internal/portfolio` | positions, account | load, tick, snapshot | hears of no fill and no price | the snapshot follows the account |
| gateway order routes `gateway/internal/routes` | none | create, cancel, approve, reject, kill switch | acts on the row, not on the OMS | what it answers becomes true |
| gateway setup | users | setup | two concurrent requests | one first admin |
| websocket hub `gateway/internal/ws` | map of clients, one channel each | register, unregister, broadcast, two pumps per client | a slow client, a drop that crosses an unregistration | no send on a closed channel; a feed without gaps; one client never holds up the others |
| tick writer `market-data/internal/publisher/db_writer.go` | tick buffer | AddTick, two flushers, final flush | copy outside the lock, put back after a failure | no tick in two places; loss only when full |
| ingest loop, validator `market-data/cmd/server/main.go`, `.../validator` | last known tick | validate, merge, publish, aggregate | what one tick leaves out comes from the one before | the latest price is the exchange's |
| Redis publisher `.../redis_publisher.go` | retry buffer, latest-price key | PublishTick, flush | three goroutines publish, one retries; pipelines executed in part | loss only when full; the key catches up |
| bar aggregator `market-data/internal/aggregator` | one open bar per symbol | AddTick, timer, Stop | late ticks, full channel | each tick in one bar |
| market calendar `market-data/internal/calendar`, `gateway/.../market_routes.go`, `oms/.../checks.go` | tables of dates | open?, next open, next close | three answers to one question | the next session is the next one |
| provider connection `.../provider/alpaca`, `pkg/reconnect` | connection, subscriptions | connect, read, reconnect, disconnect | concurrent reconnects | one connection, resubscribed |
| watchdog `watchdog` | two counters per service | check, record, restart, alert | a restart that fails, or whose answer does; its own restart | restarts are bounded and spaced; an outage is noticed |
| config service, frontend, wizard, scripts | config rows; clients | CRUD | - | - |

`PROJECT.json` lists every component with its status, and under `hazards`
every place where the code is hard to test.

## 2. Modules

| module | models |
|---|---|
| `OrderStates` | `model.OrderState`, `IsTerminal`, `ValidTransitions` |
| `ExecutionLedger` | the abstract promise of order execution |
| `OrderLifecycle` | the whole order path; composes the loop, the broker, the listener, the gateway, restarts |
| `MCOrderLifecycle` | its instances for TLC |
| `OrderTypeProofs`, `OrderSafetyProofs` | its theorems |
| `Outbox` | the abstract promise of a bounded buffer in front of a store |
| `DBWriter` | `market-data/internal/publisher/db_writer.go`: `AddTick`, the two flush loops, the shutdown |
| `DBWriterProofs` | its theorems |
| `ConfigReload` | the gateway's configuration routes and `oms/internal/config`: how a changed setting reaches the OMS |
| `RiskManager` | extends `ConfigReload` by `oms/internal/risk`, the tracker's snapshot and the positions rows |
| `MCRiskManager` | its instances for TLC |
| `RiskProofs` | the theorems of both |
| `StreamConnection` | `market-data/internal/provider/alpaca`, `pkg/reconnect`, and the watchlist of `market-data/cmd/server` |
| `StreamProofs` | its theorems |
| `MarketFeed` | one symbol through the market data process: `provider/alpaca` (what a message becomes), the ingest loop, `validator`, `redis_publisher.go`, the REST snapshots, `aggregator`; implements `Outbox` |
| `MCMarketFeed` | its instances for TLC, and the calendar on its tables |
| `MarketCalendar`, `USHolidays` | the three calendars and the tables of dates |
| `MarketDataProofs` | the theorems of `MarketFeed` and `MarketCalendar` |
| `Subscriptions` | the abstract promise of a live feed |
| `WSHub` | `gateway/internal/ws` and the relay of `gateway/cmd/server/main.go` |
| `HubProofs` | its theorems |
| `Watchdog` | `watchdog/internal/monitor`, `docker`, `alerter`, and the containers |
| `WatchdogProofs` | its theorems |

### OrderLifecycle

A signal is identified with the order it would become, so symbol, side, type
and quantity are constants indexed by the order. Prices are not modelled: a
limit or stop order may be triggered at any time, and the risk manager's
answer is free.

State and code:

* `row[o]`, `stateLog`, `position[o]`, `killKey` are what survives: the orders
  row (status, whether `broker_order_id` is set, `filled_quantity`), the log
  rows, the positions rows (a row belongs to the order whose fill inserted it:
  the table has no unique symbol), the Redis key.
* `mode`, `active`, `signals`, `pending`, `loop`, `updateCh`, `listener` are
  the memory of the OMS: the adapter built at startup, `KillSwitch.active`,
  `signalCh`, the gate's map, the loop's position and its `*model.Order`, the
  simulator's channel, the fill listener's position and the order it read.
* `task[o]` and `simPosition` are the broker: the simulator's goroutine for
  the order (`"sending"` while it holds `ps.mu` and waits for room in the
  channel) and its map of positions.
* `seen`, `verdict`, `sent`, `executed`, `posted` record history; `faults` and
  `restarts` count against `MaxFaults` and `MaxRestarts`.

Each action is what one goroutine does between two shared accesses. The signal
loop goes through `Dequeue`, `CreateOrder`, then `AddPendingApproval` or
`CheckAll`, `LoopTransition` and `LoopLogTransition` (a `Transition` is a save
and then a log row), `SubmitToPaper` or `SubmitToAlpaca`, `LinkBrokerOrder` (the
bare save of the broker id) and the last `LoopTransition` to ACCEPTED. The fill
listener goes through `ReceiveUpdate`, `ReadOrder`, `SaveFill`, `LogFill`,
`UpdatePosition`. A database statement may return an error and still have been
executed; the callers' treatment of that error (mostly none) is in the action.
`Transition` refuses silently what the table lacks: so a risk rejection
(APPROVED to REJECTED) changes nothing, as in the code.

`GatewayUpdate` is the guarded UPDATE of the cancel, approve and reject routes;
`SetKillKey` the two kill switch routes; `ExpireApproval` the gate's timer;
`Restart` the end and the next start of the process.

Definitions marked "Variant of" are the code with one slip in it; no action
uses them. They show that the properties can tell the slip.

### Properties of OrderLifecycle

* `BookedIffFilled`: FILLED rows are those whose whole quantity is booked, and
  the broker executed it.
* `OnlyVettedOrdersReachBroker`, `BrokerClaimsAreTrue`: no way around the risk
  manager; no invented broker id or acceptance, whatever fails.
* `BookMatchesSimulator`: with all executions posted, no fault and no restart,
  the positions table is the simulator's map. Sells are clipped at zero, so
  this depends on the order of fills, which the send under `ps.mu` preserves.
* `SettledStaysSettled`, `KilledProcessSendsNothing`: steps that never happen.
* `ImplementsLedger`: refinement of `ExecutionLedger` (handed over, executed,
  booked at most once each, in that order, never undone), with `booked` mapped
  to the rows' filled quantity.
* `LoopReturns`, `FillsDrain`: nobody waits on everybody.

### DBWriter

The ingest loop and the backfill call `AddTick`; ticks are numbered in the
order it sees them, whatever they say. Two goroutines flush the one buffer: the
timer's whenever it is not empty, the other when it has reached `FlushSize`.

`buffer` is `w.buffer`; `flusher[f]` is where a goroutine stands and its local
`ticks`; `stored[t]` counts the rows of `t` in `market_ticks`, which has no
unique key; `stopping` is the cancelled context. `arrived`, `faults` and
`unanswered` count.

A step is a section under `bufferMu`, or the COPY. `Decide` reads the length;
`Take` is `flush` up to the unlock, and by then the other goroutine may have
emptied the buffer; `CopySucceeds` and `CopyFails` are the statement, which may
have been executed although it reports an error; `PutBack` puts the batch in
front of what arrived since and cuts the end off. `Leave` is the end of a
goroutine: the timer's flushes once more, with a context nobody cancels. A
batch taken with the cancelled context fails before the database is asked.

* `OnePlace`: a tick is in the buffer or in one batch, once.
* `StoredOnce`: unless an answer was lost, a tick is stored at most once, and
  only after memory let it go.
* `ImplementsOutbox`: refinement of `Outbox`, with buffer and batches together
  as what is held. A tick leaves memory only into the table or while at least
  `MaxBuffer` ticks are held. They may be more: the buffer and two batches
  each have the bound, which is why the promise counts what is held.
* `TicksSettle`: no tick is held for ever, unless the process is told to stop.

### ConfigReload and RiskManager

`dbConfig` is the table `app_config`, `cfg` the OMS's copy, `notices` its
channel of `config:changed`, `announcing` counts the requests that committed
and have not published yet. `loader` is where `LoadFromDB` stands and the
rows it has in hand. The table may be empty (`NoRows`): a load then changes
nothing, an update finds no row, and `Seed`, the gateway's
`seedConfigIfEmpty`, fills it without a publish. That is harmless only as long
as its values are the OMS's own defaults, as they are
(`gateway/cmd/server/main.go:169`, `oms/internal/config/config.go:82`);
with any others TLC finds `SettingsFollow` violated. `Commit` and `Announce` are the two shared accesses of `Update`
and `BulkUpdate`; `Query`, `Apply` and `Subscribe` those of the startup, and
`TakeNotice`, `Query`, `Apply` those of the subscriber. A query may fail, a
result may break off (then a mixture of old and new settings is applied), a
publish may fail or find nobody subscribed: `missed` remembers that until the
next load that went through.

`RiskManager` adds one order at a time between `StartCheck` (the limits are
copied) and `FinishCheck` (all checks; then the order joins `recent`, passed or
not). The rate check cuts `recent` to its window, and the duplicate check reads
what is left. `rows` is the positions table, `tracker` the portfolio tracker's
copy of it. That copy is made at startup (whole, or in part or not at all
when the statement fails, which main does not look at) and never again: no
fill reaches the tracker, and it subscribes to channels `market:ticks:*` while the market data
service adds to streams of these names. `loss.true` is what the account lost
today, `loss.seen` what the tracker makes of the rows. Four of the twelve
checks are modelled; the others are a free answer (`OtherChecks`). The equity
the limits refer to is read at startup too, so `max_position` is a value.

* `SettingsFollow`: the OMS goes by the table, or a change is on its way, or
  something was lost; no interleaving of requests, messages and loads leaves
  older settings standing. `SettingsArrive`: they arrive.
* `RateHolds`, `NoTwins`: within one process no more orders pass in a minute
  than the limit, and no order twice within the duplicate window, though the
  list is cut by one check, read by the next, and the limit may change.

### StreamConnection

`state`, `conn` and `symbols` are `p.state`, `p.conn` and `p.symbols`. `live`
is the set of connections whose socket works and `served[c]` the list the
server keeps for connection `c`; both are external. `driver[k]` is the k-th
call of `Connect` and the read loop it starts, one goroutine after the other:
position, failed attempts, and the local copies of `p.conn` and `p.symbols`.
`pinging` holds the ping loops that run, `pinged[k]` the connection a loop has
read and writes to; `cancelled` the contexts of main and of the provider;
`shutdown` and `closing` where `Disconnect` stands; `watchlist`, `reload` and
`reloads` main's symbols and the call of `Subscribe` or `Unsubscribe` in
progress.

A step is a section under `p.mu`, a call of the network, or a test of a
context. The lock is released between reading `p.conn` or `p.symbols` and
using it, so `Copy`, `Fetch`, `Write` of a connecting goroutine interleave
with `Edit`, `CheckConnected`, `FetchConn`, `Send` of a hot reload. `Break`
may happen at any time; the connection that broke is then found by the read
loop, a write to it is lost. Local variables are dropped where they go out of
scope.

* `OneDriver`: at most one goroutine connects or reads.
* `WatchedIsServed`: on a connection in use, every symbol of the list is
  served, up to those `Subscribe` still has in hand for this very connection.
* `KeptAlive`: a connection in use has a ping loop.
* `WatchedGetsServed`: a symbol that stays watched is served, through any
  number of breaks and failed attempts.

A connection counts as in use only before the service is told to stop: a
`Disconnect` that meets a `Connect` leaves the state "disconnected" beside an
open connection, and its `wg.Wait` need not return. The converse of
`WatchedIsServed` does not hold and is not stated: an `Unsubscribe` between
`Copy` and `Write` is overtaken by the older list. Nor is a bound on ping
loops: the loop of a lost connection moves on to the next one and stays.

### MarketFeed

Every symbol has its own last tick, key, stream and bar, and the symbols share
only the channel, the buffer and the goroutines, so one symbol is modelled. What
the exchange does is numbered; an event is a quote or a trade, stamped in the
minute of the process's clock `now` or in the next one. The stream delivers it
into `tickCh` or has a gap.

`lastKnown` is the entry of main's map. `publisher[g]` is where one of the
three goroutines that call `PublishTick` stands: the ingest loop, the first
snapshot, the periodic one. `latest` is the event behind `market:latest:*`,
`buffer` is `p.buffer`, `flusher` the flush loop with its local copy;
`retried[i]` counts how often a message that had failed was added to its
stream by the flush loop. `bar`, `outputCh` and `published` are `a.bars`,
`a.outputCh` and the stream of bars; `counted` and `lost` record which events
the aggregator has seen and which went with a bar nobody could take. `items`
and `faults` count.

Prices and sizes are integers of any sign until `Valid` has let them pass
(`RawTick` and `Tick`). `Ingest` is the loop up to the call of `PublishTick`
(`Valid`, `Merged`);
`PublishSucceeds`, `PublishFails`, `Keep` are `PublishTick` (a failed pipeline
may have set the key); `FlushTakes`, `FlushSucceeds`, `FlushFails`, `PutBack`
the two sections of `flush` under the lock and the pipeline between them;
`Fetch` and `FetchFails` the REST requests; `AddTick`, `CheckAndEmit`,
`EmitBar`, `PublishBar` the aggregator, its timer and the loop that publishes.
The tick writer, which the ingest loop calls as well, is `DBWriter`.

* `ImplementsOutbox`: refinement of `Outbox` by the retry buffer and the batch in
  flight: what was kept leaves memory only into the stream or when `MaxBuffer`
  messages are held, and nothing acknowledged is sent again.
* `TickInOneBar`: each tick the aggregator saw is in exactly one of the open bar,
  the channel, the stream and what was lost, however the timer and the ticks
  take turns and whatever minutes they carry.
* `LatestCatchesUp`: once the exchange is silent the key comes to hold its last
  event and keeps it, whatever the stream, the validator or Redis lost and
  although an older snapshot may overwrite a newer tick on the way. The key's
  lifetime of an hour is left out: the periodic snapshot renews it.
* `BarVolumeIsTraded` does not hold (section 3).

### MarketCalendar

A time is a day and a minute of New York. The module has the calendar of the
market data service with its tables as constants, and beside it the weekday
and hour rules of the gateway's `/market/calendar` and of the OMS's market
hours check. `MCMarketFeed` compares `NextOpen`, `NextClose`,
`MinutesUntilClose` and `IsMonthlyOpex` on the tables of the code
(`USHolidays`) with definitions by enumeration, as assumptions TLC evaluates
before the runs that use the module; section 4 says what is proved for any
tables.

### WSHub

Messages are numbered as the relay broadcasts them; those Redis drops while
the relay waits have no number. `clients`, `broadcast`, `send[c]` are the
hub's map and channels, `fan` the message `Run` hands out and the clients it
has not come to, `closed[c]` whether `c.send` is closed; `conn[c]`,
`reader[c]`, `writer[c]` the connection and its two goroutines, `hand[c]` the
message the writer has taken and not written, `written[c]` what went to the
browser; `peer[c]` is external.

`Run` takes a case of its select (`Register`, `Unregister`, `TakeMessage`) only
between two messages, and each client's turn of the loop is a step (`HandOut`).
`Take`, `SeeClosed`, `WriteSucceeds`, `WriteFails`, `PingFails` are `WritePump`,
`ReadFails` and `ReaderCloses` `ReadPump` with its deferred calls. A send on a
closed channel and a second close set `panicked`, and nothing runs after that.

* `NoPanic`: the two ways out of the map never close a channel twice, nor is
  anything sent on a closed one.
* `ImplementsFeed`: refinement of `Subscriptions`: in order, without a gap from
  the registration on, and a client in the map lags by at most its channel and
  two messages; one that would lag more has been cut off.
* `BroadcastReturns`: the relay is never held up for good, so a client that does
  not read costs the others nothing.
* `GoneIsForgotten`: a browser that left leaves nothing behind: no entry, no
  connection, no goroutine.

### Watchdog

`container[s]` says how many checks a service needs until it answers;
`step[s]` where `checkService` stands with it, `failures` and `attempts` are
the monitor's two maps, `row[s]` the status in `service_health`; `left` are
the services of this round still to be checked. `restarts`, `age` and
`alerted` record history: the restarts Docker executed since the watchdog
started or found the service healthy, the checks since the last reported one,
the alerts since then.

`Check` is the request with its answer or deadline; `HandleHealthy` and
`HandleUnhealthy` what follows up to the restart; `DockerRestarts` the
restart, and `RestartReported` and `RestartFails` its answer, which may be an
error although Docker has done it. `Crash` loses both maps. A service fails at
any time, may recover by itself, and takes up to `SlowestStart` checks to come
up; some do not come up by a restart.

* `RestartsBounded`, `Patient`, `LeftAlone`: at most three restarts between two
  healthy checks in one life of the watchdog, three checks apart, and none
  after the alert.
* `OutageEnds`: a service that is down recovers, or the alert is raised.
* `SlowStartEnds`: a service that needs longer than three checks to start is
  restarted while it starts, but not for ever.

The tables are taken to be those the statements name. The migrations' are not
(see the end of section 3). Every row that a migration or a starting service
inserts is to be checked by `http` or `tcp`; what `checkService` does with any
other type, which is to log it and go on with the next row, is left out.

## 3. Runs

| run | instance | question |
|---|---|---|
| `orders` | a buy of 2 (market) and a sell of 1 (limit) of one symbol; autonomy levels 0, 1, 3; paper and live; channels of one slot; 1 failing statement, 1 restart | all safety properties and the refinement |
| `orders_live` | three market orders, channels of one slot, no fault | liveness under `FairSpec` |
| `orders_cancel` | one order | a cancelled order is un-cancelled: violated |
| `orders_lost_fill` | one market order, nothing fails | the fill finds its order: violated |
| `db_writer` | four ticks, a buffer of three, the second flusher at two, two failing copies, a shutdown at any time | safety, the refinement and, under `FairSpec`, that ticks settle |
| `risk` | two orders checked, a buy and a sell of one symbol; limits of one and two orders in two units of time, duplicates within one; two changes of the settings, one fault, one restart | safety and, under `FairSpec`, that settings arrive |
| `risk_loss` | the same | "all trading stops automatically": violated |
| `stream` | two symbols, three connections, one failed attempt in each `Connect`, one change of the watchlist, a shutdown at any time | safety and, under `FairSpec`, that a watched symbol is served |
| `feed` | a quote, one with a negative bid, and a trade more than half above the first, two events in two minutes, channels and buffer of one, two failing requests | safety, the refinement and, under `FairSpec`, that the latest price catches up |
| `bar_volume` | the same | "1-minute OHLCV bars": violated |
| `hub` | two clients, three messages, channels of one | safety, the refinement and, under `FairSpec`, that nobody is held up and who left is forgotten |
| `watchdog` | two services, one that no restart brings up; starts of up to four checks; one outage, one failing request, one crash | safety and, under `FairSpec`, that outages and slow starts end |

Bounds. Two orders of one symbol are the fewest that share a position and
whose sell can overtake the buy; three senders and one slot are the fewest
that fill the channel while one goroutine holds `ps.mu` and another waits for
it. One fault and one restart anywhere in two orders' lives give each error
path its turn. For the tick writer, four ticks are one more than the buffer
holds, and two failures let both flushers hold a batch to put back, in either
order. For the risk manager, two orders are the fewest that can be one too
many or each other's duplicate; a rate window of two units and a duplicate
window of one tell the two apart; two changes let a message arrive while a
load for the first one runs. Three connections are two breaks, so that a ping
loop of the first can hold the second while the third is opened; one change of
the watchlist adds and removes at once. The last connection does not break, or
nothing would be owed at the end. For the feed, two events are the fewest of
which one can be validated, merged or counted against the other, in the same
bar or in another one; a trade more than half above the quote is rejected
after it; with three publishers, two failures fill a buffer of one behind a
batch that is put back. For the hub, a third message finds a channel of one
full behind a writer that has the first in hand, and the second client shows
what that does to the others. For the watchdog, four checks are more than the
three after which it restarts, and one fault and one crash fall into every
step. Runs with `CHECK_DEADLOCK FALSE` may come to an end: the ticks, the
messages, or the orders and the time are used up, all clients are gone, or the
process has stopped. The order runs and `watchdog` never end and check for
deadlock. The proofs lift the bounds for the safety properties they cover.

Fairness. `FairSpec` assumes weak fairness of the loop, of the listener, and
of each simulator goroutine that is to fill or send: runnable goroutines are
scheduled, statements return within their five-second contexts and HTTP
requests within the client's thirty seconds. Nothing is assumed of prices,
users, the live broker or restarts. The update channel's send is one action,
enabled when there is room: with one listener and a sender that holds `ps.mu`,
weak fairness is enough. `DBWriter` assumes it of each flusher: clocks tick,
the lock is handed on, statements return; the number of failing copies is
bounded, and nothing is assumed of the feed or of the shutdown. `RiskManager`
assumes it of the gateway's publish and of the OMS's loading goroutine.
`StreamConnection` assumes it of `Connect`, of the read loop and of the hot
reload: goroutines run, the server answers an attempt within its deadlines,
and a broken connection fails the read within the deadline of 90 seconds.
Failed attempts are bounded; nothing is assumed of messages, pings, breaks,
reloads or the shutdown. `MarketFeed` assumes it of the ingest loop and of the
periodic snapshot's publish, and that the periodic request does not fail for
ever; nothing is assumed of the exchange, the clock, the stream, the retries,
the timer or the first snapshot. `WSHub` assumes it of each client's pumps,
whose reads and writes have deadlines, and of `Run`'s cases: its select
chooses at random, and the messages and clients that could win against a case
are bounded. Nothing is assumed of Redis, the browsers or the pings.
`Watchdog` assumes it of the loop: the ticker ticks, checks have five seconds,
statements return. The request to Docker has no deadline, and the mutex is
held across it: that Docker answers is an assumption of its own.

### What the violated runs show

1. A cancel is answered with "order cancelled", but the loop's next blind save
   writes SUBMITTED or ACCEPTED over CANCELLED; the order reaches the broker.
2. The simulator can fill a market order before the loop saved its broker id
   and ACCEPTED; the listener then drops the fill for good.
3. The account loses more than the daily limit on a position opened since the
   OMS started; the next order passes `checkDailyLoss`, which sees the loss of
   the startup.
4. A quote has no volume; the ingest loop gives it the volume of the tick before
   and the aggregator adds that. Each quote counts the last trade again.

### Known divergences without a run

Met while modelling, and visible without a model checker:

* The gateway's kill switch sets a key the OMS reads only at startup
  (`oms_routes.go:652`); the dashboard says "all trading halted"
  (`frontend/src/app/risk/page.tsx:88`).
* An approval changes the row and is published ("Publish approval to OMS",
  `oms_routes.go:250`); no goroutine of the OMS hears of it.
* `paper_mode` is reloaded, but the adapter was chosen at startup: "no real orders
  are placed" (`db/migrations/003_config_tables.sql:8`) becomes true with a restart.
* `order_state_log` is called a write-ahead log
  (`db/migrations/004_oms_schema.sql:57`); its row is written after the state.
* Two failing copies of the tick writer put back in turn leave the buffer out of
  arrival order (`db_writer.go:144`): "Drop oldest ticks" then drops a newer one.
* `Connect` passes `InitialDelay: 0`, so "exponential backoff" pauses after the
  first failure only (`pkg/reconnect/reconnect.go:55`).
* The gateway's calendar and the OMS's check of market hours know no holidays and
  no early closes; the market data service has tables of both. The theorem
  `GatewayIgnoresTables` says at which times they differ.
* The monitor's statements name columns (`id`, `type`, `enabled`, `message`,
  `checked_at`) that `registered_services` and `service_health` of migration 001 do
  not have (`monitor.go:116`, `:245`), so with that schema every round ends with
  its first query. In `Watchdog` these are the behaviours in which every load
  fails.
* The restart through Docker has no deadline of its own (`docker/restart.go:22`).

## 4. Proofs

`OrderTypeProofs` proves `TypeCorrect` (`Spec => []TypeOK`) with one step per
action. `OrderSafetyProofs` proves an inductive invariant and from it the
safety properties and the refinement, from `OrdersAssumption` alone: any set
of orders, quantities, capacities and bounds.

The properties are not inductive: whether a blind save is harmful depends on
where the other goroutine stands. `IInv` adds, as named parts, what each
position in the code implies:

* `FreshInv`: an order not seen has no row, no task, nothing sent.
* `BrokerInv`: what was executed was sent; an order is sent at most once and
  executed at most once; a task exists only for what was sent.
* `RowInv`: `filled` is 0 or everything, iff FILLED; linked rows belong to sent
  orders.
* `LoopInv`, `HandInv`: the order in the loop's hand is the loop's alone: while
  it has not reached ACCEPTED its row is not FILLED, so the loop's save of
  `filled = 0` undoes nothing.
* `UpdateInv`, `ListenerInv`: an order is in the update channel or in the
  listener's hand at most once, and what the listener is about to save is what
  the broker executed.

TLC checked `IInv` on the instance of `orders` before it was proved. Each
action has a lemma of its own; `Invariance` combines them. The refinement
theorem maps each action to `Send`, `Execute`, `Book` or a stutter.

`BookMatchesSimulator` compares two tables that apply the same fills at
different times, and a fill that closes a position clips it at zero, so the
fills do not commute and no sum would do. `BookInv` says instead that the
fills on their way connect the two: there are a book the positions table shows
and a sequence of books, one for the update the listener holds, one for each
update in the channel, each the one before with its fill applied, the last of
which is the simulator's map (up to the update being sent). A step moves one
fill along this chain. `PostedInv` (an update is posted at most once, whole)
holds with faults and restarts, too; `SenderInv` is the mutex of the
simulator; `NoneDropped` excuses the updates the listener loses, and is never
true again once it is false.

`RowsInv` is about the statuses. The row and the loop's copy of it drift
apart, because the gateway updates the row and the loop saves blindly:
`HandRow` says how far. From it follows that a row moves along
`ValidTransitions` but for the pairs in `Departures`, each of which TLC shows
to be taken, and, with `LogInv` (what is about to be logged was saved), that
the state log never claims what the row does not have (`LogIsTrue`). TLC
checked `BookInv` with two and with three orders, and the parts of `RowsInv`
on the instance of `orders`, before they were proved.

`DBWriterProofs` starts with lemmas about the elements of a concatenation, a
prefix and a suffix of a sequence without repetition. The invariant adds to
`TypeOK`, `OnePlace` and `StoredOnce` the parts they need: `BatchInv` (a
goroutine holds ticks only between its `Take` and the end of its flush) and
`ArrivedInv` (what is in memory or stored has arrived, so a new tick is in
neither). The refinement theorem needs one count: a tick is cut off or dropped
only when the buffer, which has no repetition, is as long as `MaxBuffer`, so at
least that many are held. `MemoryBoundedHolds` counts from above: three times
`MaxBuffer`, the buffer and both copies, and TLC shows that this is reached.
All of it rests on `DBWriterAssumption` alone.

`RiskProofs` proves the settings' part for `ConfigNext` and the orders' part
for the other actions, and joins them. `ApplyInv` is what `SettingsFollow`
lacks: rows read before a later commit, and about to be applied, are known to
be old, unless an empty table was read and the seed overtook it. `SeedInv` says
that until then the OMS goes by its defaults. `RecentInv` is what the two checks rest on: every order this process
let pass within the rate window is still in the list, so that the orders of
the minute are a subset of a finite set the check has counted
(`RateHoldsAlways`), and, since `DuplicateWindow <= RateWindow`, no twin was
cut away (`NoTwinsHolds`).

`StreamProofs` proves `OneDriver`, `WatchedIsServed` and `KeptAlive`. None is
inductive. `InTurn` says that drivers start in order, each after the one
before has ended; `Ownership`, that a driver that has published its connection
finds its own in `p.conn`, or none, until it ends; `InService`, that the state
is "connected" from `Announce` until the connection is lost, unless something
is cancelled; `Pings`, that a ping loop writes to a connection no older than
its own, so that the loop of a working connection has met no failure.
`Delivery` is the core of `WatchedIsServed`: from `Copy` on, each watched
symbol is served, or in the local copy about to be written, or in the hand of
`Subscribe`, which will then see the state "connected" and this connection.
TLC checked the conjunction on the instance of `stream` before it was proved;
it rests on `StreamAssumption` alone.

`MarketDataProofs` rests on `MarketFeedAssumption`. Its invariant has four
parts. `FeedInv`: events wait in the channel in their order and are newer than
the last tick ingested. `RedisInv`: the buffer and the batch in flight hold
different messages, each once, and the failures still to be kept are within
the bound that numbers messages. `BarsInv`: `TickInOneBar` itself. `LinkInv`
joins them: while the ingest loop is on its way to `AddTick`, its tick is
newer than every one the aggregator has seen, so no bar has it. The refinement
theorem needs the same count as the tick writer's, and `HeldBoundedHolds` the
one from above: twice the capacity. Of the calendar it is proved for any
tables that the sessions do not overlap; that `NextOpen` and `NextClose` are
the first opening and the first close after the given time, when one of the
next ten days is a trading day, which it is if no two holidays follow each
other (`TenDaysAreEnough`; `HolidaysApart` checks the code's table); that the
market stays open until `NextClose` and closed until `NextOpen`; and where the
gateway's and the OMS's answers differ from the calendar's.

`HubProofs` rests on `WSHubAssumption`. `MapAgrees` says that a client's
channel is closed exactly when it has been in the map and is not any more:
from it `NoPanic` follows at once, although no single step shows it. `Queued`
says which messages the broadcast channel holds, and `InStep`, for one client,
that what is written, in the writer's hand, queued and still to be handed out
are consecutive numbers; for a client in the map they end with the last
message `Run` took. The refinement maps `TakeMessage` to the log's growth,
`WriteSucceeds` to a reception, and a drop or an unregistration to a cut.
`ReadsInOrder` says the same without the abstract module: what is written is
the numbers after the registration, and how far a client may be behind.
`Attended` is the safe half of `GoneIsForgotten`: in every state, whoever is
in the map has a reader that will take it out, and a pump that ended has
closed the connection on which the other waits.

`WatchdogProofs` rests on `WatchdogAssumption`. `Counted` says that every
restart Docker executed is counted or about to be, `Spaced` that every counted
failure is a check since the last reported restart, `Alerted` that after the
alert no attempt is left. The bounds on outages, faults and crashes are any
numbers.

Every safety property the passing runs check is proved. Only model-checked:
the liveness properties `LoopReturns`, `FillsDrain`, `TicksSettle`,
`SettingsArrive`, `WatchedGetsServed`, `LatestCatchesUp`, `BroadcastReturns`,
`GoneIsForgotten`, `OutageEnds` and `SlowStartEnds` (liveness and ENABLED are
beyond the prover), the calendar on the tables of the code, and the violations.

## 5. Not modelled

Prices, cash, commission, slippage, average cost and the trade journal; the
audit and publish side effects nobody reads back; code without a caller
(`ApproveOrder`, `RejectOrder`, `KillSwitch.Activate`, `CircuitBreaker`,
`Reconciler`, `PaperSimulator.CancelOrder`, sizing). Redis and Postgres are
modelled by how the code uses them: one statement is atomic, a published
message reaches those who subscribed. Of the provider, the status, trade and
bar channels and the statistics per symbol are left out, and the parsing of
messages but for what a quote and a trade become.

Of the market data process: the shutdown of the publisher and the aggregator
(the buffer is not flushed a last time, and the bars `Stop` emits find no
reader), the prices within a bar, the provider's own bars, which go to the
same streams, the backfill, the mock provider. Of the calendar: the texts. Of
the gateway: authentication, the first administrator's setup, the read-only
routes. The config service is CRUD on rows no other service subscribes to.

## 6. Plan

What is left, in this order:

1. The remaining checks of `RiskManager`, with prices.
2. The shutdown of the market data process: tick writer, publisher, aggregator
   and provider end in an order of their own.
3. `KillSwitch.Activate` and `PaperSimulator.CancelOrder` as a contract of their
   own, once something calls them; the first administrator's setup.
4. Theorems: `MarketStatus` for any tables; the invariants that the liveness
   properties of `StreamConnection` and `OrderLifecycle` rest on, as
   `NobodyIsStranded` is for the hub's.

The runs are one per question.
