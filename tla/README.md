# Verification of the tw trading platform

TLA+ models of a C++ algorithmic-trading process for CME futures
(`src/src/cpp/lib/tw`, namespace `tw`), checked with TLC on small instances;
the core is also proved with TLAPS for every instance. Paths below are relative
to `src/src/cpp/lib/tw/` unless they start with `src/`.

## 1. The system

A trading executable links the libraries under `lib/tw` and runs strategies.
Quotes arrive from a price-feed channel and go through the quote store to the
strategies; strategies create orders and hand them to `StrategyContainer`; a
chain of processors checks and books each request; a FIX channel sends it to the
exchange and brings the answers back on its own thread. Everything that happens
to an order is written down by `ChannelOrStorage`, which the next start of the
process reads. Other processes talk to it over TCP (remote commands), over the
bridge (several executables that share exchange sessions) or over the drop copy
(fills of other executables). The publisher shows the market to other programs,
and a simulator can stand in for the exchange.

```
 price feed -> QuoteStore -> strategies <-> StrategyContainer  (one lock)
                                  |  requests          ^ responses
                                  v                    |
   Messaging -> Orders -> Throttle -> WTP -> Risk -> PnL -> ChannelOrOnix -> exchange
                                  |
                                  +--> ChannelOrStorage: pipe -> database | file
   TimerServer calls strategies, processors and the bar cycle under the same lock
```

### Inventory

| component | state it keeps | operations | interacts through | what is hard | correct when |
|---|---|---|---|---|---|
| Order state machine, `channel_or/processor_orders.*`, `orders_table.h` | table of open orders, each order's state, `_cancelOnAck`, `_modCounter`, reject counters, `_bids`/`_asks`/`_pos` of the account | sendNew/Mod/Cxl, onNewAck/Rej, onModAck/Rej(+Post), onCxlAck/Rej, onFill, rebuild* | chain calls | answers cross requests on the wire; each handler changes table, counters and state in its own order | the table holds the live orders, the counters their open quantity, ended orders stay ended |
| `common_strat/strategy_container.*` | one lock, strategies, channels | sendNew/Mod/Cxl, response callbacks, checkCancelOnAck, start/stop, crash recovery, cancel at exit | lock, callbacks into strategies | callbacks re-enter; sendCxl reads state ahead of the lock; a start after a crash | a cancel a strategy asked for is sent or refused, never dropped; the next run knows every open order |
| CME channel, `channel_or_cme/channel_or_onix.*`, `translator.*` | table clOrdId -> order, session state | send*, execution reports, session state changes | FIX session thread | the id changes with each modify and cancel; the session is lost with requests under way | each answer finds its order |
| Risk, `channel_or/processor_risk.*`, `risk/` | limits | sendNew check | reads the counters | checks counters that lag the exchange | what may trade at the exchange stays within the limit |
| Throttle, WTP, Messaging | per-second counters, working prices | chain calls, a timer of 1 s | chain, timer | counters reset by another thread | refusals only above the limits |
| Profit and loss, `channel_or/processor_pnl.*`, `common_trade/pnl*.h` | average price, realised and unrealised profit, totals, high-water marks | onFill, onQuote, sendNew, rebuildPos | observers: instrument -> strategy -> account | reversals, totals kept by difference | nothing is made or lost but by fills and prices; past a limit only orders toward the close |
| Order storage, `channel_or/channel_or_storage.*` | two pipes, a cache, a database, a file, two threads, flags | init (restore), persist, stop, two thread mains | shared pipes, flags without a lock | takeover from database to file under load; crash; join that times out; a full pipe | nothing accepted is lost or stored twice, order kept, everything stored in the end |
| Pipes and locks, `common_thread/` | deque, done flag | push, read, clear, stop | mutex and condition | wake-ups, stop | FIFO, no lost wake-up |
| Timer server, `common/timer_server.*` | table of clients, thread | registerClient, start, stop | callbacks under the container's lock | copy of the table goes stale; two locks; unsigned ages | called when due, not after cancel or stop; stop returns |
| Identifier factories, `channel_or_cme/id_factory.*`, `channel_or/uuid_factory.*` | last id, queue of prefetched ids, thread | start, get, stop | queue | refill thread, restart | ids are unique |
| Session storage, `channel_or_cme/channel_or_onix_storage.*` | sequence numbers | persist, recover | storage | crash between send and persist | no report is lost over a restart |
| Bridge, `channel_or_cme_bridge/` | sessions, routes, ids of client and exchange for each order | requests, replies, session up/down, cancels for a client that is gone | FIX sessions on both sides | replies after a client left; a session lost with requests under way | a reply goes to the session that owns the order; nothing of a gone client stays live |
| Drop copy, `channel_or_drop_cme/` | session | external fills | StrategyContainer | duplicates of own fills | position counts each fill once |
| Exchange simulator, `exchange_sim/` | price levels of simulated and real orders, map of orders | sendNew/Mod/Cxl, onQuote, the certification market maker | listener callbacks | queue position, IOC, levels that shrink, crossed quotes | price-time priority, no fill beyond the quantity, reports that add up |
| TCP bus, `common_comm/` | connections by descriptor, send queues, threads | accept, send, stop, up/down/data callbacks | callbacks | threads start before the connection is registered; descriptors are used again | data goes to the connection it is meant for; a lost peer is noticed; stop returns |
| Price feed, `channel_pf*/` | subscriptions, pending updates of a message | book, trade, statistics, status, message end | quote store | coalescing, two feeds | each trade told once, the book is the exchange's |
| Quotes, `price/` | a quote per instrument with flags, changed quotes, a thread | onQuote, subscribe | callbacks, a pipe of wake-ups | a quote replaced before it is shown; a wake-up between unlock and push | nothing waits without a wake-up |
| Publisher, `src/src/cpp/mains/channel_pf_simple_publisher/` | subscriptions of connections, a recording | subscribe, onQuote, record, replay | TCP bus | filters on top of the store's | a connection sees the market clients see |
| Bars, `common_trade/bars_manager.h`, `bars_storage.*` | bars, patterns of three levels, pipe, cache | onQuote, onTimeout, restore, persist | timers, quotes, a storage thread | patterns looked at again and again over the open bar; restored bars; failed writes | a bar is its trades; patterns partition the bars; nothing handed over is lost |
| Signals and stops, `common_trade/*Processor.h` | marks of what was signalled, stops, trackers | isSignalTriggered, monitor, stop slides, timers of the stop cycle | bars, quotes | Buy and Sell written out twice; marks reset on some paths only | no signal twice, sides mirror each other, a stop never loosens |
| Transition strategy, `src/src/cpp/mains/transition/` | parameters, one position | callbacks of the container | all of the above | - | - |
| Instruments, settings, database, logging, pools, utilities | tables read at start | lookups | - | - | - |
| Loaders and audits, `src/src/cpp/mains/` | - | batch programs | - | - | - |

`PROJECT.json` lists the components with the status of each, and 40 hazards: the
lines where a test would hardly reach what can go wrong.

## 2. Plan

Done, in this order:

1. `ProcessorOrders`, `OrderFlow`: an order from the strategy to the exchange and
   back.
2. `OrderStorage`: the two writers, the takeover, crash and restore.
3. `TimerServer`: the two locks and the copy of the table.
4. `Recovery`: the end of the process and the next start, composing `OrderFlow`
   with a storage that lags behind.
5. `OrderLedger` and `OrderFlowLedger`: an account as an abstract ledger, and the
   refinement mapping under which the order path implements it.
6. `ExchangeSim`: the matcher against price-time priority and its own reports.
7. `MessageBus`: connections, threads, descriptors and stop().
8. `Bridge`: the owner of each order across session loss.
9. `QuoteStore`, `Publisher`, `PriceFeed`: the market from the exchange's messages
   to strategies and connections.
10. `BarPatterns`, `Bars`; `BarSignals`, `BreakoutSignals`, `TransitionSignal`,
    `Signals`; `Stops`, `Pnl`, `Positions`: what strategies decide by.

11. The proofs of section 5: one order (`OrderBooksProofs`, `OrderTraceProofs`), what
    it is owed (`OrderSettleProofs`), the account and the refinement to the ledger
    (`OrderAccountProofs`), the timer server, the order storage, the message bus, the
    price feed.

Next, all of it proof: the sums of `TradesTold`; the claims of the order flow after a
bust; `Bridge` and `Recovery`.

## 3. The modules

| module | models | state | actions |
|---|---|---|---|
| `ProcessorOrders` | the handlers of `processor_orders.cpp` as functions from order to order, and the definitions of `src/src/xml/channel_or_defs.xml` | - | - |
| `OrderFlow` | container, chain, channel, FIX session and exchange for one account and one instrument | `ord` (orders), `bids`, `asks`, `pos` (the account's counters), `chan`, `nextId`, `origId` (the channel's ids), `req`, `resp`, `picked` (the wire and the session thread), `ex` (the exchange), `up` (the session), `cxlWait` (a thread between the first line of sendCxl and the lock) | `SendNew`, `SendMod`, `SendCxl`, `ReadCxlState`/`SendCxlUnlocked`; `Receive` and one `On...` per response; `Ex...` for the exchange; `SessionDown`, `LoseRequest`, `SessionUp` |
| `OrderLedger` | what the order path promises an account | stage and traded quantity of each order, open quantity per side, position | open, trade, close |
| `OrderFlowLedger` | the refinement mapping from `OrderFlow` | - | - |
| `Recovery` | `OrderFlow` with a process that ends and starts | `phase`, the stored rows `db`, `dbPos`, the queue of the storage, what is left to sweep; history of what a crash tore | crash, exit, failed start, start with doCrashRecovery and rebuildOrder, sweeps of stop(), writes of the storage |
| `OrderStorage` | `ChannelOrStorage` | both pipes, cache, database, file, flags, the program counters of the callers, of both threads and of init/stop | one per pipe operation, transaction or flag change that other threads can see |
| `TimerServer` | `TimerServer` and the container's lock as its clients use it | clock, table, handlers, the thread's copy, both locks | registration, the steps of a pass, start, stop, the join |
| `ExchangeSim` | `Matcher`, `MatcherManagerCME`, the certification market maker | `mx` (books, map, orders), the reports each client got, request counters | `ClientNew`, `ClientMod`, `ClientCxl`, `Quote`, onTimeout of the market maker |
| `MessageBus` | `TcpIpServer`, `TcpIpServerConnection` | connections, the server's map, the kernel's descriptors, queues, the program counter of every thread | steps of accept, receive, send and connection threads, replies from the client's callback, of the owner, of peers and of the kernel |
| `Bridge` | `RouteManagerCME`, `RouteClientCME`, `CmeRoute` | orders' two ids, tables of the routes, queues between client, bridge and exchange, what client and exchange know, the cancels still to send for a client that is gone | sendNew/Mod/Cxl, application and session messages, route down and up, client gone (then route by route, cancel by cancel) and back |
| `QuoteStore`, `Publisher` | a quote with its flags, the publisher's filters: functions | - | - |
| `PriceFeed` | `Channel`, `ChannelPfOnix`, `ChannelPfHistorical`, `QuoteStoreManager`, the publisher | subscriptions, quotes, what a message has changed, the map of changed quotes, pipe and reader, what clients and connections saw | subscribe, start, stop, one callback of the feed per kind, the manager's steps, the publisher's |
| `BarPatterns` | `updateTrade`, ATR, simple patterns, swings, trends: functions | - | - |
| `Bars` | `BarsManager`, `BarsStorage` | bars, patterns, those shown over the open bar, pipe, cache, database, where the writer is; history: the trades of each bar, the bar a restore ended at, what was handed over | subscribe, start, onQuote, onTimeout, persistToDb, sleepSecond, flushEverySecond, stop |
| `BarSignals`, `BreakoutSignals`, `TransitionSignal` | the signal processors: soldier, wick, cram, Keltner band, piercing, hook, ATR pricing, activity; opening range and range breakouts, continuation; transition | - | - |
| `Signals` | one of them in a market, beside a twin in the market upside down | bars, patterns, the processor's fields, the twin's, the log of signals | quote, follow-up by the owner, end of the bar |
| `Stops`, `Pnl` | stop processors, trackers and the stop cycle; profit, loss and the limits: functions | - | - |
| `Positions` | a position from entry to exit | bars, position with its stop, the processor's fields, trigger, clock of the cycle, orders, ledger; history: the cash of the fills, the trades that met the stop | quote, enter, leave, other orders, fill, end of the bar, tick, the two timers (early or late) |
| `MC...` | instances for TLC | - | - |
| `OrderBooksProofs`, `OrderTraceProofs` | proofs about `OrderFlow`: types and quantities of one order; ids and fills on top of them | - | - |
| `OrderSettleProofs`, `OrderAccountProofs` | both on top of `OrderTraceProofs`: what an order is owed; the sums of an account, with lemmas about sums over finite sets | - | - |
| `TimerServerProofs`, `OrderStorageProofs`, `MessageBusProofs`, `PriceFeedProofs` | proofs about these components | - | - |

How the code maps to steps:

- Every entry point of `StrategyContainer` holds its lock from the first to the
  last line (but one, see `ReadCxlState`), so an entry point is one step: the
  whole chain, the channel's table, the send and the client's callback included.
  A strategy's callback may cancel (`OnNewAckReentrant`). Bars, signals, stops and
  profit run under the same lock.
- A refusal by Throttle, WTP or PnL, and an exception of the FIX engine while
  sending, are the outcomes `Refuse` and `Throw` of a request; the path of each
  through the handlers is kept, since the order and the counters are treated
  differently in each case.
- The session thread looks the order up under the channel's lock and enters the
  container after that: two steps, `Receive` and `On...`.
- The exchange is external. It is modelled by the answers that `ChannelOrOnix` and
  the bridge handle: it processes requests of one order in order, may reject any
  of them, may fill, expire or bust whenever that makes sense.
- Requests and responses of different orders are not ordered with respect to one
  another, which covers one FIX session and several.
- In `OrderStorage` an operation of a pipe is one step because it holds the
  pipe's mutex, a transaction because it holds `_dbLock`; flags that are read and
  written without a lock are read and written in steps of their own. The same
  holds in `MessageBus`, where a send, a receive and a lookup under the map's lock
  are steps, and in `PriceFeed`, where onQuote unlocks before it pushes.
- `Recovery` takes from `OrderStorage` that items are written in the order of
  persist() and that a crash loses the last of them, and from the FIX session that
  the exchange resends the reports whose sequence numbers are not stored.
- `TimerServer` keeps the age of a client as the code does, as an unsigned
  difference: a negative one is larger than any timeout. The table and the copy a
  pass works on are sets of clients with the ids they were given; a pass takes them
  in the order of ids, as the iteration of the `std::map` does, and stop() starts the
  ids again.
- Prices are whole ticks with one invalid value `Inv`; ratios and the values of
  Keltner band and ATR are pairs of integers compared by cross-multiplication,
  money is whole numbers of 1/`Unit` ticks. A read through a reference that may
  dangle (`bars_manager.h`, the level 1 patterns) gives any value of `Junk`.
- The timers of the stop cycle are one-shot and re-armed from the clock at the call:
  `CycleTimer` may come any time after it is due, and before it directly after it was
  registered, since the timer server may call a new client at once (`timer_server.cpp:13`).
- Several processors and settings share a module and a run: a behaviour begins by
  picking one of `Configs`, and stays with it.

## 4. The runs

| run | instance | distinct states |
|---|---|---|
| `order` | one buy of 2, three ids, one session loss, one bust, fair | 389,000 |
| `account` | a buy and a sell at `MaxPos` 1, cancels with and without the lock and from callbacks | 601,000 |
| `storage` | 3 items, 1 failure of the database that may last, joins that time out, 2 ends of the process (stop or crash), fair | 271,000 |
| `timer` | 3 clients, 1 thread that registers, stop at any time, fair | 145,000 |
| `recovery` | one order, two ids, one end of the process at any point, a queue of 3, two sweeps | 1,526,000 |
| `sim` | two orders of clients and two of the market maker, 2 requests, 2 quotes | 227,000 |
| `bus` | 2 connections on 1 descriptor, a queue of 1, 2 events of peers and owner, fair | 591,000 |
| `bridge` | 2 clients, an order each or one changed twice, 1 or 2 routes, 1 lost session, 1 reject | 2,435,000 |
| `feed` | 2 instruments of one channel, both feeds, with and without thread, coalescing and publisher; 2 to 4 calls | 821,000 |
| `bars` | 2 to 4 bars of up to 3 trades, hitches counted or not, restored or not, stored or not | 204,000 |
| `signals` | ten processors in 16 markets of restored and live bars | 1,205,000 |
| `positions` | eleven stop processors and trackers, the cycle, and two strategies at the loss limits | 817,000 |

A property that joins several is a conjunction of definitions that can be read on
their own; the parts are named here.

`order`. `BookedExact`: the order's share of the counters is its open quantity,
while it lives and after. `RequestsSettle` joins `AnswerOwed` (no order is Pending
or Cancelling unless an answer is on the way), `DelayedUntilAck` (a delayed cancel
always has an ack to wait for), `ModsSettle` (unless a cancel overtook a modify,
the modify counter is exact and a working order has the exchange's price),
`NeverUntracked` (an answer finds its order under its own or its original id) and
`LateOnlyIfCrossed` (a bust is booked to an ended order only when a cancel overtook
a modify). `AckServesDelayed`: the flag comes down only in a step that sends the
cancel or sees it refused. `CancelsServed` (`CancelOnAckServed`, `CancelSettles`):
under fairness a delayed cancel is taken up and no order stays Cancelling, a
session loss included.

`account`. `AccountKept` joins `CountersOpen` and `PosExact` (the shared counters
are the sum of the open quantities, the position is what was traded and reported)
with `CountersWithinMaxPos` and `ExposureWithinMaxPos` (the limit holds on the
counters and at the exchange, even if everything on one side trades and nothing on
the other does). `TableHoldsLive`, `TerminalStable`, `FlowSound` (the inductive
invariant of the proofs) hold also when cancels race. `ImplementsLedger`: under the
mapping of `OrderFlowLedger` (an order is open while it is in the table, the
ledger's numbers are `_bids`, `_asks` and `_pos`) every step of the order path is
one of the ledger or none: an order opens once within the limit, each trade moves
quantity from open to position, a close gives back what is left, once.

`storage`. `NothingLost`: what persist() accepted is in memory or on disk until a
crash, and on disk after stop(). `StoredRight`: stored once (`OnceOnly`) and in the
order of persist() (`StoredInOrder`), as long as no item found the pipe full (it is
put on the file's pipe ahead of those it passes), no database thread was left
behind and stop() was not called: after a failure flushDbCache turns the cache around,
and the code does store in another order. `Durable`: everything accepted reaches the
disk although the database may never come back (`Stored`), and the file is put away only
when the database has all of it (`FileKept`). Crashes happen anywhere, in the middle of a restore too. A
restore that throws ends in stop(), called by the destructor, which flushes what was
read or appends it to the file again (`RestoreFails`). A database call that hangs is
taken to return in the end: until then it holds the lock that the takeover needs. Left
out are items kept in history variables: `strays`, pushed to the database's pipe
after its thread was told to end, `caught`, in the hands of a takeover while stop()
runs flushDbCache, which takes no lock (`channel_or_storage.cpp:1333`), and
`forgone`; and, of `OnceOnly`, the records of a file whose restore was cut short,
which the code stores again (`:445-451`).

`timer`. `CallsEnd`: a client that asked for one call or returned false is not
called from a stale copy (`NotAfterCancel`), none after stop() returned
(`NotAfterStop`). `TableSound`: the erase at the end of a pass takes no other client
away (`Kept`), and no two clients of the table have one id (`IdsUnique`). `ClientsServed`: every client is called, every cancelled one erased,
unless the server is stopped (`Served`, `Erased`).

`recovery`. `RecoveredExact`: whatever was in flight when the process ended, the
next run has every order that is open at the exchange, finds it for every report
still to come and ends with the exchange's quantities. `AccountRebuilt`: counters
and position are the exchange's again. `LeftOnlyIfRefused`: what stop() leaves open
it could not cancel. Left out, each kept as a set: `torn`, orders of which the crash
lost a request that was on the wire before it was persisted, or half of a report
(`strategy_container.cpp:643`), and `misfiled`, rebuilt under too few ids. The database
does not fail here; what a failure makes of the storage is the question of `storage`.

`sim`. `MatcherExact`: books, map and orders agree (`BooksKept`), and a client can
rebuild its order from its reports (`ReportsExact`): the fills add up, the order ended
if and only if the reports say so, and they say it once, but for an IOC order that is
cancelled after the fill that completed it. `FirstInQueue`: when a resting
order trades, nobody ahead of it still rests at its price. `QuoteShown`: after a
quote each level offers what the quote shows.

`bus`. `MapValid`: a descriptor in the map belongs to the connection the map gives
for it, although the kernel hands descriptors out again at once. `Reaped`: a peer
that goes away is noticed and its connection closed. `StopReturns`: every thread
stop() joins ends, also the receive thread of a client that replies. Both except one
state, `ReplyStopsStop`, in which the code deadlocks: clear() has taken `_lock` and
joins a receive thread that called the client before and waits for `_lock` in
sendToConnection.

`bridge`. `TablesAgree`: when nothing is on its way, client and exchange agree on
what is live and under which id (`Agree`), and a route remembers exactly its live
orders (`RoutesExact`). `GoneCancelled`: a client that is gone has no live order on
a route that was up, although its orders are listed first and cancelled one by one, each
under the lock taken again, with answers coming in between. Two sets of orders are
excepted: `misread`, with a change rejected at session level, which the bridge reports as
a reject of the new order, and
`unknown`, whose last cancel had no OrderID because they were not acknowledged when it
was made; an exchange that looks orders up by OrderID rejects it.

`feed`. `TradesTold`: what clients were told, what waits for the end of a message
and what is on its way add up to the volume traded. `BookShown`: the book shown is
the exchange's, and the flags name every change. `NoLostWakeup`: nothing is left in
the map of changed quotes without a token. `PublishedCurrent`: a connection of the
publisher sees the top of the book that clients see.

`bars`. `BarsAndPatterns`: a bar is what its trades make it (`BarsExact`), simple
patterns cut the bars into consecutive pieces (`SimplePartition`), trends alternate
and list their swings (`TrendsChain`). `ShownPartition`: what is shown while a bar is
open cuts all bars with trades, the open one included, and still does when it has ended.
All are claimed with and without a restore; where a restore breaks them they name what
is left: a bar from the database has volumes by price of the live quotes only, since the
database does not keep them (`pricedTrades`); the last restored bar (`seam`) is looked at
twice when it came from a file and was still open, and not for its live trades when it
came from the database; the list shown after the first live quote has only the open bar.
`SavedLatest`: until the storage stops, rows, cache and pipe hold the latest version of
everything handed over; an item that finds the pipe full is dropped by the code and not
counted as handed over.

`signals`. `MirrorSymmetric`: in a market upside down every processor gives the
opposite answer. `NotTwice`: a processor that marks what it signalled does not
signal it again. `AnswersSound`: stop, limit and range prices are on the right
sides (`SignalSound`), the breaks of the Keltner band alternate
(`KeltnerAlternates`).

`positions`. `TrackersExact`: the stop is triggered by trades that justify it
(`TriggeredExact`), the cycle's timers, early or late, are re-armed on their bounds, in
the future and less than a cycle away (`CyclesAligned`), the tracker loses no volume
(`VolumeKept`). `PnLExact`: realised and unrealised profit
are what the fills paid and the position is worth, and the totals their sums.
`RiskComesDown`: a stop never loosens and is never lost (`StopNeverLoosens`; a Sell
filled in a bar without trades does lose it, and is excepted), and with a limit
exceeded only orders toward the close are let through (`TowardClose`).

Each property is broken by a variant of the code named
`<definition>_<what is wrong>` next to the definition it replaces (`PROJECT.json`,
"mutants").

### Where the code and its documentation disagree

Met while modelling; the model does what the code does, and the properties are
stated so that they hold beside it.

- doOnModPost (`processor_orders.cpp:392`) returns before it decrements
  `_modCounter` when a cancel was sent meanwhile; `channel_or_defs.xml:245`:
  "counter of modify requests without acks" (`ModsSettle` leaves the case out).
- A strategy that cancels in onNewAck an order whose cancel was delayed
  (`strategy_container.h:343`): the flag is lowered, the channel keeps the
  strategy's cancel back, checkCancelOnAck returns because the order is Cancelling;
  no cancel is sent. `Reentrant = TRUE` in `MCOrderFlow_order.cfg` shows it as a
  violation of `AckServesDelayed`.
- An order without a valid price is refused before it is added, and its quantity
  subtracted all the same (`processor_orders.cpp:529`): `_bids` is too low from then
  on. A book with `InvalidPrice` breaks `CountersOpen`.
- persist() tests `_isDoneDb` and pushes without a lock while the takeover copies
  the pipe and clears it in two steps (`channel_or_storage.cpp:1472`; the comment at
  `:1469` says all is transferred): an item in between is a stray.
- With more than max_batch_cache_size items in the cache the database thread reads
  the same item for ever, though the database is back (`:1440`): `MaxBatchSize` at
  or below the number of items breaks `Stored`.
- A timer client registered between the pass's time stamp and its copy of the table
  is called at once (`timer_server.cpp:13`), and stop() called under the
  container's lock joins the thread that needs it (`:104`); the users of the code
  call it without.
- The time-out of a fulcrum shall "require waiting for a new tBar"
  (`transitionSignalProcessor.h:92`); the caller ignores the result (`:834`) and goes
  on with the other readings in the same call, on the cleared fields.
- A connection's loss can be notified twice (`tcp_ip_server_connection.cpp:342`; the
  comment at `:340` excludes it).
- A thread outside the lock can leave `_cancelOnAck` up without an ack to come
  (`strategy_container.cpp:702`; `DelayedUntilAck` is checked for callers that hold
  the lock). After a cancel overtook a modify, a bust of an ended order adds to
  `_bids` for good (`processor_orders.cpp:566`; `CountersOpen` is checked without
  busts).
- Two loops of the bridge end where they begin (`route_manager_cme.cpp:125`,
  `:291`). A request lost with a route's session is not sent again and nobody tells
  the client (`cme_route.cpp:552`).
- clear() of the server holds `_lock` while it destroys the connections, which joins
  their receive threads (`tcp_ip_server.cpp:22-28`); a client that replies from
  onConnectionData waits for that lock (`:144`). The clients of the repository do reply
  there (`strategy_container.cpp:1173-1176`, `publisher.cpp:346`, `channel_or_onix.cpp:345`).
- The bridge cancels an order that is not acknowledged with an empty OrderID
  (`channel_or_cme_bridge/translator.cpp:147`, set at `:251`), where `ChannelOrOnix` keeps
  such a cancel back for the ack (`channel_or_onix.cpp:294`); the repository's simulator
  rejects it (`matcher_manager_cme.cpp:598-617`).
- An IOC order filled completely is reported as filled and then as cancelled
  (`matcher.cpp:278`).
- calcStop takes the invalid high of a bar without trades for a Sell's new stop
  (`cramSignalProcessor.h:71-85`).
- Restored bars: the last one is processed twice if it was open and came from a file
  (`bars_manager.h:747`, `:789`), or keeps taking trades although its patterns are done
  if it came from the database (`:787`); the first list of an open bar after a restore
  starts empty (`:238-240`); the database keeps no volumes by price
  (`src/src/xml/bars.xml:99`).
- The publisher closes its recording before its thread ends (`publisher.cpp:98`).
- levelUpdateBits shifts by one bit per level where each level has four
  (`quote.h:808`).

### Bounds

- Two orders: the handlers of different orders meet only in the three counters,
  and a buy and a sell reach each of them; at `MaxPos` 1 the buy of 2 passes the
  check only after the sell has traded.
- `MaxIds` 3 for one order: new, modify and cancel, two modifies or two cancels,
  hence every crossing of two requests; a quantity of 2 gives partial fills.
- `MAX_MOD_COUNTER`, `MAX_MOD_REJ_COUNTER`, `MAX_CXL_REJ_COUNTER` of 0 to 2
  instead of the code's larger values, so that the limits are met.
- One session loss and one bust: a second loss finds the same states again, since
  nothing but the requests under way is lost; a second bust would only repeat the
  first one's effect on the counters.
- `storage`: 3 items with batches of 2 and pipes of 1 and 3 give a full batch, a
  started one, a full pipe and an item behind it; one database failure, permanent or
  not; two ends of the process, so that a restore can itself be cut short.
- `timer`: 3 clients with periods of 1 and 2 and a clock of 3 ticks: a single call,
  a repeated one and one that registers during a pass.
- `recovery`: a queue of 3 puts the storage behind by an order, its fill and a
  sequence number; one end, since the state a start leaves is one the run before it
  could have reached.
- `sim`: two orders a side and two quotes let every order be ahead of another, be
  passed, shrink and trade; the orders of one client are interchangeable (symmetry).
- `bus`: two connections that share one descriptor are what it takes to mistake one
  for the other; a queue of 1 overflows.
- `bridge`: two clients on one route and on two; one order with two changes crosses
  its own answers.
- `feed`: 2 to 4 calls per setting: a change, one that replaces it before it is
  shown, and one after it.
- `bars`, `signals`, `positions`: as many bars, trades and quotes as the patterns and
  processors look back over, at prices on both sides of each threshold of their
  parameters.

Deadlock is not checked: orders come to an end, the bounds are met, the process
stops. `AnswerOwed`, `CancelSettles`, `Stored`, `Served`, `Reaped` and `StopReturns`
say what may not hang.

### Fairness

`OrderFlow`: weak fairness of the session thread, of a thread that waits for the
lock, of the exchange's answer to a request, and of the session scheduler that
brings a session up again; none of a fill, an expiry, or a strategy. The lock is
a mutex held for one step, so a waiting thread gets it. `OrderStorage`: weak
fairness of both threads, of a caller inside persist() and of the steps of stop()
once it is called; the database need not come back. `TimerServer`: weak fairness of
the thread, the clock, start, the join and a thread that is about to register.
`MessageBus`: weak fairness of every thread of the process, each of which loops
with a time-out; none of peers or of the owner's calls. The other modules claim
safety only.

## 5. The proofs

Every theorem holds for all values of the constants that satisfy the assumptions
named here, which the runs evaluate: `FlowAssumption`, `OrdersFinite` and the
assumptions of `ProcessorOrders` (the book gives each of finitely many orders a side,
a natural quantity and a price or none; limits and bounds are naturals),
`TimerAssumption`, `HoldersAssumption`, `StorageAssumption` and `BusAssumption` (sizes
and bounds are naturals, batches and descriptors at least one), `QuoteAssumption` and
`FeedAssumption` (the book has a level; instruments are finitely many, each of a
channel; the feed's calls name one, with integers for prices and naturals for sizes).
No value of the runs is used: the bounds that occur in guards are arbitrary. Where a
theorem needs more, its statement says so and the text below says why.

### One order

- `TypeCorrect`: `Spec => []TypeOK`. Each handler maps orders to orders
  (`InboundType`, `OutboundType`, `FillType`), each action keeps the type of the
  wire and of the counters. `PickedThere` (a response that was looked up is still
  at the head of its queue) is needed beside it: the `On...` actions take the head.
- `FlowCorrect`: `Spec => []FlowSound`. `FlowSound` relates one order to what is in
  flight for it; it is inductive together with `TypeOK` and `PickedThere`
  (`FlowInv`). `Sound` is about quantities, in four parts: `BooksSound` (table, state
  and counters agree), `NewSound` (nothing but the new is in flight before the
  exchange knows the order), `EndSound` (what is open at the exchange is in the
  table; a response that takes quantity off finds the order there, and none follows
  the one that ends it), `CumSound` (the fills on the way add up to no more than the
  exchange has traded, so only the last one completes the order). The last two are
  why `BookedExact` is not inductive as it stands: onFill subtracts what the report
  says, and only the sums over the queue tell that the order is still there to
  subtract it from. Most handlers are *quiet*, they touch nothing `Sound` speaks of
  (`QuietHandlers`, `SoundQuiet`), which leaves the new, its answers, fills and the
  cancel ack to be argued one by one. `Traced` is about identity: ids rise along the
  wire (`IdsRise`), the exchange only answers under ids it was sent (`IdsKnown`), the
  channel's table still holds the id, or the original one, of every response
  (`IdsHeld`), and the fills in the queue are a chain from what the order has booked
  to what the exchange has traded (`FillsChain`).
- From it: `BooksExact` (`BookedExact`), `TableExact` (`TableHoldsLive`), the action
  properties `EndedStayEnded` and `EndedForGood` (`TerminalStable`), and
  `ResponsesTracked` (`NeverUntracked`: no response is dropped for want of its order),
  for any number of orders, also with re-entrant and unlocked cancels.

### What an order is owed

`RequestsAnswered` (`RequestsSettle`) and `KeptCancelsSent` (`AckServesDelayed`), from
`SettleInv`. `Settled` relates an order's state to the messages in flight for it:

- `Owed`: a Pending order has its new on the wire or the answer to it in the queue,
  unless the new was lost with the session; a Cancelling one its cancel, the answer to
  it, or the fill that ends the order. The last case is what the exchange makes of a
  cancel that comes too late: it is answered by nothing but the fill ahead of it.
- `LastFill`: only the report that completes an order is a Fill and not a PartFill,
  so that a Fill found in the queue does end it. This needs `CumSound`.
- `Followed`: unless a request was lost or a cancel overtook a modify, `_modCounter`
  counts the modifies on the wire and their answers, the order is Modifying exactly
  while there are any (`ModsExact`), and its price is that of the last ack in the queue
  or, with none, the exchange's (`PriceChain`).
- `Delayed`: an order that has not ended keeps a cancel back only while it is Pending;
  with `Owed` there is an ack to wait for.

Every action is argued for the order it is about, on its queue with a message added
at one end or taken from the other; other orders keep what they have.
The theorems assume three things. Without `~Reentrant` and `~Unlocked` they are false,
as "Where the code and its documentation disagree" shows: a strategy that cancels in
onNewAck, and a thread that reads the state ahead of the lock, do leave
`_cancelOnAck` up. `MAX_MOD_COUNTER # 0` excludes a risk limit of no modify at all,
where each modify is refused with the order left Modifying; the code's constant is 5
(`channel_or/processor_orders.cpp:11`).

### The account

`AccountExact`: the counters are the sums of the orders' open quantities, the position
is what was traded and reported, and the limit that `ProcessorRisk::sendNew` tests
once holds ever after, on the counters and at the exchange (`AccountKept`). Every step
moves at most one order, and the counters by the share of that order (`StepMoves`,
`Moved`); the lemmas about sums (`SumUpdate` and others) tell what that does to a sum. The limit at the exchange needs
`FillsChain`: what the exchange has traded and the process has not booked is in the
queue. `LedgerImplemented`: the initial states map to the ledger's, and every kind of
move is an action of `OrderLedger` or a stutter (`MovedLedger`). Both assume
`AllPriced`: an order without a valid price is refused before it is counted, and the
refusal takes its quantity off the counters all the same (see "Where the code and its
documentation disagree"), so the claims are false without it.

All of these hold until a trade is busted (`breaks = 0`): a bust gives quantity
back to an order, and after it the claims are checked by TLC for one bust in `order`
only.

### The timer server

`TableCorrect` (`TableSound`) and `CallsStop` (`CallsEnd`), from `TimerInv`: the
container's lock tells where each thread is (`LocksSound`), what a pass works on has
registered (`CopiesSound`), ids are drawn once between two calls of stop()
(`IdsSound`), a client that must not be called again is cancelled, and until stop()
clears the table it holds every client that is not (`CancelsSound`). `CancelsSound` is
what makes the stale copy harmless: the handler, not the copy, carries the flag.

### The order storage

`NothingIsLost` (`NothingLost`), `RestartLosesNothing` and `FilePutAway` (`FileKept`),
from `StorageInv`. `NothingLost` alone says nothing of an item that is in the hands of
a thread, so the invariant follows it: the item the database thread works on is still
first on its pipe unless the pipe was taken over (`DbSound`), what the takeover has not
copied is on the database's pipe or cache (`FileSound`), what init() has read of the
file is in the cache or the database (`RestoreSound`), and stop() finds everything
settled, or no takeover started, or one that is over (`StopSound`). The history sets
`strays`, `caught` and `forgone` stand for the losses the code does have.

`StoredOnceInOrder` (`StoredRight`), from `OnceInv` and `OrderInv` on top of it. All
items that are stored or wait for it stand in one line (`Line`): database, cache, the
database's pipe, the file, the file's pipe, each without an item that is already
further ahead. A thread moves an item from one part to the next, the takeover moves
whole parts, init() moves the file's through the cache, and the line stays as it is;
persist() adds a number larger than any accepted one. So no item is in it twice
(`OnceInv`), and in the first run, without a detour, it rises (`OrderInv`). stop() is
different: flushDbCache turns the cache around and, when a takeover runs at the same
time, copies what that copies. There one of three things holds: no takeover has
started and the line without the file is still one (`Before`); all that is not on disk
yet is `caught` (`During`); or the file thread has everything (`After`).
The theorem assumes `OneCaller`, as the run does: StrategyContainer, the only one to
call persist() in the trading process, does so with its lock held. With two callers the
numbers would not tell in which order they push. It does not cover a database thread
that was left behind by a join.

### The message bus

`MapAlwaysValid` (`MapValid`) and `ClosesOwn` (no thread closes a descriptor that the
kernel has already given to another connection), from `BusInv`. A connection is in the
hands of one thread at a time: in the map, about to be put there by the accept thread,
being dropped, or left to clear() (`OneHolder`). Hence at most one thread closes it,
and between close() and the assignment of -1 to the socket, when its number may belong
to another connection, it is out of the map (`SocketsSound`).

### The price feed

Three theorems, each on top of the one before. All hold for any number of
instruments, channels and connections, for the three feeds, with and without a thread
of the manager, and with the threads of all channels interleaved.

- `WakeUpsKept` (`NoLostWakeup`), from `WakeInv`. Whoever put a quote into
  `_changedQuotes` has a token for it: in the pipe, still to be pushed, or taken by the
  thread, which has not looked into the map yet (`TokenForChanged`). clear() of the
  pipe is harmless because the thread then takes the map; it would not be the other way
  round. The number in the local store is that of the entry in the map, of the one
  taken, or of the main store (`NumbersMeet`).
- `MarketShown` (`BookShown`), from `PassInv`. `FeedSound` is about the feed: what a
  channel's thread is about to pass on shows the quote as it is, each instrument once,
  and a quote with flags left belongs to a message that has not ended (`PendingKnown`).
  A callback either leaves an instrument alone or makes its quote grow (`Grows`): every
  field that changes is flagged, flags that were there stay. From there an instrument
  is followed to the clients (`PassedAt`): the quote has the exchange's book (`BookAt`);
  when the thread will have worked through what it took and what is in the map, that
  book is shown or a bare status covers it (`ShownAt`); the numbers rise, so a gap of 0
  means that nothing was replaced (`NumbersAt`); and then each quote on the way flags
  all that changed since the one before it (`FollowAt`), which is what a client that
  copies the flagged fields relies on.
- `PublishedSame` (`PublishedCurrent`), from `SentInv`. What a connection was sent last
  has the top of the book the clients saw last, or the top is about to be passed on
  (`SentAt`, `LevelWaits`). The second case is real: without the manager's thread a
  connection that subscribes is served from the store the feed is working on, ahead of
  the clients. With it the main store is served, which has what clients saw unless a
  quote was replaced (`StoreAt`). A quote the publisher refuses leaves the last message
  as it was, which is right only because such a quote flags no change of the top or is
  recorded as refused, and a quote without that flag has the top of the one before it
  (`TopFollows`).

### What is only model-checked

`Stored` of the storage; `TradesTold` of the price feed; all claims of
`Recovery`, `ExchangeSim`, `Bridge`, `Bars`, `Signals` and `Positions`; the claims of the
order flow after a bust; every liveness property, since neither fairness nor ENABLED
is in the prover's reach. Induction over data is possible only in the form of a least
counterexample (`WFMin` over the subsets of a finite set or over the naturals), which
the lemmas about sums use; what folds and recursive functions over sequences compute
(patterns, matching, profit) stays with TLC.

## 6. Not modelled

- Fields, formats and parsing of FIX messages, commands and settings, SQL text,
  logging: a message is its type, ids, price and quantities.
- Price feed decoding and the vendor's libraries (FIX engine, market data).
- Identifier factories: ids are counters of the models, unique by construction; the
  code takes them from the time of day.
- The drop-copy channel, whose only call, recordExternalFill, adds to the position.
- The Transition strategy beyond its signals and stops: `OrderFlow` lets a strategy
  do anything the interface allows. Its own slides of the stop and the payup at a
  triggered stop (`TransitionImpl.h:936-988`) are not reached: its exit orders get
  their side from calcStopPrice (`:593`, "currently not utilized") only, and the risk
  check refuses an order without one (`processor_risk.cpp:112`). Signal processors no strategy of the repository
  uses.
- The counters of throttle and the wash-trade lookup: each is a possible refusal.
- Instruments, settings, pools and utilities: lookups after start. Loaders and
  audits: batch programs.
- Within `OrderFlow`: several accounts and instruments (the counters are kept per
  pair and handlers of different pairs share nothing), strategy-level counters,
  external fills, a strategy that modifies again from its onModAck callback
  (`strategy_container.cpp:1003-1008`).
- Within `OrderStorage`: stop() with a database thread left behind: both then use
  the cache without a lock, and its content is undefined; the wait of the takeover for a
  `_dbLock` that a hung database call holds (`channel_or_storage.cpp:1485`).
- Within `Recovery`: a database that fails, and with it the order in which stop()
  writes a cache.
- Within `ExchangeSim`: the switch that makes a reject one of business level
  (`matcher_manager_cme.cpp:411`), which changes the message and nothing else.
- Within `TimerServer`: two calls of start(), which the code only logs, and
  timeouts above 71 minutes, whose microseconds overflow 32 bits.
- Within `MessageBus`: the splitting of the byte stream into lines, the client
  side, which is a peer, and the test in onTimeout of the time since the last heartbeat
  (`tcp_ip_server_connection.cpp:321-324`), which can only fail with an interval below
  20 ms: the caller waits for the interval less 10 ms (`:432`), the test is for half.
- Within `Pnl`: busts and the audit. Within `Bars`: several instruments, whose maps
  share nothing.
