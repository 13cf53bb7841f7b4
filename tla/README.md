# A TLA+ model of the cluster ingest server

The repository is a server that subscribes to the trades of several crypto
exchanges, aggregates them into *clusters* (traded volume per price bucket and
time window, also called a footprint), streams the result to terminals over
gRPC, stores it in ClickHouse and answers requests for its history. This
directory models it from the exchanges' messages to the rows and the answers:
TLA+ modules, the TLC configurations that check them, and proofs about eight of
its parts.

All paths below are relative to `src/crates/`.

## 1. Inventory

```
exchange WS ─ session ─ sink ─ trade fanout ─┬─ aggregator (30 s) ─┐
   (binance_session)   mpsc    (spawn_symbol) └─ aggregator (60 s) ─┤  ClusterBus
                                                                    │  (broadcast per key)
 supervisor: discovery ─ handles ─ watch<routes> ─ session loop     ├─ ch_fanout ─ mpsc ─ ChWriter ─ ClickHouse
                                                                    └─ gRPC subscription ─ terminal
```

| Component | State | Operations | Correct when |
|---|---|---|---|
| Aggregator and its task (`cluster-engine/src/aggregator.rs`, `task.rs`) | open window, accumulators per bucket, two dirty sets, sequence number, OHLC, late counter | `ingest` (late, current, roll), `tick`, `current_window_delta`, `flush`; a biased select over trades and two tickers | closed windows are stored exactly; no update is lost between the two emitters; no panic; rows only grow |
| Bus (`cluster-engine/src/bus.rs`) | one broadcast ring per stream key | `publish`, `subscribe` | losses are counted, frames are in order |
| ClickHouse fanout (`spawn_snapshot_to_ch` in `cluster-ingest/src/binance_supervisor.rs`) | receiver position, `total_lagged` | recv, lag, send with backpressure | Snapshots arrive whole |
| ClickHouse writer (`clickhouse-sink/src/lib.rs`) | buffer, backoff, next attempt, counters | `run`, `try_flush`, `flush_once` | bounded, every row in one account, rows settle |
| Supervisor (`cluster-ingest/src/binance_supervisor.rs`) | handle map, watch of routes, tasks per symbol | `reconcile_once`, `spawn_symbol`, `run_session_loop`, shutdown in `run` | no route update is missed, tasks end, shutdown completes |
| Binance session (`cluster-ingest/src/binance_session.rs`) | last trade id per symbol, `SessionStats` | `handle_payload`, `detect_gap` | every trade is routed or counted, gaps are counted |
| Other sessions (`*_session.rs`: Bybit, OKX, Bitget, Hyperliquid, Aster, KuCoin, MEXC, BingX) | connections per shard, ping timers, `SessionStats` | connect, subscribe in batches, ping, read, reconnect per shard | one connection per symbol, a dead shard comes back, every usable trade in one counter |
| Server (`cluster-ingest/src/main.rs`) | task handles, shutdown watch, the tables' TTL in ClickHouse | start (validate, create tables, apply TTL, start the enabled sections), ctrl-c, join order | the configured retention is in force, one owner per stream, what was received is written before exit |
| Configuration (`cluster-ingest/src/config.rs`) | none | parse, defaults, validations, retention clauses | each stream under the one rule the file gives it |
| gRPC stream (`cluster-api/src/stream_server.rs`) | one bus receiver per subscription | `subscribe` | a client that reads is never left behind; what it loses is logged on the server only |
| History endpoint (`cluster-api/src/cluster_history.rs`, `timeframes.rs`) | none | validation, row estimate, roll-up, cache headers | answers equal what an aggregator of the interval would give, only final ones are cached for ever |
| REST, authentication, metrics (`cluster-api/src/rest.rs`, `auth.rs`, `sysmetrics.rs`) | none of their own | request handling | only accepted tokens get answers |
| Write-ahead log (`wal/src/`) | a file of checksummed records | open, append, `flush_sync`, read | what was synced and acknowledged is read back, in order, and only a torn tail is lost |
| Exchange adapters (`exchange-*/src/`) | process-wide table of contract sizes | instrument lists and trade messages into domain types, decimal scaling | trades recorded exactly, one bad entry or deal harms no other instrument |
| Stubs (`ops`, `query-api`) | none | none | — |

What is hard here:

- **Concurrency without locks in common.** Every arrow of the picture is a
  channel between tasks. A full channel is handled in three ways: drop and
  count (the sink, the timeframe channels), wait (the writer's channel),
  overwrite (the bus). Their combination decides what reaches the table.
- **Ends of tasks.** A task ends when the last clone of a sender is gone;
  clones live in the handle map, inside the value of a `watch`, and in the
  snapshot a session runs on. Shutdown and the removal of a symbol both rely on
  that domino.
- **Failure.** INSERTs time out and are retried, sessions reconnect, exchanges
  skip and repeat trades, discovery fails, symbols leave and come back.
- **State that outlives the process, and copies of it.** The TTL and the rows in
  ClickHouse, answers a client may keep for a day, specifications a route keeps
  after the venue relists the instrument.
- **Nine venues, one pipeline.** Nearly the same code nine times, with
  differences in pings, acknowledgements, shards, sides, contract sizes and which
  malformed input fails how much.
- **Two emitters, one state.** Diffs and deltas clear two dirty sets at
  different times and share a sequence number that a window roll resets.

`PROJECT.json` lists these hazards at their lines with the properties that
cover them.

## 2. Modules

| Module | Models | Depends on |
|---|---|---|
| `Aggregator` | one aggregator and its task, two consumers that miss nothing | — |
| `Footprints` | the reference: footprint and candle of a window, counted over the full list of trades | `Aggregator` |
| `AggregatorLossy` | the same with a table that any Snapshot may fail to reach | `Footprints` |
| `MCAggregator` | instance | `AggregatorLossy` |
| `AggregatorProofs`, `SupervisorProofs`, `TradePathProofs`, `ChWriterProofs`, `BusPathProofs`, `SessionsProofs`, `WalProofs`, `ServerProofs` | theorems about the module of that name; `AggregatorProofs` also about `Footprints` and `AggregatorLossy` | that module |
| `TradePath` | session → sink → trade fanout → aggregators' receive | `LossyStream` |
| `LossyStream` | abstract: what that way promises | — |
| `GapDetect` | `detect_gap` as operators | — |
| `Venues` | what differs between the venues' connections, as data | — |
| `Sessions`, `MCSessions` | a wire session of any venue | `Venues`, `GapDetect` |
| `Decimals` | `scale.rs`: decimal strings and scaled integers | — |
| `Adapters` | each venue's instrument entries and trade messages, as operators | `Decimals` |
| `Feed`, `MCFeed` | discovery, relisting, the table of contract sizes, parsing | `Adapters` |
| `Config` | sections, names, authentication, validations, retention clauses, as operators | — |
| `History` | the history endpoint, as operators over stored rows | `Config` |
| `Server`, `MCServer` | starts and ends of the process, TTL, rows, requests | `History` |
| `Wal`, `MCWal` | the write-ahead log with crashes | `DurableLog` |
| `DurableLog` | abstract: what a log promises | — |
| `BusPath` | bus → ClickHouse fanout → writer channel, and a gRPC subscription | — |
| `ChWriter` | the writer, its channel and the table behind it | — |
| `Supervisor` | discovery, watch of routes, session loop, tasks of a symbol, shutdown | — |

Operators named as *faulty variants* stand before the definition they vary.
No specification uses them; put in the place of the original, each makes TLC
find a violation of the property it is listed with in `PROJECT.json`, which
shows that the property depends on that piece of code.

### Aggregator

The variables are the fields of `Aggregator` (`window` is
`current_window_start_ns`, `NoWindow` for `None`), `task` says whether the
select loop runs, and `published` is the last frame. `live` and `table` are
what two consumers make of the frames: a terminal that goes by the documentation
of the frames (a Snapshot is the full state of its window and replaces what was
shown of it, a Diff is a set of upserts), and the ReplacingMergeTree table, which
only Snapshots reach. `history` records the trades for the reference definition.

`ingest` is three actions, one per outcome: `IngestLate`, `IngestCurrent`,
`IngestRoll` (publish the closing Snapshot, clear, book the trade). `Tick` and
`CurrentWindowDelta` are the tickers with the early returns as guards.
`CloseIdle` and `CloseFlush` are the end of the channel. `accum` is a function
whose domain is the map's key set. Prices, quantities and times are small
naturals; `SaturatingAdd` keeps the limits of `i64` and `u32` as the constants
`MaxQty` and `MaxTradeCount`. The select is biased towards trades, but the
senders may pause between any two trades, so a ticker may fire anywhere.

`Footprints` says what a window's rows should be without any running state. The
trades booked on a window are those of it that no trade of a later window precedes
in `history`; a volume is the number of units those trades moved, a sum is a
cardinality, a candle is the first, last, highest and lowest price. `AggregatorLossy`
adds `stored`, a table that each Snapshot may miss, and `missed`, the windows whose
closing Snapshot it missed.

### TradePath

A trade is its position in the stream. The session's `try_send` and the fanout's
`try_send` to each timeframe are separate steps, because the tasks run on
different threads. `Busy` are timeframes whose aggregator need not be scheduled.

`IsLossyStream` maps the three queues to `LossyStream`: what is in transit to a
reader is its channel, the fanout's hand and the sink together, and the three
drop counters are its losses. TLC checks that every step of `TradePath` is a step
of `LossyStream` or none: trades come out in order, none twice, and each that
does not is counted at the step that loses it. `TradePathProofs` proves it.

### Sessions, Venues, GapDetect

A record of `Venues` per flavour holds what the source files differ in: symbols
per connection and per subscribe message, the interval and kind of pings, which
messages are read as data, whether a plain pong is skipped, what is counted, how
many trades a message may hold, whether ids are checked for gaps, and whether a
deal without a side, price or quantity fails its message or is passed over.
`Sessions` has one variable that matters, `conn`: the
connections by the set of symbols they carry. Its steps are connecting,
subscribing message by message, reading each kind of message, pinging, ending in
each of the ways the loop distinguishes, the sleep with its backoff, and `Cycle`,
the supervisor dropping the session's future for new routes, in whatever phase
each shard is. Whether a sink takes a trade is open here; `TradePath` models it.
The gap state is part of a Binance connection; ids may be skipped, repeated and
out of order. A message that fails to parse is one parse error for all of its
trades; a deal that is passed over is in no counter, so `StatsAccount` keeps a sum
of its own for those (`arrived.skipped`) and says on which venues they occur.

### Decimals, Adapters, Feed

A decimal is its integer part and its digits as written, so `0.10` and `0.1`
differ and trailing zeros matter as they do in the code. `json_number` is what
`serde_json` makes of a number on its way to a string: shortest, and with an exponent
below 10^-5, which the decimal functions take for no number. KuCoin's futures list
and the futures trades of KuCoin and MEXC pass through it (MEXC's and BingX's lists
format the number themselves). `Adapters` has an
operator per venue and market for an instrument entry (kept with a specification,
passed over, or failing the whole list) and for a deal (a trade, passed over, or
failing its message). `Feed` runs two supervisors, perpetual and spot, of one
venue over one table of contract sizes while the venue changes its list; a route
keeps the specification it was built from, and the history fields `entry` and `seen`
say from which entry that was and which one was read last. The properties quantify
over messages in every state, since parsing changes nothing. `TradesExact` judges a
route built from the entry that was read last and is still the venue's; what the
table of contract sizes holds is not assumed but checked. A route that outlived a
relisting, and numbers with an exponent, are section 5's.

### Config, History, Server

`Config` has one definition per section of `main` and the tables of names, the
validations and `ttl_clause_for`. `History` is the endpoint over a set of rows:
validation, the estimate, both forms of the query, the cap, the caching decision;
`sum`, `maxIf`, `argMaxIf` and `toStartOfInterval` are external; a sum of a column is
the number of its units (`Sum`). The close of a bar is a
set: rows of one INSERT may share `ingested_at`, and `argMaxIf` may then pick any
of them. `Server` puts them beside tables that outlive the process: `Start` is
`main` up to the serving state (or a refusal), `Trade`, `Delta` and the closing of
a window are what the other modules promise while nothing is lost, `Expire` is
ClickHouse's, `Fetch` and `Respond` are a request whose clock is read after its
rows. `torn` are windows a process left unsettled: a restart starts their rows
again from zero, which the properties have to exempt.

Time is in an arbitrary unit, `BaseTf` of them to a base window. `MaxLag` bounds the
age at which a trade is still taken, and with it how long after the end of a window
the last delta of it may be written (`Elapse` does not go past that); `MaxFetch`
bounds the read of one request, 15 s in `main.rs`. `ServerAssumption` has
`MaxLag + MaxFetch <= BaseTf + 2`, the weakest bound under which the grace of two
intervals in the caching decision is enough: with the base windows of 60 s, deltas
every second and INSERTs every two, trades and rows together may be some 45 s late (15 s
for the table of 30 s windows). It is an assumption on the venue and on ClickHouse: while
INSERTs are refused for longer than that, an answer cached as final may still change.

### Wal

The file is a sequence of units, some on disk and some in the cache of the
operating system; a crash keeps any prefix of the latter, torn headers and
payloads included. An append is two writes. Either may fail after any number of
units, which the next call of the writer is told (`ErrorReturned`), and the future
may be dropped between them; the writer can be used on, and `bytes_written`, which is
advanced when the second write is handed over, may then be above or below the length
of the file. No crate calls the log, so nothing is assumed of the caller: it may open a
writer on a file with a torn end, go on after errors, and cut the file where the
reader stopped with an error, as the reader's comment offers (`Truncate`; after a torn
header the reader says `Ok(None)` and nobody cuts). `acked` counts the whole frames
before a successful `flush_sync`, `clean` the length of the file at the last one of a
writer that began on a whole file and was told no error (`hurt`). A cut is taken to
last like the file it cuts, and a failed sync to leave the cached units in the
file. `Wal` maps to `DurableLog` by the frames a reader would find:
`ReadFrom` is the reader's loop as a function of the offset it starts at,
`ReadStep` one turn of it.

### BusPath

The log of frames with a receiver position per consumer. The ring is tokio's:
the last `Capacity` frames are kept, a receiver behind them is told how many it
missed. The gRPC stream passes frames on and drops the notice of a lag after
logging it; it ends only when the client goes (`Unsubscribe`). Sending the rows
of one Snapshot is one step per row, so the bus can overtake the fanout between
two rows. `snaps` records which Snapshots the fanout was given, for the property
that says what the writer gets of them.

### ChWriter

`pc` is where `run` stands: in the select, in an INSERT (`post`), in the last
INSERT after the channel closed (`final`), returned. An INSERT ends in one of
four ways: answered; refused; applied but the answer lost; timed out, in which
case the server may still apply it at any later time (`late`, `ApplyLate`).
`wait` is the time left to `next_attempt`.

### Supervisor

An incarnation `<<symbol, n>>` is one `spawn_symbol`; `handles` maps a symbol to the
number of the one it has, as the `HashMap` does. `SinkHeld` is the question
the code turns on: does anything still hold a clone of its `trade_tx`.
`reconcile_once` is one step after its awaits, since it holds the lock and does
not yield. The watch's `borrow`/`changed` is `unseen`.

## 3. Runs

| Run | Bounds | States (about) | Shows |
|---|---|---|---|
| `aggregator` (`MCAggregator`, `AggregatorLossy.cfg`) | 4 trades out of 8 kinds, 3 windows, 2 buckets, limits 3 and 2 | 1 million | panic freedom, nothing a subscriber shows is wrong, the table agrees with the accumulators, closed windows equal the reference footprint, late trades counted, sequence numbers, rows only grow, a closing Snapshot repairs lost deltas |
| `writer` | 5 rows of 2 keys, buffer 3, batch 2, one abandoned INSERT | 430 thousand | buffer bounded and fresh, accounts, acknowledged rows stored, rows settle |
| `supervisor` | 2 symbols, top 1, 3 incarnations, 2 of one symbol | 210 thousand | published routes are the handles, no stale session, sinks of earlier incarnations released, none fed without a fanout; routes reach the session, tasks of a removed symbol end, shutdown stops the session |
| `supervisor_shutdown` | 2 symbols, 1 incarnation each | violation | finding 1 |
| `trade_path` | 7 trades, 2 timeframes, channels of 2 | 240 thousand | implements `LossyStream`, drained exits, a slow timeframe delays no other |
| `bus` | 4 frames, ring 2, channel 1, 2 rows per Snapshot | 134 thousand | lag counted, Snapshots whole and in order, consumers catch up |
| `sessions` | all 11 flavours, 2 symbols, shards and batches of 1, 1 change of routes, 2 failures, 2 messages (4 where ids count) | 970 thousand | one connection per symbol, counters account for every trade not passed over, gaps neither missed nor invented, every symbol is fed again |
| `feed` | all 9 venues, 3 instruments, 4, 2 and 11 entries for them, 2 relistings, 25 messages | 180 thousand | trades exact, sound bucket steps, contract sizes known, bad entries isolated |
| `feed_contract_qty` | OKX only | violation | finding 2 |
| `server` | 5 configurations (2 valid), 2 starts, 3 trades in 3 windows, 6 requests, answers up to 3 rows | 570 thousand | retention in force, roll-ups exact, cached answers final, every stream reachable |
| `retention_forever` | 2 configurations | violation | finding 3 |
| `wal` | 3 payloads (empty, short, too long), a file of 8 units | 230 thousand | implements `DurableLog`, acknowledgements before any error are replayed |

Why the bounds are enough: each constant is the least at which the interesting
cases occur, and usually one more. Four trades hold a late one, two in one bucket
(which saturates both limits), a roll and a trade after it; a buffer of 3 with
batches of 2 is filled by refused INSERTs and overflows with 5 rows; two
incarnations are a symbol that left and came back while its old tasks still run;
a ring of 2 with 4 frames lags more than once; a channel of 1 makes the fanout
wait inside every Snapshot of 2 rows; 7 trades fill both channels of 2 and the
one in the fanout's hand, and drop at each of them. Two symbols in shards of one
make shards fail independently; two failures let one of them fail while it
reconnects. Four ids are a hole, its late filling and a repetition. The steps of
the instruments have trailing zeros, a tick that is not a power of ten, contracts
below, at and above one unit. Three trades in base windows 0 to 2 put two windows
into one roll-up and close both; two starts change the retention once, in either
direction; the clock runs to the age at which a range becomes immutable and past
every TTL. Eight units hold two frames, or the torn header or payload of one with
another written behind it and a third cut short. A tick and a contract size of 10^-6
are written with an exponent.

Configurations that say `CHECK_DEADLOCK FALSE` have a bounded input and a state in
which every task has ended. `Feed.cfg` and `Wal.cfg` check for deadlock.

### Fairness

- `TradePath`, `BusPath`, `Supervisor`, `ChWriter`: weak fairness of the steps of
  a tokio task; a runnable task is polled. The environment (trades, ctrl-c,
  discovery ticks, the end of a wire session) is never assumed to act. In
  `TradePath` aggregators in `Busy` have no fairness. In `BusPath` the writer
  and the client are assumed to keep reading.
- `Sessions`: weak fairness, symbol by symbol, of the sleep and of a successful
  connection and subscription. The venue fails at most `MaxEnds` times, so this
  says that a venue that has become well accepts the retries; it is an
  assumption on the venue. That the code retries at all, and for each shard, is
  what `EverySymbolFedAgain` checks.
- `Supervisor`, end of a discovery: the HTTP clients have a timeout of ten
  seconds.
- `Supervisor`, strong fairness of `ShutdownSeen`: the shutdown branch becomes
  ready at each return to the select, and `tokio::select!` chooses at random
  among ready branches.
- `ChWriter`, strong fairness of `PostOk`: an INSERT retried for ever is accepted
  once. This is an assumption on ClickHouse, not on the code. `RowsSettle` says
  nothing of a server that is down for good; `FreshestKept` then bounds the loss.

## 4. Proofs

Each theorem holds for every value of the module's constants that satisfies its
named assumption: numbers are naturals (capacities, batch sizes and lengths of a
header positive), sets of timeframes and symbols finite, prices positive, files as
the deserialiser types them, and in `Server` the bound on delays given in section 2. The bounds on the number of steps (`MaxTrades`,
`MaxRows`, `MaxEnds`...) are arbitrary naturals there, so a theorem covers
behaviours of any length. Column three names the property a run of section 3
checks on an instance.

| Module | Theorem | Property | In words |
|---|---|---|---|
| `AggregatorProofs` | `Invariance` | | the inductive invariant |
| | `TypeCorrect` | | accumulators stay within their machine types |
| | `NoPanic` | `NoMissingBucket` | `self.accum[&price]` finds its key |
| | `TableViewAgrees` | `TableAgrees` | the table is exact but for buckets waiting for their delta |
| | `LiveViewSound` | `LiveNeverWrong` | what a live subscriber shows is exact but for buckets waiting for their emission |
| | `SequenceOrder` | `SequenceGapFree` (action) | frames are numbered without gap or repetition |
| | `RowsGrow` | `RowsOnlyGrow` (action) | no row is replaced by a lesser one |
| | `FootprintInvariance` | | the inductive invariant over the list of trades |
| | `ClosedExact` | `ClosedWindowExact` | the rows of a closed window are its footprint and candle |
| | `NoTradeLost` | `LateTradesCounted` | each trade is booked, or counted as late, and not both |
| | `LossyImplements` | `Spec` of `Aggregator` (refinement) | losing Snapshots leaves the aggregator as it was |
| | `ClosingRestoresWindow` | `ClosingRestores` | one closing Snapshot makes up for all deltas lost |
| `SupervisorProofs` | `TypesHold` | | types, backoff within its limits |
| | `RoutesFollowHandles` | `RoutesMatchHandles` | the published routes are the handles |
| | `NoUpdateMissed` | `NoStaleSession` | no notification pending means the last routes |
| | `OldSinksReleased` | `SupersededReleased` | the sink of an earlier incarnation is held only by a session that is about to be cycled |
| | `SinksOpen` | `SinksServed` | every sink a session feeds has its fanout |
| | `ReturnsOnlyIdle` | | `run` returns only if no symbol was handled at shutdown |
| `TradePathProofs` | `TypesHold` | | types, channels within their capacity |
| | `DrainedOnExit` | `ExitAfterDrain` | an aggregator exits with every trade received or counted |
| | `ImplementsLossyStream` | `IsLossyStream` (refinement) | in order, none twice, every loss counted |
| `ChWriterProofs` | `TypesHold` | | types, the channel within its capacity |
| | `BufferHoldsFreshest` | `FreshestKept` | the buffer is bounded and drops the oldest |
| | `RowsAccounted` | `EveryRowAccounted` | each row is in exactly one account |
| | `AckedRowsStored` | `AckedStored` | what is counted as written is in the table |
| `BusPathProofs` | `TypesHold` | | types, the channel within its capacity |
| | `EveryLagCounted` | `LagCounted` | `total_lagged` is exact |
| | `SnapshotsWhole` | `SnapshotsArriveWhole` | Snapshots reach the writer in order and complete |
| `SessionsProofs` | `SymbolsFedOnce` | `FedExactlyOnce` | each routed symbol has one connection |
| | `EverythingCounted` | `StatsAccount` | the counters account for every trade and frame but the deals passed over |
| | `GapsCounted` | `GapCountersSound` | gaps neither missed nor invented |
| `WalProofs` | `ImplementsDurableLog` | `IsDurableLog` (refinement) | what readers find grows by whole frames, and a crash takes none they find in the synced part |
| | `CleanAcksSurvive` | `CleanAcksReplayed` | what was acknowledged before any error is replayed |
| `ServerProofs` | `StreamsReachable` | `EveryStreamReachable` | one publisher per stream, and names lead to it |
| | `RulesTakeEffect` | | where the file has clauses for a settled table, they are in force |
| | `RetentionOfLastFile` | `RetentionInForce` | the same for all tables, if no file switches the deletion of a whole table off |
| | `RangeInvariance` | | rows past their deadline, and answers read from them, are final |
| | `CachedFinal` | `CachedRangeFinal` | an answer sent as immutable is the answer to every later request |
| | `ExactInvariance` | | a settled window is in the table exactly as traded |
| | `AnswersExact` | `RollupExact` | a settled range is answered as an aggregator of its interval would have |

The proofs have one lemma or step per action and, under it, one per conjunct the
action can disturb. What makes each property inductive:

- **Aggregator.** `IInv == TypeOK /\ NoMissingBucket /\ LiveNeverWrong /\ TableAgrees
  /\ RowsBehindAccum /\ SequenceTracksPublished`. The first four are stable only
  together: that a Diff brings `live` up to date needs its buckets to be in the
  map, and that clearing a dirty set is harmless needs the frame to have carried
  every bucket of it. `RowsBehindAccum` says that the table holds no row of a later
  window and none ahead of the open window's accumulators; without it nothing
  forbids a state in which a delta replaces a fuller row. `SequenceTracksPublished`
  ties the counter to the last frame of the open window; without it a roll could
  meet a frame of the new window already published.
  `FInv` adds the list of trades: `OpenExact` says that the open window is the latest
  of all trades received and that its accumulators and OHLC are the footprint and the
  candle of its booked trades. Then a roll stores an exact window, and no later trade
  can be booked on it. Sums are cardinalities of sets of units, so that a trade
  appended to the list adds a set disjoint from the others. `LInv` adds that the lossy
  table is nowhere ahead of the open window (`StoredBehindAccum`): what a closing
  Snapshot overwrites is only less than it.
- **Supervisor.** Who holds the sink of which incarnation is a fact about three copies
  of one set (the handle map, the watch's value, the session's snapshot):
  `HoldersUpToDate` says that the first two hold the last incarnation of each symbol,
  and the third does too or has a change to notice.
  `HeldSinksServed` says of every place that holds a clone of a sender that the
  fanout behind it lives. `JoinsHeldByWatch` says that what `run` joins after
  shutdown is what its own watch holds: `ReturnsOnlyIdle`, and with it finding 1
  for every set of symbols, follows.
- **TradePath.** `EmittedAccounted` (at each timeframe, received + queued + in the
  fanout's hand + waiting in the sink + dropped is what was emitted) and
  `LeftDrained` (a task that left had its input closed and empty). The refinement
  maps each step to one of `LossyStream` or a stutter; what it needs are laws of
  concatenation, since taking the head of one queue and appending it to the next
  must leave the trades in transit as they were.
- **ChWriter.** `OlderSettled`: the acknowledged and dropped rows are exactly those
  older than the buffer, and no row is both. Then a repeated INSERT, which carries
  rows newer than any acknowledged one, cannot bring an old row back. That an INSERT
  leaves the last of its rows per key needs that there is a last one: a set of
  positions has a largest element.
- **BusPath.** The two properties are inductive together with the types.
- **Sessions.** The connections partition the routed symbols (`CutInto`), whatever
  order shards fail and come back in, and each connection is sound by itself
  (`ConnSound`): one that is up has subscribed all its symbols, its counters
  account for what arrived, and its gap state `Spans` the ids it has seen, that is,
  the last id is the largest one and the holes lie between the first and it.
- **Wal.** `Inv` says, besides the types, that a writer not hurt has a file a reader
  gets through, but for the frame it is writing, and that `clean` is within the reach
  of a reader of the synced part. The lemmas about the reader: a file written on reads
  as before and then as from where the reader stopped (`ReadOn`); where it stopped
  there is no frame (`StopIsNoFrame`), and what is written there by pieces is none
  before its last unit (`NotYetAFrame`); so an append adds nothing for a reader, or,
  complete and at the end of a whole file, its frame, or is out of reach behind damage
  (`FrameWritten`); a file cut where its reader stops, or later, reads the same
  (`CutAtStop`). `ReadFromUnfolds` shows that the recursion defines a function, that
  is, that the reader always comes to an end.
- **Server.** A running server was started from a configuration that passed the
  checks, and on a settled table with clauses these are in force (`StartedFrom`).
  `ClausesImplementRules` is about `ttl_clause_for` alone: for every valid list of
  overrides, in any order, every slice of a table is under exactly one deletion, at
  the age of its most specific rule, or under none where that is 0 days. The
  condition of `RetentionOfLastFile`, `EveryTableRuled`, is what finding 3 violates;
  the configurations of the run `server` satisfy it.

  `RangeInv`, for `CachedRangeFinal`: a window that is dirty is not older than `MaxLag`
  and a base window allow; what is clean is stored, the row written last with the OHLC
  of now; and every answer being read or kept is the one the table gives (`Lasting`).
  A step can change only rows of the open window; if that lies below the end of a kept
  range it is clean, so closing it writes what is there already.

  `ExactInv`, for `RollupExact`: the open window is the footprint of its trades unless
  torn (`BarExact`), and so are the rows of each window that was closed by a later
  trade, not torn and not expired (`RowsExact`). That such a window is never opened
  again needs two facts about the order of trades: outside torn windows they were
  booked in the order of their windows (`InOrder`), and a window above the open one,
  as all are after a restart, is torn or past the age at which a trade of it is taken
  (`Behind`). From there the answer is computed: any row of an exact window gives its
  candle (`SubCandle`); the first sub-window has the first trade, the last the last,
  and the maximum of the maxima is the maximum (`RolledCandle`); the trades of a
  rolled bucket are split by the sub-windows, so the sum of the counts counts them
  (`BucketSum`, from `SumOfParts`); and an answer shorter than the cap was not cut
  (`CapNotReached`). TLC checked both invariants at `BaseTf = 1` and `BaseTf = 2`.

The library's induction theorems take an operator and cannot be used here; in
`WalProofs` induction over offsets is written with sets. The counterexamples to a
lemma about the reader are a set of offsets, which if it is not empty has a largest
element (`LastOffset`, from `NatLessThanWellFounded` and `WFMin`), and the
definition, unfolded once there, gives a larger one.

Only model-checked:

- all liveness properties (`RowsSettle`, `RoutesReachSession`, `RemovedTasksEnd`,
  `ShutdownStopsSession`, `FastTimeframesServed`, `CloseDrains`, `ConsumersCatchUp`,
  `EverySymbolFedAgain`): they need fairness, which the prover does not handle;
- the four properties of `Feed`. `TradesExact` and `BucketsFollowTicks` are arithmetic
  on strings of decimal digits: that reading digits in a loop gives the number they
  stand for is an induction over the string, with powers of ten, which the provers do
  not do. `ContractSizeKnown` and `DiscoveryIsolates` go through the same
  parsers; the run checks them for every venue over its entries and messages.

## 5. Findings

Each is a run TLC ends with a counterexample; `PROJECT.json` quotes the lines.

1. **Shutdown does not complete** (`supervisor_shutdown`). `run` drops the handles
   and joins the trade fanouts, but the value inside its own `routes_tx` still
   holds a sender of each sink, so no fanout ends and `main` never drains the
   writers. Publishing an empty route set before the joins would release them.
2. **Fractions of contracts are cut** (`feed_contract_qty`). OKX, KuCoin and MEXC
   futures read the number of contracts at the scale of the base quantity and
   then multiply by the contract size. With a contract above one unit and a lot
   below one contract the quantity is recorded too small. `TradesExact` holds
   where contracts trade whole.
3. **Retention cannot be switched off** (`retention_forever`). When the new file
   deletes nothing, `main` leaves the TTL of an earlier start in force.

Ten more statements are written down as properties that no run checks: what a comment
promises, or a checked property without one of its conditions. Each is violated when it
is the only property of the named configuration.

| Property | Configuration | What it shows |
|---|---|---|
| `LiveComplete` (`Aggregator`) | `AggregatorLossy.cfg` | a delta is published as an `AnalyticsSnapshot`, "Full state of the current (still-open) time window" (`exchange-core/src/types.rs:168`), but holds only the buckets traded since the last one: a subscriber that believes it loses the others until they trade again or the window closes |
| `NoSilentGap` (`BusPath`) | `BusPath.cfg` | "Slow consumers see `RecvError::Lagged`" (`cluster-engine/src/bus.rs:19`); the gRPC stream logs the notice and drops it, so the client sees the next frame as if nothing were missing |
| `AckedReplayed` (`Wal`) | `Wal.cfg` | "the WAL file contains at least everything that was ever acked", "`WalReader` replays any tail" (`wal/src/writer.rs:10`): frames written behind a torn header, or after a failed or dropped append, are synced, acknowledged and found by no reader |
| `RelistedExact` (`Feed`) | `Feed.cfg` | a route keeps its scales when the venue changes the tick, lot or contract size, while the table of contract sizes has the new one |
| `SmallNumbersExact` (`Feed`) | `Feed.cfg` | "server prices/qty match byte-for-byte" (`exchange-kucoin/src/scale.rs:3`): a number below 10^-5 in KuCoin's futures list or in a futures trade of KuCoin or MEXC is written with an exponent; a contract size then counts as 1, a price fails the message (a tick, the entry) |
| `FinalFrameDelivered` (`Supervisor`) | `Supervisor.cfg` | the ClickHouse fanout of a removed symbol is aborted before the aggregator can have flushed: its open window is not stored |
| `NextDeltaRestores` (`AggregatorLossy`, a PROPERTY) | `AggregatorLossy.cfg` | the delta after a lost one carries only buckets traded since; the closing Snapshot repairs the window |
| `FlushedOnReturn` (`ChWriter`) | `ChWriter.cfg` | when the flush on close fails, the buffered rows are neither written nor counted |
| `SilentConnectionLeft` (`Sessions`) | `Sessions.cfg` with `MaxPings = 3` | no session reads `pong_timeout_ms`, so a connection that answers no ping is kept |
| `NeverCutShort` (`Server`) | `Server.cfg` with `MaxBars = 1` | a range whose rows reach the cap is answered with its beginning and 200 |

Observations without a property: a late `ApplyLate` can put older rows over newer
ones (why `AckedStored` exempts the keys in `stale`); a closing Snapshot can be
overwritten in the ring like any frame (why `ClosingRestores` exempts `missed`);
an aggregator created anew counts the open window from zero over fuller rows, so
`RowsGrow` is about one aggregator per stream and `Server` exempts `torn`; an id
that arrives late stays counted as missing; the deals Hyperliquid, BingX and MEXC pass
over inside a good message are in no counter; a connection that is accepted
and closed at once is retried twice a second for ever (`Ok` resets the backoff);
Binance's instrument list fails as a whole where every other venue skips the
entry; three venues take a deal without a time at time 0; Bybit's list keeps
dated contracts; a range that does not begin on a boundary of its roll-up gets a
partial first bar; `validate_timeframes` does not make two of the checks its
comment lists; a missing `binance_spot` section is enabled although its comment
says it is not.

## 6. Not modelled

- Logs and what only logs read: `stats_ticker`, `last_late`, rate limits of
  warnings, `batches_ok`, `batches_err`.
- Branches that cannot be taken: `TrySendError::Closed` in the trade fanout and
  the failed send in the ClickHouse fanout (the receivers outlive the senders).
- Encodings: JSON text and protobuf (including MEXC's decoder `pb.rs`), the text
  of rows, SQL and answers. What they carry is modelled.
- The 24 h volume queries. The supervisor's ranking is any order, which includes
  every answer and failure of them.
- HTTP clients and their URLs, the mapping of symbol names between a venue and
  the server, reading the configuration file and its defaults.
- Metrics (`sysmetrics.rs`): reads of `/proc` and system tables without state.
- REST routing and compression: library configuration.
- Two instruments whose scale differs within one bar of the history.
- The crates `ops` and `query-api`, which are empty.

## 7. Plan

Done: every component above except the ones under "Not modelled", and a theorem
for every safety property a run checks, except the four of `Feed`.

Left, in this order:

1. `Feed`: lemmas about `Decimals` for numbers of a fixed count of digits, from which
   `BucketsFollowTicks` would follow for each venue's scales.
2. `CachedRangeFinal` while INSERTs are refused: which answers may still change, as a
   function of how long the refusal lasts, from the writer's backoff (`ChWriter`).
3. One composition of `BusPath` and `ChWriter`, in place of the promise `Server` makes
   for them.
