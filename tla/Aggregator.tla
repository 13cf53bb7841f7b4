------------------------------ MODULE Aggregator ------------------------------
(***************************************************************************)
(* One footprint aggregator: the state machine of                          *)
(* crates/cluster-engine/src/aggregator.rs, driven by the select loop of   *)
(* crates/cluster-engine/src/task.rs, for one (symbol, timeframe) stream.  *)
(*                                                                         *)
(* The task receives trades in channel order (they need not be in          *)
(* timestamp order), accumulates them per price bucket of the open time    *)
(* window and publishes frames on the bus: a Diff of the buckets dirtied   *)
(* since the last Diff, a delta Snapshot of the buckets dirtied since the  *)
(* last delta, and a closing Snapshot of every bucket when a trade of a    *)
(* later window arrives or the trade channel closes.                       *)
(*                                                                         *)
(* `live' and `table' are the views of two consumers that miss no frame: a *)
(* gRPC subscriber that does what the frames' documentation says (an       *)
(* AnalyticsSnapshot is the full state of its window and replaces it, a    *)
(* Diff is upserted; it cannot tell a delta from a closing Snapshot), and  *)
(* the ClickHouse table (ReplacingMergeTree: the last row written for a    *)
(* key wins), which only Snapshots reach.  Lost frames are the subject of  *)
(* other modules.                                                          *)
(*                                                                         *)
(* The select is `biased': timers fire only while the trade channel is     *)
(* empty.  How long it stays empty is up to the senders, so a timer can    *)
(* fire between any two trades and no queue is needed here.                *)
(***************************************************************************)
EXTENDS Integers, Sequences, FiniteSets

CONSTANTS
  BucketStep,      \* price bucket width (the symbol's tick size)
  WindowNs,        \* window length
  DiffIntervalNs,  \* minimum time between two Diffs
  MaxQty,          \* i64::MAX, where quantities saturate
  MaxTradeCount,   \* u32::MAX, where a bucket's trade counter saturates
  Trades,          \* the trades that may arrive
  Clock,           \* the values now_ns() may return (wall clock: any order)
  MaxIngested      \* bound on the number of trades received

TradePrint == [exchange_ts_ns : Nat, aggressor : {"Bid", "Ask"},
               price : Nat \ {0}, qty : Nat]

ASSUME AggregatorAssumption ==
  /\ BucketStep \in Nat \ {0}
  /\ WindowNs \in Nat \ {0}
  /\ DiffIntervalNs \in Nat \ {0}
  /\ MaxQty \in Nat
  /\ MaxTradeCount \in Nat \ {0}
  /\ Trades \subseteq TradePrint
  /\ Clock \subseteq Nat
  /\ MaxIngested \in Nat

VARIABLES
  window,           \* current_window_start_ns, or NoWindow for None
  sequence,         \* sequence number of the last frame of the window
  accum,            \* price bucket -> ClusterAccum, the keys being the map's
  dirty,            \* buckets changed since the last Diff
  partial_dirty,    \* buckets changed since the last delta Snapshot
  last_diff_emit_ns,
  dropped_late_trades,
  ohlc,             \* open, close, high, low of the window; 0 = no trade yet
  task,             \* "running" until the select loop breaks
  published,        \* the last frame handed to the bus, or NoFrame
  live,             \* <<window, bucket>> -> cell, the live subscriber's view
  table,            \* <<window, bucket>> -> row, the ClickHouse view
  history           \* every trade received, in order (a history variable)

state == <<window, sequence, accum, dirty, partial_dirty, last_diff_emit_ns,
           dropped_late_trades, ohlc>>
vars == <<state, task, published, live, table, history>>

NoWindow == -1
NoOhlc == [open |-> 0, close |-> 0, high |-> 0, low |-> 0]
EmptyCell == [bid_qty |-> 0, ask_qty |-> 0, trades |-> 0]
EmptyMap == [p \in {} |-> EmptyCell]
NoFrame == [kind |-> "None", window |-> NoWindow, sequence |-> 0,
            clusters |-> EmptyMap, ohlc |-> NoOhlc]

Cell == [bid_qty : 0..MaxQty, ask_qty : 0..MaxQty, trades : 0..MaxTradeCount]
Ohlc == [open : Nat, close : Nat, high : Nat, low : Nat]
Row == [cell : Cell, ohlc : Ohlc]

-----------------------------------------------------------------------------
(* The arithmetic of ingest.                                               *)

\* The start of the window that holds a trade's exchange timestamp.
TradeWindow(t) == (t.exchange_ts_ns \div WindowNs) * WindowNs

\* The price level (a multiple of the bucket step) a trade is booked on.
BucketPrice(t) == (t.price \div BucketStep) * BucketStep

\* Faulty variant of the next operator: wrap-around.
WrappingAdd(a, b, max) == IF a + b > max THEN a + b - max - 1 ELSE a + b

\* i64::saturating_add / u32::saturating_add on non-negative operands.
SaturatingAdd(a, b, max) == IF a + b > max THEN max ELSE a + b

\* One trade added to a bucket's accumulator, on the aggressor's side.
AddTrade(cell, t) ==
  [bid_qty |-> IF t.aggressor = "Bid"
                 THEN SaturatingAdd(cell.bid_qty, t.qty, MaxQty)
                 ELSE cell.bid_qty,
   ask_qty |-> IF t.aggressor = "Ask"
                 THEN SaturatingAdd(cell.ask_qty, t.qty, MaxQty)
                 ELSE cell.ask_qty,
   trades  |-> SaturatingAdd(cell.trades, 1, MaxTradeCount)]

\* Faulty variant of Accumulate: the entry is keyed by the raw price.
AccumulateRaw(acc, t) ==
  [p \in DOMAIN acc \cup {t.price} |->
     IF p # t.price THEN acc[p]
     ELSE AddTrade(IF p \in DOMAIN acc THEN acc[p] ELSE EmptyCell, t)]

\* accum.entry(bucket).or_default(), then the additions.
Accumulate(acc, t) ==
  LET b == BucketPrice(t)
  IN  [p \in DOMAIN acc \cup {b} |->
         IF p # b THEN acc[p]
         ELSE AddTrade(IF b \in DOMAIN acc THEN acc[b] ELSE EmptyCell, t)]

\* Faulty variant of MarkDirty: only a bucket's first trade marks it.
MarkDirtyOnce(set, t) ==
  IF BucketPrice(t) \in DOMAIN accum THEN set ELSE set \cup {BucketPrice(t)}

\* dirty.insert(bucket) and partial_dirty.insert(bucket).
MarkDirty(set, t) == set \cup {BucketPrice(t)}

\* Faulty variant of IsLate: trades of the open window count as late too.
IsLateOrCurrent(t) == window # NoWindow /\ TradeWindow(t) <= window

\* The trade belongs to a window that was already closed.
IsLate(t) == window # NoWindow /\ TradeWindow(t) < window

\* OHLC of raw trade prices: open is set once per window, close always.
UpdateOhlc(o, t) ==
  [open  |-> IF o.open = 0 THEN t.price ELSE o.open,
   close |-> t.price,
   high  |-> IF o.open = 0 \/ t.price > o.high THEN t.price ELSE o.high,
   low   |-> IF o.open = 0 \/ t.price < o.low THEN t.price ELSE o.low]

-----------------------------------------------------------------------------
(* Frames, and what the two consumers do with them.                        *)

Snapshot(w, seq, clusters, o) ==
  [kind |-> "Snapshot", window |-> w, sequence |-> seq,
   clusters |-> clusters, ohlc |-> o]

\* An AnalyticsDiff carries no OHLC and its `removes' is always empty.
Diff(w, seq, upserts) ==
  [kind |-> "Diff", window |-> w, sequence |-> seq,
   clusters |-> upserts, ohlc |-> NoOhlc]

\* The accumulators of a set of buckets: self.accum[&price] for each.
CellsOf(S) == [p \in S |-> accum[p]]

\* Faulty variants of ClosingSnapshot: the sequence number is not bumped, and
\* only the buckets changed since the last delta are sent.
ClosingSameSequence == Snapshot(window, sequence, accum, ohlc)
ClosingDelta == Snapshot(window, sequence + 1, CellsOf(partial_dirty), ohlc)

\* The full snapshot of the open window; `unwrap_or(0)' on its start.
ClosingSnapshot ==
  Snapshot(IF window = NoWindow THEN 0 ELSE window, sequence + 1, accum, ohlc)

Upsert(f, g) ==
  [k \in DOMAIN f \cup DOMAIN g |-> IF k \in DOMAIN g THEN g[k] ELSE f[k]]

FrameKeys(frame) == {frame.window} \X DOMAIN frame.clusters

\* rows_from_snapshot: one row per bucket, the window's OHLC on each.
Rows(frame) ==
  [k \in FrameKeys(frame) |->
     [cell |-> frame.clusters[k[2]], ohlc |-> frame.ohlc]]

\* What a subscriber keeps of its view when a frame arrives: a Snapshot takes
\* the place of everything shown of its window, a Diff of nothing.
Kept(frame) ==
  [k \in {k \in DOMAIN live : frame.kind = "Snapshot" => k[1] # frame.window}
     |-> live[k]]

\* bus.publish as seen by subscribers that miss nothing: the live stream
\* carries every frame, the ClickHouse fan-out writes only Snapshots.
Publish(frame) ==
  /\ published' = frame
  /\ live' = Upsert(Kept(frame),
                    [k \in FrameKeys(frame) |-> frame.clusters[k[2]]])
  /\ table' = IF frame.kind = "Snapshot" THEN Upsert(table, Rows(frame))
                                         ELSE table

NoPublish == UNCHANGED <<published, live, table>>

-----------------------------------------------------------------------------
(* The task: one action per branch of the select loop that changes state.  *)

Init ==
  /\ window = NoWindow
  /\ sequence = 0
  /\ accum = EmptyMap
  /\ dirty = {}
  /\ partial_dirty = {}
  /\ last_diff_emit_ns = 0
  /\ dropped_late_trades = 0
  /\ ohlc = NoOhlc
  /\ task = "running"
  /\ published = NoFrame
  /\ live = EmptyMap
  /\ table = EmptyMap
  /\ history = <<>>

\* recv() yields Some(t).
Receive(t) ==
  /\ task = "running"
  /\ Len(history) < MaxIngested
  /\ history' = Append(history, t)
  /\ UNCHANGED task

\* ingest: a late trade is counted and otherwise ignored.
IngestLate(t) ==
  /\ Receive(t)
  /\ IsLate(t)
  /\ dropped_late_trades' = dropped_late_trades + 1
  /\ NoPublish
  /\ UNCHANGED <<window, sequence, accum, dirty, partial_dirty,
                 last_diff_emit_ns, ohlc>>

\* ingest: the first trade of all, or one of the open window.
IngestCurrent(t) ==
  /\ Receive(t)
  /\ window = NoWindow \/ TradeWindow(t) = window
  /\ window' = TradeWindow(t)
  /\ accum' = Accumulate(accum, t)
  /\ dirty' = MarkDirty(dirty, t)
  /\ partial_dirty' = MarkDirty(partial_dirty, t)
  /\ ohlc' = UpdateOhlc(ohlc, t)
  /\ NoPublish
  /\ UNCHANGED <<sequence, last_diff_emit_ns, dropped_late_trades>>

\* ingest: the trade opens a later window.  The closing snapshot of the old
\* one is published, its state cleared, and the trade booked on the new one.
IngestRoll(t) ==
  /\ Receive(t)
  /\ window # NoWindow
  /\ TradeWindow(t) > window
  /\ Publish(ClosingSnapshot)
  /\ window' = TradeWindow(t)
  /\ sequence' = 0
  /\ accum' = Accumulate(EmptyMap, t)
  /\ dirty' = MarkDirty({}, t)
  /\ partial_dirty' = MarkDirty({}, t)
  /\ last_diff_emit_ns' = 0
  /\ ohlc' = UpdateOhlc(NoOhlc, t)
  /\ UNCHANGED dropped_late_trades

\* The diff ticker fires at wall-clock time `now' and tick emits a Diff.
Tick(now) ==
  /\ task = "running"
  /\ dirty # {}
  /\ now - last_diff_emit_ns >= DiffIntervalNs
  /\ window # NoWindow
  /\ sequence' = sequence + 1
  /\ Publish(Diff(window, sequence + 1, CellsOf(dirty)))
  /\ dirty' = {}
  /\ last_diff_emit_ns' = now
  /\ UNCHANGED <<window, accum, partial_dirty, dropped_late_trades, ohlc,
                 task, history>>

\* The partial ticker fires and current_window_delta emits a delta.
CurrentWindowDelta ==
  /\ task = "running"
  /\ partial_dirty # {}
  /\ window # NoWindow
  /\ sequence' = sequence + 1
  /\ Publish(Snapshot(window, sequence + 1, CellsOf(partial_dirty), ohlc))
  /\ partial_dirty' = {}
  /\ UNCHANGED <<window, accum, dirty, last_diff_emit_ns,
                 dropped_late_trades, ohlc, task, history>>

\* recv() yields None (every sender dropped, the queue drained) with nothing
\* accumulated: flush returns None and the loop breaks.
CloseIdle ==
  /\ task = "running"
  /\ DOMAIN accum = {}
  /\ task' = "exited"
  /\ NoPublish
  /\ UNCHANGED <<state, history>>

\* recv() yields None with a window open: flush publishes it and resets.
CloseFlush ==
  /\ task = "running"
  /\ DOMAIN accum # {}
  /\ Publish(ClosingSnapshot)
  /\ task' = "exited"
  /\ window' = NoWindow
  /\ sequence' = 0
  /\ accum' = EmptyMap
  /\ dirty' = {}
  /\ partial_dirty' = {}
  /\ last_diff_emit_ns' = 0
  /\ ohlc' = NoOhlc
  /\ UNCHANGED <<dropped_late_trades, history>>

Next ==
  \/ \E t \in Trades : IngestLate(t) \/ IngestCurrent(t) \/ IngestRoll(t)
  \/ \E now \in Clock : Tick(now)
  \/ CurrentWindowDelta
  \/ CloseIdle
  \/ CloseFlush

Spec == Init /\ [][Next]_vars

-----------------------------------------------------------------------------
(* Properties.                                                             *)

\* Every variable has the type of its Rust counterpart.
TypeOK ==
  /\ window \in Nat \cup {NoWindow}
  /\ sequence \in Nat
  /\ accum \in [DOMAIN accum -> Cell] /\ DOMAIN accum \subseteq Nat
  /\ dirty \subseteq Nat
  /\ partial_dirty \subseteq Nat
  /\ last_diff_emit_ns \in Nat
  /\ dropped_late_trades \in Nat
  /\ ohlc \in Ohlc
  /\ task \in {"running", "exited"}
  /\ published.kind \in {"None", "Snapshot", "Diff"}
  /\ published.window \in Nat \cup {NoWindow}
  /\ published.sequence \in Nat
  /\ live \in [DOMAIN live -> Cell] /\ DOMAIN live \subseteq Nat \X Nat
  /\ table \in [DOMAIN table -> Row] /\ DOMAIN table \subseteq Nat \X Nat
  /\ history \in Seq(Trades)

\* tick and current_window_delta index the map with every dirty bucket
\* (`self.accum[&price]'), which panics on a missing key and would kill the
\* task: the dirty sets never name a bucket the map does not hold, and an
\* open window always has a start for the frame.
NoMissingBucket ==
  /\ dirty \cup partial_dirty \subseteq DOMAIN accum
  /\ DOMAIN accum # {} <=> window # NoWindow

\* What the live subscriber shows is never wrong.  Of the open window: only
\* buckets of the map, each exactly as the aggregator holds it once either
\* timer has emitted it since its last trade, although the two dirty sets are
\* cleared at their own pace; buckets may be missing (LiveComplete).  Of every
\* other window: the buckets and values that the table has, none missing, so
\* the closing Snapshot makes up for what the deltas before it removed.
LiveNeverWrong ==
  /\ \A k \in DOMAIN live : k[1] = window =>
       /\ k[2] \in DOMAIN accum
       /\ k[2] \in dirty \cap partial_dirty \/ live[k] = accum[k[2]]
  /\ \A k \in DOMAIN live \cup DOMAIN table : k[1] # window =>
       /\ k \in DOMAIN live \cap DOMAIN table
       /\ live[k] = table[k].cell

\* "Full state of the current (still-open) time window" (types.rs:168, of
\* AnalyticsSnapshot): every bucket that was emitted is on the subscriber's
\* screen.  Not so: a delta is a Snapshot of the buckets traded since the last
\* one, and whoever takes it for the whole window loses all others until they
\* trade again or the window closes.
LiveComplete ==
  \A b \in DOMAIN accum \ (dirty \cap partial_dirty) :
    <<window, b>> \in DOMAIN live

\* A bucket not waiting for the next delta is already stored exactly,
\* although Diffs never reach the table.
TableAgrees ==
  \A b \in DOMAIN accum \ partial_dirty :
    /\ <<window, b>> \in DOMAIN table
    /\ table[<<window, b>>].cell = accum[b]

\* Frames leave in an order a subscriber can check for gaps: the sequence
\* number of the frame before plus one in the same window, or 1 in a later
\* window; ticks, deltas and closing snapshots share the counter and a window
\* roll resets it.
SequenceGapFree ==
  [][ \/ /\ published'.window = published.window
         /\ published'.sequence = published.sequence + 1
      \/ /\ published'.window > published.window
         /\ published'.sequence = 1 ]_published

CellLeq(c, d) ==
  /\ c.bid_qty <= d.bid_qty
  /\ c.ask_qty <= d.ask_qty
  /\ c.trades <= d.trades

\* Every row written over another one is at least as full, which is why the
\* table may simply keep the last row per key: no closed window is written
\* again, and within a window the accumulators only grow.
RowsOnlyGrow ==
  [][ \A k \in DOMAIN table :
        k \in DOMAIN table' /\ CellLeq(table[k].cell, table'[k].cell) ]_table

(* The strengthening that makes the properties above inductive.            *)

\* No stored row is ahead of the aggregator: rows are of the open window or
\* of earlier ones, and a row of the open window is at most its accumulator.
RowsBehindAccum ==
  task = "running" =>
    \A k \in DOMAIN table :
      /\ window # NoWindow
      /\ k[1] <= window
      /\ k[1] = window => /\ k[2] \in DOMAIN accum
                          /\ CellLeq(table[k].cell, accum[k[2]])

\* The counter is the sequence number of the open window's last frame, or 0
\* while the window has published none.
SequenceTracksPublished ==
  task = "running" =>
    /\ published.window = NoWindow => published.sequence = 0
    /\ published.window <= window
    /\ published.window = window => sequence = published.sequence
    /\ published.window < window => sequence = 0

IInv ==
  /\ TypeOK
  /\ NoMissingBucket
  /\ LiveNeverWrong
  /\ TableAgrees
  /\ RowsBehindAccum
  /\ SequenceTracksPublished

=============================================================================
