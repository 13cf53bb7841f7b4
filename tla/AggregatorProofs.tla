--------------------------- MODULE AggregatorProofs ---------------------------
(***************************************************************************)
(* Invariants and action properties of the aggregator, and what its table  *)
(* holds compared with the list of all trades, for every bucket step,      *)
(* window length, diff interval, saturation limit, set of trades and       *)
(* clock, also where Snapshots are lost on the way to the table.           *)
(***************************************************************************)
EXTENDS AggregatorLossy, SequenceTheorems, FiniteSetTheorems, TLAPS

(* Facts about the arithmetic of ingest.                                   *)

\* Rounding a timestamp or a price down to its multiple stays in Nat.
LEMMA RoundDownNat ==
  ASSUME NEW n \in Nat, NEW d \in Nat \ {0}
  PROVE  (n \div d) * d \in Nat
<1>1. n \div d \in Nat
  OBVIOUS
<1>2. QED
  BY <1>1

\* A trade's window and bucket are naturals and its fields have their types.
LEMMA TradeTyped ==
  ASSUME NEW t \in Trades
  PROVE  /\ TradeWindow(t) \in Nat
         /\ BucketPrice(t) \in Nat
         /\ t.qty \in Nat
         /\ t.price \in Nat \ {0}
<1>1. t \in TradePrint
  BY AggregatorAssumption
<1>2. t.exchange_ts_ns \in Nat /\ t.price \in Nat \ {0} /\ t.qty \in Nat
  BY <1>1 DEF TradePrint
<1>3. TradeWindow(t) \in Nat
  BY <1>2, AggregatorAssumption, RoundDownNat DEF TradeWindow
<1>4. BucketPrice(t) \in Nat
  BY <1>2, AggregatorAssumption, RoundDownNat DEF BucketPrice
<1>5. QED
  BY <1>2, <1>3, <1>4

\* Booking a trade on a cell keeps its type and never lowers a component,
\* also when the sum saturates.
LEMMA AddTradeGrows ==
  ASSUME NEW t \in Trades, NEW c \in Cell
  PROVE  /\ AddTrade(c, t) \in Cell
         /\ CellLeq(c, AddTrade(c, t))
<1>1. t.qty \in Nat
  BY TradeTyped
<1>2. QED
  BY <1>1, AggregatorAssumption DEF Cell, AddTrade, SaturatingAdd, CellLeq

\* A bucket's accumulator before the trade: the stored one or the default.
LEMMA AccumulateFacts ==
  ASSUME NEW t \in Trades, NEW acc,
         acc \in [DOMAIN acc -> Cell], DOMAIN acc \subseteq Nat
  PROVE  LET b == BucketPrice(t)
             new == Accumulate(acc, t)
         IN  /\ new \in [DOMAIN new -> Cell]
             /\ DOMAIN new = DOMAIN acc \cup {b}
             /\ DOMAIN new \subseteq Nat
             /\ \A p \in DOMAIN acc : p # b => new[p] = acc[p]
             /\ \A p \in DOMAIN acc : CellLeq(acc[p], new[p])
<1> DEFINE b == BucketPrice(t)
           new == Accumulate(acc, t)
           old == IF b \in DOMAIN acc THEN acc[b] ELSE EmptyCell
<1>1. b \in Nat
  BY TradeTyped
<1>2. old \in Cell
  BY AggregatorAssumption DEF EmptyCell, Cell
<1>3. AddTrade(old, t) \in Cell /\ CellLeq(old, AddTrade(old, t))
  BY <1>2, AddTradeGrows
<1>4. new = [p \in DOMAIN acc \cup {b} |-> IF p # b THEN acc[p] ELSE AddTrade(old, t)]
  BY DEF Accumulate
<1>5. \A c \in Cell : CellLeq(c, c)
  BY AggregatorAssumption DEF Cell, CellLeq
<1> HIDE DEF b, new, old
<1>6. new \in [DOMAIN new -> Cell] /\ DOMAIN new = DOMAIN acc \cup {b}
  BY <1>3, <1>4
<1>7. \A p \in DOMAIN acc : p # b => new[p] = acc[p]
  BY <1>4
<1>8. \A p \in DOMAIN acc : CellLeq(acc[p], new[p])
  <2> SUFFICES ASSUME NEW p \in DOMAIN acc PROVE CellLeq(acc[p], new[p])
    OBVIOUS
  <2>1. CASE p = b
    <3>1. old = acc[p] /\ new[p] = AddTrade(old, t)
      BY <2>1, <1>4 DEF old
    <3>2. QED
      BY <3>1, <1>3
  <2>2. CASE p # b
    BY <2>2, <1>5, <1>7
  <2>3. QED
    BY <2>1, <2>2
<1>9. QED
  BY <1>1, <1>6, <1>7, <1>8 DEF b, new

\* Updating the OHLC with a trade keeps it typed.
LEMMA UpdateOhlcTyped ==
  ASSUME NEW t \in Trades, NEW o \in Ohlc
  PROVE  UpdateOhlc(o, t) \in Ohlc
<1>1. t.price \in Nat
  BY TradeTyped
<1>2. QED
  BY <1>1 DEF UpdateOhlc, Ohlc

-----------------------------------------------------------------------------
(* What publishing a well-formed frame does to the two views.              *)

GoodFrame(f) ==
  /\ f.kind \in {"Snapshot", "Diff"}
  /\ f.window \in Nat
  /\ f.sequence \in Nat
  /\ f.clusters \in [DOMAIN f.clusters -> Cell]
  /\ DOMAIN f.clusters \subseteq Nat
  /\ f.ohlc \in Ohlc

\* The keys of a frame are its window paired with each of its buckets.
LEMMA FrameKeysFacts ==
  ASSUME NEW f, GoodFrame(f)
  PROVE  /\ FrameKeys(f) \subseteq Nat \X Nat
         /\ \A b : <<f.window, b>> \in FrameKeys(f) <=> b \in DOMAIN f.clusters
         /\ \A k \in FrameKeys(f) : /\ k[1] = f.window
                                    /\ k[2] \in DOMAIN f.clusters
                                    /\ k = <<k[1], k[2]>>
BY DEF GoodFrame, FrameKeys

\* What publishing a frame does to the live subscriber's view.
LEMMA PublishLive ==
  ASSUME TypeOK, NEW f, GoodFrame(f), Publish(f)
  PROVE  /\ live' \in [DOMAIN live' -> Cell]
         /\ DOMAIN live' \subseteq Nat \X Nat
         /\ DOMAIN live' = DOMAIN Kept(f) \cup FrameKeys(f)
         /\ \A k \in FrameKeys(f) : live'[k] = f.clusters[k[2]]
         /\ \A k \in DOMAIN Kept(f) : /\ k \in DOMAIN live
                                      /\ f.kind = "Snapshot" => k[1] # f.window
                                      /\ k \notin FrameKeys(f) => live'[k] = live[k]
         /\ \A k \in DOMAIN live : k[1] # f.window => k \in DOMAIN Kept(f)
<1> DEFINE g == [k \in FrameKeys(f) |-> f.clusters[k[2]]]
           h == Kept(f)
<1>1. g \in [DOMAIN g -> Cell] /\ DOMAIN g = FrameKeys(f)
  BY FrameKeysFacts DEF GoodFrame
<1>2. live \in [DOMAIN live -> Cell] /\ DOMAIN live \subseteq Nat \X Nat
  BY DEF TypeOK
<1>3. live' = Upsert(h, g)
  BY DEF Publish
<1>4. \A k \in FrameKeys(f) : g[k] = f.clusters[k[2]]
  OBVIOUS
<1>5. /\ DOMAIN h = {k \in DOMAIN live : f.kind = "Snapshot" => k[1] # f.window}
      /\ \A k \in DOMAIN h : h[k] = live[k]
      /\ h \in [DOMAIN h -> Cell]
  BY <1>2 DEF Kept
<1> HIDE DEF g, h
<1>6. /\ DOMAIN live' = DOMAIN h \cup DOMAIN g
      /\ live' \in [DOMAIN live' -> Cell]
      /\ \A k \in DOMAIN g : live'[k] = g[k]
      /\ \A k \in DOMAIN h \ DOMAIN g : live'[k] = h[k]
  BY <1>1, <1>3, <1>5 DEF Upsert
<1>7. DOMAIN live' \subseteq Nat \X Nat
  BY <1>1, <1>2, <1>5, <1>6, FrameKeysFacts
<1>8. QED
  BY <1>1, <1>4, <1>5, <1>6, <1>7 DEF h

\* What publishing a Snapshot does to the table.
LEMMA PublishSnapshot ==
  ASSUME TypeOK, NEW f, GoodFrame(f), Publish(f), f.kind = "Snapshot"
  PROVE  /\ table' \in [DOMAIN table' -> Row]
         /\ DOMAIN table' = DOMAIN table \cup FrameKeys(f)
         /\ DOMAIN table' \subseteq Nat \X Nat
         /\ \A b \in DOMAIN f.clusters :
              /\ <<f.window, b>> \in DOMAIN table'
              /\ table'[<<f.window, b>>].cell = f.clusters[b]
         /\ \A k \in DOMAIN table \ FrameKeys(f) : table'[k] = table[k]
<1> DEFINE g == Rows(f)
<1>1. g \in [DOMAIN g -> Row] /\ DOMAIN g = FrameKeys(f)
  BY FrameKeysFacts DEF GoodFrame, Rows, Row
<1>2. table \in [DOMAIN table -> Row] /\ DOMAIN table \subseteq Nat \X Nat
  BY DEF TypeOK
<1>3. table' = Upsert(table, g)
  BY DEF Publish
<1>4. \A b \in DOMAIN f.clusters : g[<<f.window, b>>].cell = f.clusters[b]
  BY FrameKeysFacts DEF Rows
<1> HIDE DEF g
<1>5. /\ DOMAIN table' = DOMAIN table \cup DOMAIN g
      /\ table' \in [DOMAIN table' -> Row]
      /\ \A k \in DOMAIN g : table'[k] = g[k]
      /\ \A k \in DOMAIN table \ DOMAIN g : table'[k] = table[k]
  BY <1>1, <1>2, <1>3 DEF Upsert
<1>6. QED
  BY <1>1, <1>2, <1>4, <1>5, FrameKeysFacts

\* The frames the aggregator builds are well formed.
LEMMA ClosingFrame ==
  ASSUME TypeOK, NoMissingBucket, window # NoWindow
  PROVE  /\ GoodFrame(ClosingSnapshot)
         /\ ClosingSnapshot.kind = "Snapshot"
         /\ ClosingSnapshot.window = window
         /\ ClosingSnapshot.sequence = sequence + 1
         /\ ClosingSnapshot.clusters = accum
         /\ ClosingSnapshot.ohlc = ohlc
BY DEF TypeOK, GoodFrame, ClosingSnapshot, Snapshot, NoWindow

\* After a closing Snapshot the subscriber shows what the table holds, of the
\* window it closes and of all before.
LEMMA ClosedView ==
  ASSUME IInv, task = "running", window # NoWindow, Publish(ClosingSnapshot)
  PROVE  /\ \A k \in DOMAIN live' \cup DOMAIN table' :
              k \in DOMAIN live' \cap DOMAIN table' /\ live'[k] = table'[k].cell
         /\ \A k \in DOMAIN table' : k[1] <= window
<1> DEFINE f == ClosingSnapshot
<1>1. TypeOK /\ NoMissingBucket /\ LiveNeverWrong /\ RowsBehindAccum
  BY DEF IInv
<1>2. /\ GoodFrame(f) /\ f.kind = "Snapshot"
      /\ f.window = window /\ f.clusters = accum
  BY <1>1, ClosingFrame
<1>3. /\ DOMAIN live' = DOMAIN Kept(f) \cup FrameKeys(f)
      /\ \A k \in FrameKeys(f) : live'[k] = f.clusters[k[2]]
      /\ \A k \in DOMAIN Kept(f) \ FrameKeys(f) :
           k \in DOMAIN live /\ live'[k] = live[k] /\ k[1] # window
      /\ \A k \in DOMAIN live : k[1] # window => k \in DOMAIN Kept(f)
  BY <1>1, <1>2, PublishLive
<1>4. /\ DOMAIN table' = DOMAIN table \cup FrameKeys(f)
      /\ \A b \in DOMAIN f.clusters : table'[<<f.window, b>>].cell = f.clusters[b]
      /\ \A k \in DOMAIN table \ FrameKeys(f) : table'[k] = table[k]
  BY <1>1, <1>2, PublishSnapshot
<1>5. /\ \A k \in FrameKeys(f) : /\ k[1] = window /\ k[2] \in DOMAIN accum
                                 /\ k = <<window, k[2]>>
      /\ \A b : <<window, b>> \in FrameKeys(f) <=> b \in DOMAIN accum
  BY <1>2, FrameKeysFacts
<1> HIDE DEF f
<1>6. \A k \in DOMAIN table :
        k[1] <= window /\ (k[1] = window => k \in FrameKeys(f))
  <2> SUFFICES ASSUME NEW k \in DOMAIN table
               PROVE  k[1] <= window /\ (k[1] = window => k \in FrameKeys(f))
    OBVIOUS
  <2>1. k = <<k[1], k[2]>>
    BY <1>1 DEF TypeOK
  <2>2. QED
    BY <1>1, <1>5, <2>1 DEF RowsBehindAccum
<1>7. ASSUME NEW k \in DOMAIN live' \cup DOMAIN table'
      PROVE  k \in DOMAIN live' \cap DOMAIN table' /\ live'[k] = table'[k].cell
  <2>1. CASE k \in FrameKeys(f)
    BY <1>2, <1>3, <1>4, <1>5, <2>1
  <2>2. CASE k \notin FrameKeys(f)
    <3>1. k \in DOMAIN live \cup DOMAIN table /\ k[1] # window
      BY <1>3, <1>4, <1>6, <1>7, <2>2
    <3>2. k \in DOMAIN live \cap DOMAIN table /\ live[k] = table[k].cell
      BY <1>1, <3>1 DEF LiveNeverWrong
    <3>3. QED
      BY <1>3, <1>4, <2>2, <3>1, <3>2
  <2>3. QED
    BY <2>1, <2>2
<1>8. \A k \in FrameKeys(f) : k[1] <= window
  BY <1>1, <1>5 DEF TypeOK, NoWindow
<1>9. QED
  BY <1>4, <1>6, <1>7, <1>8

-----------------------------------------------------------------------------
(* Every step preserves the inductive invariant.                           *)

\* Aggregator::new establishes the inductive invariant.
LEMMA InitIInv == Init => IInv
<1> SUFFICES ASSUME Init PROVE IInv
  OBVIOUS
<1> USE DEF Init, NoWindow, EmptyMap, NoFrame, NoOhlc, EmptyCell
<1>1. TypeOK
  BY DEF TypeOK, Ohlc
<1>2. NoMissingBucket /\ LiveNeverWrong /\ TableAgrees
  BY DEF NoMissingBucket, LiveNeverWrong, TableAgrees
<1>3. RowsBehindAccum /\ SequenceTracksPublished
  BY DEF RowsBehindAccum, SequenceTracksPublished
<1>4. QED
  BY <1>1, <1>2, <1>3 DEF IInv

\* ingest of a late trade preserves it: only the counter changes.
LEMMA IngestLateStep ==
  ASSUME IInv, NEW t \in Trades, IngestLate(t)
  PROVE  IInv'
<1> USE DEF IngestLate, IsLate, Receive, NoPublish
<1>1. TypeOK'
  BY SMTT(30) DEF IInv, TypeOK
<1>2. NoMissingBucket' /\ LiveNeverWrong' /\ TableAgrees'
  BY DEF IInv, NoMissingBucket, LiveNeverWrong, TableAgrees
<1>3. RowsBehindAccum' /\ SequenceTracksPublished'
  BY DEF IInv, RowsBehindAccum, SequenceTracksPublished, CellLeq
<1>4. QED
  BY <1>1, <1>2, <1>3 DEF IInv

\* ingest into the open window preserves it: the traded bucket grows and is
\* put into both dirty sets.
LEMMA IngestCurrentStep ==
  ASSUME IInv, NEW t \in Trades, IngestCurrent(t)
  PROVE  IInv'
<1> DEFINE b == BucketPrice(t)
<1>1. TypeOK /\ NoMissingBucket
  BY DEF IInv
<1>2. TradeWindow(t) \in Nat /\ b \in Nat
  BY TradeTyped
<1>3. accum \in [DOMAIN accum -> Cell] /\ DOMAIN accum \subseteq Nat
  BY <1>1 DEF TypeOK
<1>4. accum' = Accumulate(accum, t)
  BY DEF IngestCurrent
<1>5. /\ accum' \in [DOMAIN accum' -> Cell]
      /\ DOMAIN accum' = DOMAIN accum \cup {b}
      /\ DOMAIN accum' \subseteq Nat
      /\ \A p \in DOMAIN accum : p # b => accum'[p] = accum[p]
      /\ \A p \in DOMAIN accum : CellLeq(accum[p], accum'[p])
  BY <1>3, <1>4, AccumulateFacts
<1>6. ohlc' \in Ohlc
  BY <1>1, UpdateOhlcTyped DEF IngestCurrent, TypeOK
<1>7. /\ dirty' = dirty \cup {b}
      /\ partial_dirty' = partial_dirty \cup {b}
      /\ window' = TradeWindow(t)
      /\ window = NoWindow \/ window' = window
      /\ task = "running" /\ task' = task
      /\ UNCHANGED <<sequence, last_diff_emit_ns, dropped_late_trades,
                     published, live, table>>
      /\ history' = Append(history, t)
  BY DEF IngestCurrent, MarkDirty, Receive, NoPublish
<1> HIDE DEF b
<1>8. DOMAIN accum # {} => window' = window
  BY <1>1, <1>7 DEF NoMissingBucket
<1>9. TypeOK'
  BY <1>1, <1>2, <1>5, <1>6, <1>7, SMTT(30) DEF TypeOK
<1>10. NoMissingBucket'
  BY <1>1, <1>2, <1>5, <1>7 DEF NoMissingBucket, NoWindow
<1>11. LiveNeverWrong'
  <2>1. /\ DOMAIN live \subseteq Nat \X Nat
        /\ \A k \in DOMAIN live : k[1] = window =>
             /\ k[2] \in DOMAIN accum
             /\ k[2] \in dirty \cap partial_dirty \/ live[k] = accum[k[2]]
        /\ \A k \in DOMAIN live \cup DOMAIN table : k[1] # window =>
             /\ k \in DOMAIN live \cap DOMAIN table
             /\ live[k] = table[k].cell
    BY <1>1 DEF IInv, LiveNeverWrong, TypeOK
  <2>2. \A k \in DOMAIN table : window # NoWindow
    BY <1>7 DEF IInv, RowsBehindAccum
  <2>3. \A k \in DOMAIN live \cup DOMAIN table : window' = window
    <3> SUFFICES ASSUME NEW k \in DOMAIN live \cup DOMAIN table, window = NoWindow
                 PROVE  FALSE
      BY <1>7
    <3>1. k \in DOMAIN live
      BY <2>2
    <3>2. k[1] # window
      BY <2>1, <3>1 DEF NoWindow
    <3>3. QED
      BY <2>1, <2>2, <3>2
  <2>4. ASSUME NEW k \in DOMAIN live', k[1] = window'
        PROVE  /\ k[2] \in DOMAIN accum'
               /\ k[2] \in dirty' \cap partial_dirty' \/ live'[k] = accum'[k[2]]
    <3>1. k \in DOMAIN live /\ live'[k] = live[k] /\ k[1] = window
      BY <1>7, <2>3, <2>4
    <3>2. CASE k[2] = b
      BY <1>5, <1>7, <3>2
    <3>3. CASE k[2] # b
      BY <1>5, <1>7, <2>1, <3>1, <3>3
    <3>4. QED
      BY <3>2, <3>3
  <2>5. ASSUME NEW k \in DOMAIN live' \cup DOMAIN table', k[1] # window'
        PROVE  k \in DOMAIN live' \cap DOMAIN table' /\ live'[k] = table'[k].cell
    BY <1>7, <2>1, <2>3, <2>5
  <2>6. QED
    BY <2>4, <2>5 DEF LiveNeverWrong
<1>12. TableAgrees'
  <2> SUFFICES ASSUME NEW p \in DOMAIN accum' \ partial_dirty'
               PROVE  /\ <<window', p>> \in DOMAIN table'
                      /\ table'[<<window', p>>].cell = accum'[p]
    BY Zenon DEF TableAgrees
  <2>1. p # b /\ p \in DOMAIN accum /\ p \notin partial_dirty
    BY <1>5, <1>7
  <2>2. window' = window /\ accum'[p] = accum[p]
    BY <1>5, <1>8, <2>1
  <2>3. QED
    BY <1>7, <2>1, <2>2 DEF IInv, TableAgrees
<1>13. RowsBehindAccum'
  <2> SUFFICES ASSUME NEW k \in DOMAIN table'
               PROVE  /\ window' # NoWindow
                      /\ k[1] <= window'
                      /\ k[1] = window' => /\ k[2] \in DOMAIN accum'
                                           /\ CellLeq(table'[k].cell, accum'[k[2]])
    BY DEF RowsBehindAccum
  <2>1. /\ k \in DOMAIN table /\ table'[k] = table[k]
        /\ window # NoWindow /\ k[1] <= window
        /\ k[1] = window => /\ k[2] \in DOMAIN accum
                            /\ CellLeq(table[k].cell, accum[k[2]])
    BY <1>7 DEF IInv, RowsBehindAccum
  <2>2. window' = window
    BY <1>7, <2>1
  <2>3. ASSUME k[1] = window
        PROVE  /\ k[2] \in DOMAIN accum'
               /\ CellLeq(table'[k].cell, accum'[k[2]])
    <3>1. /\ k[2] \in DOMAIN accum
          /\ CellLeq(table[k].cell, accum[k[2]])
          /\ CellLeq(accum[k[2]], accum'[k[2]])
      BY <2>1, <2>3, <1>5
    <3>2. table[k].cell \in Cell /\ accum[k[2]] \in Cell /\ accum'[k[2]] \in Cell
      BY <2>1, <3>1, <1>1, <1>5 DEF TypeOK, Row
    <3>3. QED
      BY <1>5, <2>1, <3>1, <3>2, AggregatorAssumption DEF CellLeq, Cell
  <2>4. QED
    BY <2>1, <2>2, <2>3
<1>14. SequenceTracksPublished'
  <2>1. /\ published.window = NoWindow => published.sequence = 0
        /\ published.window <= window
        /\ published.window = window => sequence = published.sequence
        /\ published.window < window => sequence = 0
    BY <1>7 DEF IInv, SequenceTracksPublished
  <2>2. window \in Nat \cup {NoWindow} /\ published.window \in Nat \cup {NoWindow}
        /\ published.sequence \in Nat
    BY <1>1 DEF TypeOK
  <2>3. CASE window' = window
    BY <1>7, <2>1, <2>3 DEF SequenceTracksPublished
  <2>4. CASE window = NoWindow
    BY <1>2, <1>7, <2>1, <2>2, <2>4 DEF SequenceTracksPublished, NoWindow
  <2>5. QED
    BY <1>7, <2>3, <2>4
<1>15. QED
  BY <1>9, <1>10, <1>11, <1>12, <1>13, <1>14 DEF IInv

\* ingest across a window roll preserves it: the closing snapshot stores every
\* bucket of the old window, and the new one starts with the trade's bucket.
LEMMA IngestRollStep ==
  ASSUME IInv, NEW t \in Trades, IngestRoll(t)
  PROVE  IInv'
<1> DEFINE b == BucketPrice(t)
           f == ClosingSnapshot
<1>1. TypeOK /\ NoMissingBucket
  BY DEF IInv
<1>2. TradeWindow(t) \in Nat /\ b \in Nat
  BY TradeTyped
<1>3. /\ dirty' = {b} /\ partial_dirty' = {b}
      /\ window # NoWindow
      /\ window' = TradeWindow(t) /\ window' > window
      /\ accum' = Accumulate(EmptyMap, t)
      /\ ohlc' = UpdateOhlc(NoOhlc, t)
      /\ sequence' = 0 /\ last_diff_emit_ns' = 0
      /\ task = "running" /\ task' = task
      /\ dropped_late_trades' = dropped_late_trades
      /\ history' = Append(history, t)
      /\ Publish(f)
  BY DEF IngestRoll, MarkDirty, Receive
<1>4. /\ accum' \in [DOMAIN accum' -> Cell]
      /\ DOMAIN accum' = {b}
      /\ DOMAIN accum' \subseteq Nat
  BY <1>3, AccumulateFacts DEF EmptyMap
<1>5. ohlc' \in Ohlc
  BY <1>3, UpdateOhlcTyped DEF NoOhlc, Ohlc
<1>6. /\ GoodFrame(f) /\ f.kind = "Snapshot"
      /\ f.window = window /\ f.sequence = sequence + 1
  BY <1>1, <1>3, ClosingFrame
<1>7. live' \in [DOMAIN live' -> Cell] /\ DOMAIN live' \subseteq Nat \X Nat
  BY <1>1, <1>3, <1>6, PublishLive
<1>8. /\ table' \in [DOMAIN table' -> Row]
      /\ DOMAIN table' = DOMAIN table \cup FrameKeys(f)
      /\ DOMAIN table' \subseteq Nat \X Nat
  BY <1>1, <1>3, <1>6, PublishSnapshot
<1>c. /\ \A k \in DOMAIN live' \cup DOMAIN table' :
           k \in DOMAIN live' \cap DOMAIN table' /\ live'[k] = table'[k].cell
      /\ \A k \in DOMAIN table' : k[1] <= window
  BY <1>3, ClosedView
<1>9. published' = f
  BY <1>3 DEF Publish
<1> HIDE DEF b, f
<1>10. TypeOK'
  BY <1>1, <1>2, <1>3, <1>4, <1>5, <1>6, <1>7, <1>8, <1>9 DEF TypeOK, GoodFrame
<1>11. NoMissingBucket' /\ TableAgrees'
  BY <1>2, <1>3, <1>4 DEF NoMissingBucket, TableAgrees, NoWindow
<1>d. LiveNeverWrong'
  <2>1. \A k \in DOMAIN live' : k[1] # window'
    <3> SUFFICES ASSUME NEW k \in DOMAIN live' PROVE k[1] # window'
      OBVIOUS
    <3>1. k \in DOMAIN table' /\ k[1] <= window /\ k[1] \in Nat /\ window \in Nat
      BY <1>1, <1>3, <1>7, <1>c DEF TypeOK
    <3>2. QED
      BY <1>2, <1>3, <3>1
  <2>2. QED
    BY <1>c, <2>1 DEF LiveNeverWrong
<1>12. RowsBehindAccum'
  <2> SUFFICES ASSUME NEW k \in DOMAIN table'
               PROVE  window' # NoWindow /\ k[1] < window'
    BY <1>8, <1>2, <1>3 DEF RowsBehindAccum
  <2>1. k[1] <= window
    BY <1>3, <1>6, <1>8, FrameKeysFacts DEF IInv, RowsBehindAccum, GoodFrame
  <2>2. k[1] \in Nat /\ window \in Nat
    BY <1>1, <1>3, <1>8 DEF TypeOK
  <2>3. QED
    BY <1>2, <1>3, <2>1, <2>2 DEF NoWindow
<1>13. SequenceTracksPublished'
  <2>1. window \in Nat /\ published'.window = window
    BY <1>1, <1>3, <1>6, <1>9 DEF TypeOK
  <2>2. QED
    BY <1>2, <1>3, <2>1 DEF SequenceTracksPublished, NoWindow
<1>14. QED
  BY <1>10, <1>11, <1>d, <1>12, <1>13 DEF IInv

\* tick preserves it: the Diff brings the dirty buckets up to date for live
\* subscribers and leaves the table alone.
LEMMA TickStep ==
  ASSUME IInv, NEW now \in Clock, Tick(now)
  PROVE  IInv'
<1> DEFINE f == Diff(window, sequence + 1, CellsOf(dirty))
<1>1. TypeOK /\ NoMissingBucket
  BY DEF IInv
<1>2. /\ Publish(f) /\ published' = f
      /\ dirty' = {}
      /\ sequence' = sequence + 1
      /\ last_diff_emit_ns' = now
      /\ task = "running" /\ window # NoWindow
      /\ UNCHANGED <<window, accum, partial_dirty, dropped_late_trades, ohlc,
                     task, history>>
  BY DEF Tick, Publish
<1>3. /\ DOMAIN f.clusters = dirty
      /\ \A b \in dirty : f.clusters[b] = accum[b]
      /\ f.kind = "Diff" /\ f.window = window /\ f.sequence = sequence + 1
  BY DEF Diff, CellsOf
<1>4. GoodFrame(f)
  BY <1>1, <1>2, SMTT(30) DEF TypeOK, NoMissingBucket, GoodFrame, Diff, CellsOf, NoOhlc,
                    Ohlc, NoWindow
<1>5. table' = table
  BY <1>2, <1>3 DEF Publish
<1>6. /\ live' \in [DOMAIN live' -> Cell]
      /\ DOMAIN live' \subseteq Nat \X Nat
      /\ DOMAIN live' = DOMAIN Kept(f) \cup FrameKeys(f)
      /\ \A k \in FrameKeys(f) : live'[k] = f.clusters[k[2]]
      /\ \A k \in DOMAIN Kept(f) \ FrameKeys(f) :
           k \in DOMAIN live /\ live'[k] = live[k]
      /\ \A k \in DOMAIN live : k[1] # window => k \in DOMAIN Kept(f)
  BY <1>1, <1>2, <1>3, <1>4, PublishLive
<1>7. /\ \A k \in FrameKeys(f) : k[1] = window /\ k[2] \in dirty
      /\ \A k \in DOMAIN live \cup DOMAIN table :
           k[1] = window /\ k[2] \in dirty => k \in FrameKeys(f)
  <2>1. \A k \in DOMAIN live \cup DOMAIN table : k = <<k[1], k[2]>>
    BY <1>1 DEF TypeOK
  <2>2. QED
    BY <1>3, <1>4, <2>1, FrameKeysFacts
<1> HIDE DEF f
<1>8. TypeOK'
  <2>1. now \in Nat
    BY AggregatorAssumption
  <2>2. /\ published'.kind = "Diff" /\ published'.window \in Nat
        /\ published'.sequence \in Nat
    BY <1>2, <1>3, <1>4 DEF GoodFrame
  <2>3. QED
    BY <1>1, <1>2, <1>5, <1>6, <2>1, <2>2 DEF TypeOK
<1>9. NoMissingBucket' /\ TableAgrees' /\ RowsBehindAccum'
  BY <1>1, <1>2, <1>5 DEF IInv, NoMissingBucket, TableAgrees, RowsBehindAccum,
                          CellLeq
<1>10. LiveNeverWrong'
  <2>1. ASSUME NEW k \in DOMAIN live', k[1] = window
        PROVE  k[2] \in DOMAIN accum /\ live'[k] = accum[k[2]]
    <3>1. CASE k \in FrameKeys(f)
      BY <1>1, <1>3, <1>6, <1>7, <3>1 DEF NoMissingBucket
    <3>2. CASE k \notin FrameKeys(f)
      <4>1. k \in DOMAIN live /\ live'[k] = live[k]
        BY <1>6, <2>1, <3>2
      <4>2. k[2] \notin dirty
        BY <1>7, <2>1, <3>2, <4>1
      <4>3. QED
        BY <2>1, <4>1, <4>2 DEF IInv, LiveNeverWrong
    <3>3. QED
      BY <3>1, <3>2
  <2>2. ASSUME NEW k \in DOMAIN live' \cup DOMAIN table', k[1] # window
        PROVE  k \in DOMAIN live' \cap DOMAIN table' /\ live'[k] = table'[k].cell
    <3>1. k \notin FrameKeys(f)
      BY <1>7, <2>2
    <3>2. k \in DOMAIN live \cup DOMAIN table
      BY <1>5, <1>6, <2>2, <3>1
    <3>3. k \in DOMAIN live \cap DOMAIN table /\ live[k] = table[k].cell
      BY <2>2, <3>2 DEF IInv, LiveNeverWrong
    <3>4. QED
      BY <1>5, <1>6, <2>2, <3>1, <3>3
  <2>3. QED
    BY <1>2, <2>1, <2>2 DEF LiveNeverWrong
<1>11. SequenceTracksPublished'
  BY <1>1, <1>2, <1>3 DEF SequenceTracksPublished, TypeOK, NoWindow
<1>12. QED
  BY <1>8, <1>9, <1>10, <1>11 DEF IInv

\* current_window_delta preserves it: the delta brings both views up to date
\* on the buckets it clears from partial_dirty.
LEMMA CurrentWindowDeltaStep ==
  ASSUME IInv, CurrentWindowDelta
  PROVE  IInv'
<1> DEFINE f == Snapshot(window, sequence + 1, CellsOf(partial_dirty), ohlc)
<1>1. TypeOK /\ NoMissingBucket
  BY DEF IInv
<1>2. /\ Publish(f) /\ published' = f
      /\ partial_dirty' = {}
      /\ sequence' = sequence + 1
      /\ task = "running" /\ window # NoWindow
      /\ UNCHANGED <<window, accum, dirty, last_diff_emit_ns,
                     dropped_late_trades, ohlc, task, history>>
  BY DEF CurrentWindowDelta, Publish
<1>3. /\ DOMAIN f.clusters = partial_dirty
      /\ \A b \in partial_dirty : f.clusters[b] = accum[b]
      /\ f.kind = "Snapshot" /\ f.window = window /\ f.sequence = sequence + 1
  BY DEF Snapshot, CellsOf
<1>4. GoodFrame(f)
  BY <1>1, <1>2 DEF TypeOK, NoMissingBucket, GoodFrame, Snapshot, CellsOf,
                    NoWindow
<1>5. /\ table' \in [DOMAIN table' -> Row]
      /\ DOMAIN table' = DOMAIN table \cup FrameKeys(f)
      /\ DOMAIN table' \subseteq Nat \X Nat
      /\ \A b \in partial_dirty :
           /\ <<window, b>> \in DOMAIN table'
           /\ table'[<<window, b>>].cell = accum[b]
      /\ \A k \in DOMAIN table \ FrameKeys(f) : table'[k] = table[k]
  BY <1>1, <1>2, <1>3, <1>4, PublishSnapshot
<1> HIDE DEF f
<1>6. /\ live' \in [DOMAIN live' -> Cell]
      /\ DOMAIN live' \subseteq Nat \X Nat
      /\ DOMAIN live' = DOMAIN Kept(f) \cup FrameKeys(f)
      /\ \A k \in FrameKeys(f) : live'[k] = f.clusters[k[2]]
      /\ \A k \in DOMAIN Kept(f) \ FrameKeys(f) :
           k \in DOMAIN live /\ live'[k] = live[k] /\ k[1] # window
      /\ \A k \in DOMAIN live : k[1] # window => k \in DOMAIN Kept(f)
  BY <1>1, <1>2, <1>3, <1>4, PublishLive
<1>7. /\ \A b : <<window, b>> \in FrameKeys(f) <=> b \in partial_dirty
      /\ \A k \in FrameKeys(f) : /\ k[1] = window
                                 /\ k[2] \in partial_dirty
                                 /\ k = <<window, k[2]>>
  BY <1>3, <1>4, FrameKeysFacts
<1>8. TypeOK'
  BY <1>1, <1>2, <1>3, <1>5, <1>6 DEF TypeOK
<1>9. NoMissingBucket'
  BY <1>1, <1>2 DEF NoMissingBucket
<1>10. LiveNeverWrong'
  <2>1. ASSUME NEW k \in DOMAIN live', k[1] = window
        PROVE  k[2] \in DOMAIN accum /\ live'[k] = accum[k[2]]
    <3>1. k \in FrameKeys(f)
      BY <1>6, <2>1
    <3>2. QED
      BY <1>1, <1>3, <1>6, <1>7, <3>1 DEF NoMissingBucket
  <2>2. ASSUME NEW k \in DOMAIN live' \cup DOMAIN table', k[1] # window
        PROVE  k \in DOMAIN live' \cap DOMAIN table' /\ live'[k] = table'[k].cell
    <3>1. k \notin FrameKeys(f)
      BY <1>7, <2>2
    <3>2. k \in DOMAIN live \cup DOMAIN table
      BY <1>5, <1>6, <2>2, <3>1
    <3>3. k \in DOMAIN live \cap DOMAIN table /\ live[k] = table[k].cell
      BY <2>2, <3>2 DEF IInv, LiveNeverWrong
    <3>4. QED
      BY <1>5, <1>6, <2>2, <3>1, <3>3
  <2>3. QED
    BY <1>2, <2>1, <2>2 DEF LiveNeverWrong
<1>11. TableAgrees'
  <2> SUFFICES ASSUME NEW b \in DOMAIN accum
               PROVE  /\ <<window, b>> \in DOMAIN table'
                      /\ table'[<<window, b>>].cell = accum[b]
    BY <1>2 DEF TableAgrees
  <2>1. CASE b \in partial_dirty
    BY <1>5, <2>1
  <2>2. CASE b \notin partial_dirty
    <3>1. /\ <<window, b>> \in DOMAIN table
          /\ table[<<window, b>>].cell = accum[b]
      BY <2>2 DEF IInv, TableAgrees
    <3>2. QED
      BY <1>5, <1>7, <2>2, <3>1
  <2>3. QED
    BY <2>1, <2>2
<1>12. RowsBehindAccum'
  <2> SUFFICES ASSUME NEW k \in DOMAIN table'
               PROVE  /\ k[1] <= window
                      /\ k[1] = window => /\ k[2] \in DOMAIN accum
                                          /\ CellLeq(table'[k].cell, accum[k[2]])
    BY <1>2 DEF RowsBehindAccum
  <2>1. CASE k \in FrameKeys(f)
    <3>1. /\ k[1] = window /\ k[2] \in DOMAIN accum
          /\ table'[k].cell = accum[k[2]]
      BY <1>1, <1>5, <1>7, <2>1 DEF NoMissingBucket
    <3>2. accum[k[2]] \in Cell /\ window \in Nat
      BY <1>1, <1>2, <3>1 DEF TypeOK
    <3>3. QED
      BY <3>1, <3>2, AggregatorAssumption DEF CellLeq, Cell
  <2>2. CASE k \notin FrameKeys(f)
    BY <1>2, <1>5, <2>2 DEF IInv, RowsBehindAccum
  <2>3. QED
    BY <2>1, <2>2
<1>13. SequenceTracksPublished'
  BY <1>1, <1>2, <1>3 DEF SequenceTracksPublished, TypeOK, NoWindow
<1>14. QED
  BY <1>8, <1>9, <1>10, <1>11, <1>12, <1>13 DEF IInv

\* The end of an empty aggregator preserves it.
LEMMA CloseIdleStep ==
  ASSUME IInv, CloseIdle
  PROVE  IInv'
<1> USE DEF CloseIdle, NoPublish, state
<1>1. TypeOK'
  BY DEF IInv, TypeOK
<1>2. NoMissingBucket' /\ LiveNeverWrong' /\ TableAgrees'
  BY DEF IInv, NoMissingBucket, LiveNeverWrong, TableAgrees
<1>3. RowsBehindAccum' /\ SequenceTracksPublished'
  BY DEF RowsBehindAccum, SequenceTracksPublished
<1>4. QED
  BY <1>1, <1>2, <1>3 DEF IInv

\* flush at the end of the stream preserves it.
LEMMA CloseFlushStep ==
  ASSUME IInv, CloseFlush
  PROVE  IInv'
<1> DEFINE f == ClosingSnapshot
<1>1. TypeOK /\ NoMissingBucket /\ window # NoWindow
  BY DEF IInv, NoMissingBucket, CloseFlush
<1>2. /\ Publish(f) /\ published' = f
      /\ task' = "exited" /\ window' = NoWindow /\ sequence' = 0
      /\ accum' = EmptyMap /\ dirty' = {} /\ partial_dirty' = {}
      /\ last_diff_emit_ns' = 0 /\ ohlc' = NoOhlc
      /\ UNCHANGED <<dropped_late_trades, history>>
  BY DEF CloseFlush, Publish
<1>3. /\ GoodFrame(f) /\ f.kind = "Snapshot"
  BY <1>1, ClosingFrame
<1>4. live' \in [DOMAIN live' -> Cell] /\ DOMAIN live' \subseteq Nat \X Nat
  BY <1>1, <1>2, <1>3, PublishLive
<1>c. \A k \in DOMAIN live' \cup DOMAIN table' :
        k \in DOMAIN live' \cap DOMAIN table' /\ live'[k] = table'[k].cell
  BY <1>1, <1>2, ClosedView DEF CloseFlush
<1>5. table' \in [DOMAIN table' -> Row] /\ DOMAIN table' \subseteq Nat \X Nat
  BY <1>1, <1>2, <1>3, PublishSnapshot
<1> HIDE DEF f
<1>6. TypeOK'
  BY <1>1, <1>2, <1>3, <1>4, <1>5
     DEF TypeOK, GoodFrame, EmptyMap, NoOhlc, Ohlc
<1>7. NoMissingBucket' /\ TableAgrees'
  BY <1>2 DEF NoMissingBucket, TableAgrees, EmptyMap
<1>d. LiveNeverWrong'
  <2>1. \A k \in DOMAIN live' : k[1] # window'
    BY <1>2, <1>4 DEF NoWindow
  <2>2. QED
    BY <1>c, <2>1 DEF LiveNeverWrong
<1>8. RowsBehindAccum' /\ SequenceTracksPublished'
  BY <1>2 DEF RowsBehindAccum, SequenceTracksPublished
<1>9. QED
  BY <1>6, <1>7, <1>d, <1>8 DEF IInv

-----------------------------------------------------------------------------
(* The theorems.                                                           *)

\* Every step of the task preserves the inductive invariant.
LEMMA NextIInv == IInv /\ [Next]_vars => IInv'
<1> SUFFICES ASSUME IInv, [Next]_vars PROVE IInv'
  OBVIOUS
<1>1. CASE UNCHANGED vars
  BY <1>1 DEF vars, state, IInv, TypeOK, NoMissingBucket, LiveNeverWrong,
              TableAgrees, RowsBehindAccum, SequenceTracksPublished, CellLeq
<1>2. CASE \E t \in Trades : IngestLate(t) \/ IngestCurrent(t) \/ IngestRoll(t)
  BY <1>2, IngestLateStep, IngestCurrentStep, IngestRollStep
<1>3. CASE \E now \in Clock : Tick(now)
  BY <1>3, TickStep
<1>4. CASE CurrentWindowDelta
  BY <1>4, CurrentWindowDeltaStep
<1>5. CASE CloseIdle
  BY <1>5, CloseIdleStep
<1>6. CASE CloseFlush
  BY <1>6, CloseFlushStep
<1>7. QED
  BY <1>1, <1>2, <1>3, <1>4, <1>5, <1>6 DEF Next

\* The inductive invariant holds in every reachable state of run_aggregator.
THEOREM Invariance == Spec => []IInv
  BY InitIInv, NextIInv, PTL DEF Spec

\* The aggregator's state stays in its types: quantities and trade counters
\* never leave i64 and u32, whatever arrives (aggregator.rs, ingest).
THEOREM TypeCorrect == Spec => []TypeOK
<1>1. IInv => TypeOK
  BY DEF IInv
<1>2. QED
  BY Invariance, <1>1, PTL

\* tick and current_window_delta never index a bucket the map lacks.
THEOREM NoPanic == Spec => []NoMissingBucket
<1>1. IInv => NoMissingBucket
  BY DEF IInv
<1>2. QED
  BY Invariance, <1>1, PTL

\* The table holds the exact value of every bucket that is not waiting for the
\* next delta (aggregator.rs, current_window_delta).
THEOREM TableViewAgrees == Spec => []TableAgrees
<1>1. IInv => TableAgrees
  BY DEF IInv
<1>2. QED
  BY Invariance, <1>1, PTL

\* A subscriber for whom a Snapshot is the full state of its window never shows
\* a wrong bucket, and shows every closed window whole.
THEOREM LiveViewSound == Spec => []LiveNeverWrong
<1>1. IInv => LiveNeverWrong
  BY DEF IInv
<1>2. QED
  BY Invariance, <1>1, PTL

\* Sequence numbers of published frames have no gap and no repetition.
THEOREM SequenceOrder == Spec => SequenceGapFree
<1> DEFINE Step == \/ /\ published'.window = published.window
                      /\ published'.sequence = published.sequence + 1
                   \/ /\ published'.window > published.window
                      /\ published'.sequence = 1
<1>1. IInv /\ [Next]_vars => [Step]_published
  <2> SUFFICES ASSUME IInv, [Next]_vars, published' # published
               PROVE  Step
    OBVIOUS
  <2>1. TypeOK /\ NoMissingBucket
    BY DEF IInv
  <2>2. \/ \E t \in Trades : IngestRoll(t)
        \/ \E now \in Clock : Tick(now)
        \/ CurrentWindowDelta
        \/ CloseFlush
    BY DEF Next, vars, IngestLate, IngestCurrent, CloseIdle, NoPublish
  <2>3. task = "running" /\ window # NoWindow
    BY <2>1, <2>2 DEF IngestRoll, Receive, Tick, CurrentWindowDelta, CloseFlush,
                      NoMissingBucket
  <2>4. published'.window = window /\ published'.sequence = sequence + 1
    <3>1. CASE (\E t \in Trades : IngestRoll(t)) \/ CloseFlush
      BY <3>1, <2>1, <2>3, ClosingFrame DEF IngestRoll, CloseFlush, Publish
    <3>2. CASE \E now \in Clock : Tick(now)
      BY <3>2 DEF Tick, Publish, Diff
    <3>3. CASE CurrentWindowDelta
      BY <3>3 DEF CurrentWindowDelta, Publish, Snapshot
    <3>4. QED
      BY <2>2, <3>1, <3>2, <3>3
  <2>5. /\ published.window <= window
        /\ published.window = window => sequence = published.sequence
        /\ published.window < window => sequence = 0
    BY <2>3 DEF IInv, SequenceTracksPublished
  <2>6. QED
    BY <2>1, <2>3, <2>4, <2>5 DEF TypeOK, NoWindow
<1>2. QED
  BY Invariance, <1>1, PTL DEF Spec, SequenceGapFree

\* A row is only ever overwritten by one at least as full, which is what makes
\* "the last row written for a key wins" the right rule for the table.
THEOREM RowsGrow == Spec => RowsOnlyGrow
<1> DEFINE Step == \A k \in DOMAIN table :
                     k \in DOMAIN table' /\ CellLeq(table[k].cell, table'[k].cell)
<1>1. IInv /\ [Next]_vars => [Step]_table
  <2> SUFFICES ASSUME IInv, [Next]_vars, table' # table, NEW k \in DOMAIN table
               PROVE  k \in DOMAIN table' /\ CellLeq(table[k].cell, table'[k].cell)
    OBVIOUS
  <2>1. TypeOK /\ NoMissingBucket
    BY DEF IInv
  <2>2. \A c \in Cell : CellLeq(c, c)
    BY AggregatorAssumption DEF Cell, CellLeq
  <2>3. table[k].cell \in Cell /\ k = <<k[1], k[2]>>
    BY <2>1 DEF TypeOK, Row
  <2>4. \/ \E t \in Trades : IngestRoll(t)
        \/ CurrentWindowDelta
        \/ CloseFlush
    BY DEF Next, vars, IngestLate, IngestCurrent, CloseIdle, NoPublish, Tick,
           Publish, Diff
  <2>5. task = "running" /\ window # NoWindow
    BY <2>1, <2>4 DEF IngestRoll, Receive, CurrentWindowDelta, CloseFlush,
                      NoMissingBucket
  <2>6. PICK f : /\ GoodFrame(f) /\ Publish(f) /\ f.kind = "Snapshot"
                 /\ f.window = window
                 /\ \A b \in DOMAIN f.clusters : f.clusters[b] = accum[b]
    <3>1. CASE (\E t \in Trades : IngestRoll(t)) \/ CloseFlush
      <4>1. Publish(ClosingSnapshot)
        BY <3>1 DEF IngestRoll, CloseFlush
      <4>2. /\ GoodFrame(ClosingSnapshot)
            /\ ClosingSnapshot.kind = "Snapshot"
            /\ ClosingSnapshot.window = window
            /\ ClosingSnapshot.clusters = accum
        BY <2>1, <2>5, ClosingFrame
      <4>3. QED
        BY <4>1, <4>2
    <3>2. CASE CurrentWindowDelta
      <4> DEFINE f == Snapshot(window, sequence + 1, CellsOf(partial_dirty), ohlc)
      <4>1. Publish(f)
        BY <3>2 DEF CurrentWindowDelta
      <4>2. GoodFrame(f)
        BY <2>1, <2>5 DEF TypeOK, NoMissingBucket, GoodFrame, Snapshot, CellsOf,
                          NoWindow
      <4>3. /\ f.kind = "Snapshot" /\ f.window = window
            /\ \A b \in DOMAIN f.clusters : f.clusters[b] = accum[b]
        BY DEF Snapshot, CellsOf
      <4>4. QED
        BY <4>1, <4>2, <4>3
    <3>3. QED
      BY <2>4, <3>1, <3>2
  <2>7. k \in DOMAIN table'
    BY <2>1, <2>6, PublishSnapshot
  <2>8. CASE k \in FrameKeys(f)
    <3>1. k[1] = window /\ k[2] \in DOMAIN f.clusters
      BY <2>6, <2>8, FrameKeysFacts
    <3>2. table'[k].cell = accum[k[2]]
      <4>1. \A b \in DOMAIN f.clusters :
              table'[<<f.window, b>>].cell = f.clusters[b]
        BY <2>1, <2>6, PublishSnapshot
      <4>2. k = <<f.window, k[2]>>
        BY <2>3, <2>6, <3>1
      <4>3. table'[<<f.window, k[2]>>].cell = f.clusters[k[2]]
        BY <3>1, <4>1
      <4>4. QED
        BY <2>6, <3>1, <4>2, <4>3
    <3>3. CellLeq(table[k].cell, accum[k[2]])
      BY <2>5, <3>1 DEF IInv, RowsBehindAccum
    <3>4. QED
      BY <2>7, <3>2, <3>3
  <2>9. CASE k \notin FrameKeys(f)
    BY <2>1, <2>2, <2>3, <2>6, <2>7, <2>9, PublishSnapshot
  <2>10. QED
    BY <2>8, <2>9
<1>2. QED
  BY Invariance, <1>1, PTL DEF Spec, RowsOnlyGrow

-----------------------------------------------------------------------------
(* The reference definitions of module Footprints, when one more trade is  *)
(* received.                                                               *)

\* The list of trades after one more.
LEMMA AppendFacts ==
  ASSUME NEW h \in Seq(Trades), NEW t \in Trades
  PROVE  /\ Append(h, t) \in Seq(Trades)
         /\ Len(h) \in Nat
         /\ DOMAIN h = 1..Len(h)
         /\ DOMAIN Append(h, t) = 1..(Len(h) + 1)
         /\ \A i \in DOMAIN h : Append(h, t)[i] = h[i] /\ h[i] \in Trades
         /\ Append(h, t)[Len(h) + 1] = t
<1>1. /\ Append(h, t) \in Seq(Trades) /\ Len(Append(h, t)) = Len(h) + 1
      /\ \A i \in 1..Len(h) : Append(h, t)[i] = h[i]
      /\ Append(h, t)[Len(h) + 1] = t
  BY AppendProperties
<1>2. QED
  BY <1>1

\* The new trade is accepted when no trade before is of a later window, and
\* no other trade's acceptance changes.
LEMMA AcceptedAppend ==
  ASSUME NEW h \in Seq(Trades), NEW t \in Trades, NEW w
  PROVE  /\ Accepted(h, w) \subseteq 1..Len(h)
         /\ Accepted(Append(h, t), w)
              = Accepted(h, w)
                  \cup (IF /\ TradeWindow(t) = w
                           /\ \A j \in DOMAIN h : TradeWindow(h[j]) <= w
                        THEN {Len(h) + 1} ELSE {})
<1> DEFINE g == Append(h, t)
           n == Len(h) + 1
           Ok(s, i) == /\ TradeWindow(s[i]) = w
                       /\ \A j \in 1..(i - 1) : TradeWindow(s[j]) <= w
<1>1. /\ Len(h) \in Nat /\ DOMAIN h = 1..Len(h) /\ DOMAIN g = 1..n
      /\ \A i \in DOMAIN h : g[i] = h[i]
      /\ g[n] = t
  BY AppendFacts
<1>2. /\ Accepted(h, w) = {i \in DOMAIN h : Ok(h, i)}
      /\ Accepted(g, w) = {i \in DOMAIN g : Ok(g, i)}
  BY DEF Accepted
<1> HIDE DEF g
<1>3. \A i \in DOMAIN h : Ok(g, i) <=> Ok(h, i)
  <2> TAKE i \in DOMAIN h
  <2>1. 1..(i - 1) \subseteq DOMAIN h
    BY <1>1
  <2>2. QED
    BY <1>1, <2>1
<1>4. Ok(g, n) <=> TradeWindow(t) = w /\ \A j \in DOMAIN h : TradeWindow(h[j]) <= w
  <2>1. 1..(n - 1) = DOMAIN h
    BY <1>1
  <2>2. QED
    BY <1>1, <2>1
<1>5. DOMAIN g = DOMAIN h \cup {n}
  BY <1>1
<1> HIDE DEF Ok, n
<1>6. Accepted(g, w)
        = Accepted(h, w)
            \cup (IF /\ TradeWindow(t) = w
                     /\ \A j \in DOMAIN h : TradeWindow(h[j]) <= w
                  THEN {n} ELSE {})
  BY <1>2, <1>3, <1>4, <1>5
<1>7. Accepted(h, w) \subseteq 1..Len(h)
  BY <1>1, <1>2
<1>8. QED
  BY <1>6, <1>7 DEF g, n

\* Unit u is one that trade t, received i-th, moved on the side.
Moves(t, i, side, u) == t.aggressor = side /\ u \in {i} \X (1..t.qty)

\* A unit belongs to one of the trades.
LEMMA UnitsElement ==
  ASSUME NEW h, NEW is, NEW side, NEW u
  PROVE  u \in Units(h, is, side) <=> \E i \in is : Moves(h[i], i, side, u)
BY DEF Units, Moves

\* There are q numbers from 1 to q.
LEMMA UpTo ==
  ASSUME NEW q \in Nat
  PROVE  IsFiniteSet(1..q) /\ Cardinality(1..q) = q
BY FS_Interval

\* Finitely many units are traded.
LEMMA UnitsFinite ==
  ASSUME NEW h \in Seq(Trades), NEW is \in SUBSET (1..Len(h)), NEW side
  PROVE  IsFiniteSet(Units(h, is, side))
<1> DEFINE js == {j \in is : h[j].aggressor = side}
           U(i) == {i} \X (1..h[i].qty)
           f == [i \in js |-> U(i)]
           img == {U(i) : i \in js}
<1>1. \A i \in js : h[i] \in Trades
  OBVIOUS
<1>2. \A i \in js : h[i].qty \in Nat
  BY <1>1, TradeTyped
<1>3. IsFiniteSet(js)
  <2>1. Len(h) \in Nat
    OBVIOUS
  <2>2. IsFiniteSet(1..Len(h))
    BY <2>1, FS_Interval
  <2>3. js \in SUBSET (1..Len(h))
    OBVIOUS
  <2>4. QED
    BY <2>2, <2>3, FS_Subset
<1>4. f \in Surjection(js, img)
  BY DEF Surjection
<1>5. IsFiniteSet(img)
  BY <1>3, <1>4, FS_Surjection
<1>6. \A T \in img : IsFiniteSet(T)
  <2> TAKE T \in img
  <2>1. PICK i \in js : T = {i} \X (1..h[i].qty)
    OBVIOUS
  <2>2. h[i].qty \in Nat
    BY <1>2
  <2>3. IsFiniteSet(1..h[i].qty)
    BY <2>2, UpTo
  <2>4. IsFiniteSet({i})
    BY FS_Singleton
  <2>5. QED
    BY <2>1, <2>3, <2>4, FS_Product
<1>7. IsFiniteSet(UNION img)
  BY <1>5, <1>6, FS_UNION
<1>8. Units(h, is, side) = UNION img
  BY DEF Units
<1>9. QED
  BY <1>7, <1>8

\* The volume of trades received before does not depend on later ones, and
\* the new trade adds its quantity to its aggressor's side.
LEMMA VolumeAppend ==
  ASSUME NEW h \in Seq(Trades), NEW t \in Trades,
         NEW is \in SUBSET (1..Len(h)), NEW side
  PROVE  /\ Volume(h, is, side) \in Nat
         /\ Volume(Append(h, t), is, side) = Volume(h, is, side)
         /\ Volume(Append(h, t), is \cup {Len(h) + 1}, side)
              = Volume(h, is, side) + (IF t.aggressor = side THEN t.qty ELSE 0)
<1> DEFINE g == Append(h, t)
           n == Len(h) + 1
           V == Units(h, is, side)
           N == {n} \X (1..t.qty)
<1>1. /\ Len(h) \in Nat
      /\ \A i \in is : g[i] = h[i]
      /\ g[n] = t
      /\ n \notin is
  BY AppendFacts
<1>2. IsFiniteSet(V)
  BY UnitsFinite
<1>3. Cardinality(V) \in Nat
  BY <1>2, FS_CardinalityType
<1>4. t.qty \in Nat
  BY TradeTyped
<1>5. IsFiniteSet(N) /\ Cardinality(N) = t.qty
  <2>1. IsFiniteSet(1..t.qty) /\ Cardinality(1..t.qty) = t.qty
    BY <1>4, UpTo
  <2>2. IsFiniteSet({n}) /\ Cardinality({n}) = 1
    BY FS_Singleton
  <2>3. IsFiniteSet(N) /\ Cardinality(N) = Cardinality({n}) * Cardinality(1..t.qty)
    BY <2>1, <2>2, FS_Product
  <2>4. QED
    BY <1>4, <2>1, <2>2, <2>3
<1> HIDE DEF g, n
<1>6. Units(g, is, side) = V
  <2>1. \A u : u \in Units(g, is, side) <=> u \in V
    BY <1>1, UnitsElement
  <2>2. QED
    BY <2>1, Zenon
<1>7. \A u : u \in Units(g, is \cup {n}, side) <=> u \in V \/ Moves(t, n, side, u)
  <2> TAKE u
  <2>1. u \in Units(g, is \cup {n}, side)
          <=> \E i \in is \cup {n} : Moves(g[i], i, side, u)
    BY UnitsElement
  <2>2. u \in V <=> \E i \in is : Moves(h[i], i, side, u)
    BY UnitsElement
  <2>3. \A i \in is : Moves(g[i], i, side, u) <=> Moves(h[i], i, side, u)
    BY <1>1
  <2>4. Moves(g[n], n, side, u) <=> Moves(t, n, side, u)
    BY <1>1
  <2> HIDE DEF V
  <2>5. QED
    BY <2>1, <2>2, <2>3, <2>4
<1>8. CASE t.aggressor = side
  <2>1. Units(g, is \cup {n}, side) = V \cup N
    <3>1. \A u : Moves(t, n, side, u) <=> u \in N
      BY <1>8 DEF Moves
    <3>2. QED
      BY <1>7, <3>1
  <2>2. V \cap N = {}
    <3>1. \A u \in V : u[1] \in is
      BY UnitsElement DEF Moves
    <3>2. \A u \in N : u[1] = n
      OBVIOUS
    <3>3. QED
      BY <1>1, <3>1, <3>2
  <2>3. Cardinality(V \cup N)
          = Cardinality(V) + Cardinality(N) - Cardinality(V \cap N)
    BY <1>2, <1>5, FS_Union
  <2>4. Cardinality(V \cap N) = 0
    BY <2>2, FS_EmptySet
  <2>5. Cardinality(V \cup N) = Cardinality(V) + t.qty
    BY <1>3, <1>4, <1>5, <2>3, <2>4
  <2>6. QED
    BY <1>3, <1>6, <1>8, <2>1, <2>5 DEF Volume, g, n
<1>9. CASE t.aggressor # side
  <2>1. Units(g, is \cup {n}, side) = V
    <3>1. \A u : ~Moves(t, n, side, u)
      BY <1>9 DEF Moves
    <3>2. QED
      BY <1>7, <3>1
  <2>2. QED
    BY <1>3, <1>6, <1>9, <2>1 DEF Volume, g, n
<1>10. QED
  BY <1>8, <1>9

\* Capping each partial sum gives the capped sum.
LEMMA SaturateStep ==
  ASSUME NEW v \in Nat, NEW q \in Nat, NEW m \in Nat
  PROVE  SaturatingAdd(AtMost(v, m), q, m) = AtMost(v + q, m)
BY DEF SaturatingAdd, AtMost

\* Booking one more trade on a set of trades is AddTrade on what they sum to.
LEMMA SumOfAppend ==
  ASSUME NEW h \in Seq(Trades), NEW t \in Trades, NEW is \in SUBSET (1..Len(h))
  PROVE  /\ SumOf(Append(h, t), is) = SumOf(h, is)
         /\ SumOf(Append(h, t), is \cup {Len(h) + 1}) = AddTrade(SumOf(h, is), t)
<1> DEFINE g == Append(h, t)
           ms == is \cup {Len(h) + 1}
           vb == Volume(h, is, "Bid")
           va == Volume(h, is, "Ask")
           c == Cardinality(is)
<1>1. /\ vb \in Nat /\ Volume(g, is, "Bid") = vb
      /\ Volume(g, ms, "Bid") = vb + (IF t.aggressor = "Bid" THEN t.qty ELSE 0)
  BY VolumeAppend
<1>2. /\ va \in Nat /\ Volume(g, is, "Ask") = va
      /\ Volume(g, ms, "Ask") = va + (IF t.aggressor = "Ask" THEN t.qty ELSE 0)
  BY VolumeAppend
<1>3. c \in Nat /\ Cardinality(ms) = c + 1
  <2>1. Len(h) \in Nat
    OBVIOUS
  <2>2. IsFiniteSet(1..Len(h))
    BY <2>1, FS_Interval
  <2>3. IsFiniteSet(is)
    BY <2>2, FS_Subset
  <2>4. Len(h) + 1 \notin is
    BY <2>1
  <2>5. QED
    BY <2>3, <2>4, FS_AddElement, FS_CardinalityType
<1>4. t.qty \in Nat /\ MaxQty \in Nat /\ MaxTradeCount \in Nat
  BY TradeTyped, AggregatorAssumption
<1> HIDE DEF g, ms, vb, va, c
<1>5. SumOf(g, is) = SumOf(h, is)
  BY <1>1, <1>2 DEF SumOf, vb, va
<1>6. /\ SumOf(h, is).bid_qty = AtMost(vb, MaxQty)
      /\ SumOf(h, is).ask_qty = AtMost(va, MaxQty)
      /\ SumOf(h, is).trades = AtMost(c, MaxTradeCount)
  BY DEF SumOf, vb, va, c
<1>7. AtMost(c + 1, MaxTradeCount)
        = SaturatingAdd(AtMost(c, MaxTradeCount), 1, MaxTradeCount)
  BY <1>3, <1>4, SaturateStep
<1>8. AtMost(Volume(g, ms, "Bid"), MaxQty)
        = IF t.aggressor = "Bid"
            THEN SaturatingAdd(AtMost(vb, MaxQty), t.qty, MaxQty)
            ELSE AtMost(vb, MaxQty)
  <2>1. SaturatingAdd(AtMost(vb, MaxQty), t.qty, MaxQty) = AtMost(vb + t.qty, MaxQty)
    BY <1>1, <1>4, SaturateStep
  <2>2. vb + 0 = vb
    BY <1>1
  <2>3. QED
    BY <1>1, <2>1, <2>2
<1>9. AtMost(Volume(g, ms, "Ask"), MaxQty)
        = IF t.aggressor = "Ask"
            THEN SaturatingAdd(AtMost(va, MaxQty), t.qty, MaxQty)
            ELSE AtMost(va, MaxQty)
  <2>1. SaturatingAdd(AtMost(va, MaxQty), t.qty, MaxQty) = AtMost(va + t.qty, MaxQty)
    BY <1>2, <1>4, SaturateStep
  <2>2. va + 0 = va
    BY <1>2
  <2>3. QED
    BY <1>2, <2>1, <2>2
<1>10. SumOf(g, ms) = AddTrade(SumOf(h, is), t)
  BY <1>3, <1>6, <1>7, <1>8, <1>9 DEF SumOf, AddTrade
<1>11. QED
  BY <1>5, <1>10 DEF g, ms

-----------------------------------------------------------------------------
(* Least and greatest elements.                                            *)

\* Every non-empty set of naturals has a least element.
LEMMA LeastNatural ==
  ASSUME NEW S \in SUBSET Nat, S # {}
  PROVE  \E x \in S : \A y \in S : x <= y
<1>1. PICK x \in S : \A y \in S : ~(<<y, x>> \in OpToRel(<, Nat))
  BY NatLessThanWellFounded, WFMin
<1>2. \A y \in S : ~(y < x)
  BY <1>1 DEF OpToRel
<1>3. QED
  BY <1>2

\* A bounded one has a greatest: its least upper bound.
LEMMA GreatestNatural ==
  ASSUME NEW S \in SUBSET Nat, S # {}, NEW m \in Nat, \A y \in S : y <= m
  PROVE  \E x \in S : \A y \in S : y <= x
<1> DEFINE B == {b \in Nat : \A y \in S : y <= b}
<1>1. B \in SUBSET Nat /\ B # {}
  OBVIOUS
<1>2. PICK b \in B : \A c \in B : b <= c
  BY <1>1, LeastNatural
<1>3. b \in S
  <2> SUFFICES ASSUME b \notin S PROVE FALSE
    OBVIOUS
  <2>1. \A y \in S : y < b
    BY <1>2
  <2>2. b - 1 \in Nat /\ \A y \in S : y <= b - 1
    <3>1. b \in Nat /\ \A y \in S : y \in Nat
      OBVIOUS
    <3>2. PICK y \in S : TRUE
      OBVIOUS
    <3>3. y \in Nat /\ y < b
      BY <2>1, <3>1
    <3>4. QED
      BY <2>1, <3>1, <3>3
  <2>3. b - 1 \in B
    BY <2>2
  <2>4. QED
    BY <1>2, <2>3
<1>4. QED
  BY <1>2, <1>3

\* Max and Min are the greatest and the least element where there are such.
LEMMA MaxIs ==
  ASSUME NEW S \in SUBSET Nat, NEW m \in S, \A y \in S : y <= m
  PROVE  Max(S) = m
<1>1. Max(S) \in S /\ \A y \in S : y <= Max(S)
  BY DEF Max
<1> DEFINE x == Max(S)
<1>2. x \in Nat /\ m \in Nat /\ x <= m /\ m <= x
  BY <1>1
<1> HIDE DEF x
<1>3. x = m
  BY <1>2
<1>4. QED
  BY <1>3 DEF x

\* The same for the least.
LEMMA MinIs ==
  ASSUME NEW S \in SUBSET Nat, NEW m \in S, \A y \in S : m <= y
  PROVE  Min(S) = m
<1>1. Min(S) \in S /\ \A y \in S : Min(S) <= y
  BY DEF Min
<1> DEFINE x == Min(S)
<1>2. x \in Nat /\ m \in Nat /\ x <= m /\ m <= x
  BY <1>1
<1> HIDE DEF x
<1>3. x = m
  BY <1>2
<1>4. QED
  BY <1>3 DEF x

\* Finitely many naturals have a bound: otherwise take the least position up
\* to which they have none.
LEMMA Bounded ==
  ASSUME NEW n \in Nat, NEW f \in [1..n -> Nat]
  PROVE  \E m \in Nat : \A i \in 1..n : f[i] <= m
<1> DEFINE Bound(k) == \E m \in Nat : \A i \in 1..k : f[i] <= m
           D == {k \in 0..n : ~Bound(k)}
<1>1. ASSUME NEW k \in 1..n, Bound(k - 1) PROVE Bound(k)
  <2>1. PICK m \in Nat : \A i \in 1..(k - 1) : f[i] <= m
    BY <1>1
  <2>2. PICK c \in Nat : f[k] <= c /\ m <= c
    <3>1. f[k] \in Nat
      OBVIOUS
    <3>2. f[k] <= f[k] + m /\ m <= f[k] + m /\ f[k] + m \in Nat
      BY <3>1
    <3>3. QED
      BY <3>2
  <2>3. ASSUME NEW i \in 1..k PROVE f[i] <= c
    <3>1. f[i] \in Nat
      BY <2>3
    <3>2. CASE i = k
      BY <2>2, <3>2
    <3>3. CASE i # k
      <4>1. f[i] <= m
        BY <2>1, <2>3, <3>3
      <4>2. QED
        BY <2>2, <3>1, <4>1
    <3>4. QED
      BY <3>2, <3>3
  <2>4. QED
    BY <2>3
<1>2. Bound(0)
  OBVIOUS
<1> HIDE DEF Bound
<1>3. ASSUME D # {} PROVE FALSE
  <2>1. D \in SUBSET Nat
    OBVIOUS
  <2>2. PICK k \in D : \A j \in D : k <= j
    BY <1>3, <2>1, LeastNatural
  <2>3. k \in 0..n /\ ~Bound(k)
    OBVIOUS
  <2>4. k # 0
    BY <1>2, <2>3
  <2>5. k \in 1..n /\ k - 1 \in 0..n /\ ~(k <= k - 1)
    BY <2>3, <2>4
  <2>6. Bound(k - 1)
    BY <2>2, <2>5
  <2>7. QED
    BY <1>1, <2>3, <2>5, <2>6
<1>4. Bound(n)
  BY <1>3
<1>5. QED
  BY <1>4 DEF Bound

\* A window with an accepted trade has a first and a last one, and a highest
\* and a lowest price.
LEMMA CandleFacts ==
  ASSUME NEW h \in Seq(Trades), NEW w, Accepted(h, w) # {}
  PROVE  LET A == Accepted(h, w)
             P == Prices(h, w)
         IN  /\ Min(A) \in A /\ \A i \in A : Min(A) <= i
             /\ Max(A) \in A /\ \A i \in A : i <= Max(A)
             /\ P \in SUBSET (Nat \ {0})
             /\ Max(P) \in P /\ \A x \in P : x <= Max(P)
             /\ Min(P) \in P /\ \A x \in P : Min(P) <= x
<1> DEFINE A == Accepted(h, w)
           P == Prices(h, w)
<1>1. Len(h) \in Nat
  OBVIOUS
<1>2. A \subseteq 1..Len(h)
  BY DEF Accepted
<1>3. A \in SUBSET Nat /\ \A i \in A : i <= Len(h)
  BY <1>1, <1>2
<1>4. \A i \in A : h[i] \in Trades
  BY <1>2
<1>5. \A i \in A : h[i].price \in Nat \ {0}
  BY <1>4, TradeTyped
<1>6. P = {h[i].price : i \in A}
  BY DEF Prices
<1>7. P \in SUBSET (Nat \ {0}) /\ P # {}
  BY <1>5, <1>6
<1>8. PICK m \in Nat : \A i \in 1..Len(h) : h[i].price <= m
  <2> DEFINE f == [i \in 1..Len(h) |-> h[i].price]
  <2>1. \A i \in 1..Len(h) : h[i] \in Trades
    OBVIOUS
  <2>2. f \in [1..Len(h) -> Nat] /\ \A i \in 1..Len(h) : f[i] = h[i].price
    BY <2>1, TradeTyped
  <2> HIDE DEF f
  <2>3. PICK m \in Nat : \A i \in 1..Len(h) : f[i] <= m
    BY <1>1, <2>2, Bounded
  <2>4. QED
    BY <2>2, <2>3
<1>9. \A x \in P : x <= m
  BY <1>2, <1>6, <1>8
<1> HIDE DEF A, P
<1>10. A # {}
  BY DEF A
<1>11. Min(A) \in A /\ \A i \in A : Min(A) <= i
  BY <1>3, <1>10, LeastNatural, MinIs
<1>12. Max(A) \in A /\ \A i \in A : i <= Max(A)
  <2>1. PICK x \in A : \A i \in A : i <= x
    BY <1>1, <1>3, <1>10, GreatestNatural
  <2>2. Max(A) = x
    BY <1>3, <2>1, MaxIs
  <2>3. QED
    BY <2>1, <2>2
<1>13. Min(P) \in P /\ \A i \in P : Min(P) <= i
  BY <1>7, LeastNatural, MinIs
<1>14. Max(P) \in P /\ \A i \in P : i <= Max(P)
  BY <1>7, <1>9, GreatestNatural, MaxIs
<1>15. QED
  BY <1>7, <1>11, <1>12, <1>13, <1>14 DEF A, P

-----------------------------------------------------------------------------
(* A window's footprint and candle when one more trade is received.        *)

\* The buckets a window's trades are booked on: fixed while no trade is
\* accepted, extended by the trade's bucket otherwise.
LEMMA BucketsAppend ==
  ASSUME NEW h \in Seq(Trades), NEW t \in Trades, NEW w
  PROVE  /\ Accepted(Append(h, t), w) = Accepted(h, w)
              => Buckets(Append(h, t), w) = Buckets(h, w)
         /\ Accepted(Append(h, t), w) = Accepted(h, w) \cup {Len(h) + 1}
              => Buckets(Append(h, t), w) = Buckets(h, w) \cup {BucketPrice(t)}
<1> DEFINE g == Append(h, t)
           n == Len(h) + 1
           A == Accepted(h, w)
<1>1. (\A i \in A : g[i] = h[i]) /\ g[n] = t
  BY AcceptedAppend, AppendFacts
<1>2. Buckets(h, w) = {BucketPrice(h[i]) : i \in A}
  BY DEF Buckets
<1> HIDE DEF g, n
<1>3. ASSUME Accepted(g, w) = A PROVE Buckets(g, w) = Buckets(h, w)
  <2>1. Buckets(g, w) = {BucketPrice(g[i]) : i \in A}
    BY <1>3 DEF Buckets
  <2> HIDE DEF A
  <2>2. QED
    BY <1>1, <1>2, <2>1
<1>4. ASSUME Accepted(g, w) = A \cup {n}
      PROVE  Buckets(g, w) = Buckets(h, w) \cup {BucketPrice(t)}
  <2>1. Buckets(g, w) = {BucketPrice(g[i]) : i \in A \cup {n}}
    BY <1>4 DEF Buckets
  <2> HIDE DEF A
  <2>2. QED
    BY <1>1, <1>2, <2>1
<1>5. QED
  BY <1>3, <1>4 DEF g, n

\* The same for the trades booked on one bucket.
LEMMA BookedAppend ==
  ASSUME NEW h \in Seq(Trades), NEW t \in Trades, NEW w, NEW b
  PROVE  /\ Booked(h, w, b) \in SUBSET (1..Len(h))
         /\ Accepted(Append(h, t), w) = Accepted(h, w)
              => Booked(Append(h, t), w, b) = Booked(h, w, b)
         /\ Accepted(Append(h, t), w) = Accepted(h, w) \cup {Len(h) + 1}
              => Booked(Append(h, t), w, b)
                   = Booked(h, w, b)
                       \cup (IF BucketPrice(t) = b THEN {Len(h) + 1} ELSE {})
<1> DEFINE g == Append(h, t)
           n == Len(h) + 1
           A == Accepted(h, w)
<1>1. (\A i \in A : g[i] = h[i]) /\ g[n] = t /\ A \subseteq 1..Len(h)
  BY AcceptedAppend, AppendFacts
<1>2. Booked(h, w, b) = {i \in A : BucketPrice(h[i]) = b}
  BY DEF Booked
<1> HIDE DEF g, n
<1>3. ASSUME Accepted(g, w) = A PROVE Booked(g, w, b) = Booked(h, w, b)
  <2>1. Booked(g, w, b) = {i \in A : BucketPrice(g[i]) = b}
    BY <1>3 DEF Booked
  <2> HIDE DEF A
  <2>2. QED
    BY <1>1, <1>2, <2>1
<1>4. ASSUME Accepted(g, w) = A \cup {n}
      PROVE  Booked(g, w, b)
               = Booked(h, w, b) \cup (IF BucketPrice(t) = b THEN {n} ELSE {})
  <2>1. Booked(g, w, b) = {i \in A \cup {n} : BucketPrice(g[i]) = b}
    BY <1>4 DEF Booked
  <2> HIDE DEF A
  <2>2. QED
    BY <1>1, <1>2, <2>1
<1>5. Booked(h, w, b) \in SUBSET (1..Len(h))
  BY <1>1, <1>2
<1>6. QED
  BY <1>3, <1>4, <1>5 DEF g, n

\* A trade that window w does not accept leaves its footprint alone.
LEMMA FootprintSame ==
  ASSUME NEW h \in Seq(Trades), NEW t \in Trades, NEW w,
         Accepted(Append(h, t), w) = Accepted(h, w)
  PROVE  Footprint(Append(h, t), w) = Footprint(h, w)
<1> DEFINE g == Append(h, t)
<1>1. Buckets(g, w) = Buckets(h, w)
  BY BucketsAppend
<1>2. \A b : SumOf(g, Booked(g, w, b)) = SumOf(h, Booked(h, w, b))
  <2> TAKE b
  <2>1. Booked(g, w, b) = Booked(h, w, b) /\ Booked(h, w, b) \in SUBSET (1..Len(h))
    BY BookedAppend
  <2>2. QED
    BY <2>1, SumOfAppend
<1> HIDE DEF g
<1>3. Footprint(g, w) = Footprint(h, w)
  BY <1>1, <1>2 DEF Footprint
<1>4. QED
  BY <1>3 DEF g

\* An accepted trade is Accumulate on the footprint.
LEMMA FootprintAdd ==
  ASSUME NEW h \in Seq(Trades), NEW t \in Trades, NEW w,
         Accepted(Append(h, t), w) = Accepted(h, w) \cup {Len(h) + 1}
  PROVE  Footprint(Append(h, t), w) = Accumulate(Footprint(h, w), t)
<1> DEFINE g == Append(h, t)
           p == BucketPrice(t)
           F == Footprint(h, w)
           B == Buckets(h, w)
           S(b) == SumOf(h, Booked(h, w, b))
<1>1. Buckets(g, w) = B \cup {p}
  BY BucketsAppend
<1>2. ASSUME NEW b, b # p PROVE SumOf(g, Booked(g, w, b)) = S(b)
  <2>1. /\ Booked(g, w, b) = Booked(h, w, b)
                               \cup (IF p = b THEN {Len(h) + 1} ELSE {})
        /\ Booked(h, w, b) \in SUBSET (1..Len(h))
    BY BookedAppend
  <2>2. Booked(g, w, b) = Booked(h, w, b)
    BY <1>2, <2>1
  <2>3. SumOf(g, Booked(h, w, b)) = SumOf(h, Booked(h, w, b))
    BY <2>1, SumOfAppend
  <2>4. QED
    BY <2>2, <2>3
<1>3. SumOf(g, Booked(g, w, p)) = AddTrade(S(p), t)
  <2>1. /\ Booked(g, w, p) = Booked(h, w, p) \cup {Len(h) + 1}
        /\ Booked(h, w, p) \in SUBSET (1..Len(h))
    BY BookedAppend
  <2>2. QED
    BY <2>1, SumOfAppend
<1>4. p \notin B => S(p) = EmptyCell
  <2> SUFFICES ASSUME p \notin B PROVE S(p) = EmptyCell
    OBVIOUS
  <2>1. Booked(h, w, p) = {}
    BY DEF Booked, Buckets
  <2>2. \A side : Volume(h, {}, side) = 0
    <3> TAKE side
    <3>1. Units(h, {}, side) = {}
      BY DEF Units
    <3>2. QED
      BY <3>1, FS_EmptySet DEF Volume
  <2>3. Cardinality({}) = 0
    BY FS_EmptySet
  <2>4. AtMost(0, MaxQty) = 0 /\ AtMost(0, MaxTradeCount) = 0
    BY AggregatorAssumption DEF AtMost
  <2>5. QED
    BY <2>1, <2>2, <2>3, <2>4 DEF SumOf, EmptyCell
<1>5. F = [b \in B |-> S(b)]
  BY DEF Footprint
<1>6. Footprint(g, w) = [b \in B \cup {p} |-> SumOf(g, Booked(g, w, b))]
  BY <1>1 DEF Footprint
<1>7. Accumulate(F, t)
        = [b \in DOMAIN F \cup {p} |->
             IF b # p THEN F[b]
             ELSE AddTrade(IF p \in DOMAIN F THEN F[p] ELSE EmptyCell, t)]
  BY DEF Accumulate
<1> HIDE DEF g, p, F, B, S
<1>8. DOMAIN F = B /\ \A b \in B : F[b] = S(b)
  BY <1>5
<1>9. \A b \in B \cup {p} :
        SumOf(g, Booked(g, w, b))
          = IF b # p THEN F[b]
            ELSE AddTrade(IF p \in DOMAIN F THEN F[p] ELSE EmptyCell, t)
  <2> TAKE b \in B \cup {p}
  <2>1. CASE b # p
    BY <1>2, <1>8, <2>1
  <2>2. CASE b = p
    <3>1. S(p) = IF p \in DOMAIN F THEN F[p] ELSE EmptyCell
      BY <1>4, <1>8
    <3>2. QED
      BY <1>3, <2>2, <3>1
  <2>3. QED
    BY <2>1, <2>2
<1>10. Footprint(g, w) = Accumulate(F, t)
  BY <1>6, <1>7, <1>8, <1>9
<1>11. QED
  BY <1>10 DEF g, F

\* A trade that window w does not accept leaves its candle alone.
LEMMA CandleSame ==
  ASSUME NEW h \in Seq(Trades), NEW t \in Trades, NEW w,
         Accepted(Append(h, t), w) = Accepted(h, w), Accepted(h, w) # {}
  PROVE  Candle(Append(h, t), w) = Candle(h, w)
<1> DEFINE g == Append(h, t)
           A == Accepted(h, w)
<1>1. \A i \in A : g[i] = h[i]
  BY AcceptedAppend, AppendFacts
<1>2. Min(A) \in A /\ Max(A) \in A
  BY CandleFacts
<1>3. g[Min(A)] = h[Min(A)] /\ g[Max(A)] = h[Max(A)]
  BY <1>1, <1>2
<1> HIDE DEF g
<1>4. Accepted(g, w) = A
  BY DEF g
<1>5. Prices(g, w) = Prices(h, w)
  <2>1. Prices(g, w) = {g[i].price : i \in A}
    BY <1>4 DEF Prices
  <2>2. Prices(h, w) = {h[i].price : i \in A}
    BY DEF Prices
  <2> HIDE DEF A
  <2>3. QED
    BY <1>1, <2>1, <2>2
<1>6. Candle(g, w) = Candle(h, w)
  BY <1>3, <1>4, <1>5 DEF Candle
<1>7. QED
  BY <1>6 DEF g

\* The prices of a window after one more accepted trade.
LEMMA PricesAdd ==
  ASSUME NEW h \in Seq(Trades), NEW t \in Trades, NEW w,
         Accepted(Append(h, t), w) = Accepted(h, w) \cup {Len(h) + 1}
  PROVE  Prices(Append(h, t), w) = Prices(h, w) \cup {t.price}
<1> DEFINE g == Append(h, t)
           n == Len(h) + 1
           A == Accepted(h, w)
<1>1. (\A i \in A : g[i] = h[i]) /\ g[n] = t
  BY AcceptedAppend, AppendFacts
<1> HIDE DEF g, n
<1>2. Prices(h, w) = {h[i].price : i \in A}
  BY DEF Prices
<1>3. Prices(g, w) = {g[i].price : i \in A \cup {n}}
  BY DEF Prices, g, n
<1> HIDE DEF A
<1>4. Prices(g, w) = Prices(h, w) \cup {t.price}
  BY <1>1, <1>2, <1>3
<1>5. QED
  BY <1>4 DEF g

\* The first accepted trade opens the candle.
LEMMA CandleFirst ==
  ASSUME NEW h \in Seq(Trades), NEW t \in Trades, NEW w,
         Accepted(h, w) = {},
         Accepted(Append(h, t), w) = Accepted(h, w) \cup {Len(h) + 1}
  PROVE  Candle(Append(h, t), w) = UpdateOhlc(NoOhlc, t)
<1> DEFINE g == Append(h, t)
           n == Len(h) + 1
<1>1. g[n] = t /\ n \in Nat
  BY AppendFacts
<1>2. t.price \in Nat
  BY TradeTyped
<1>3. Prices(h, w) = {}
  BY DEF Prices
<1>4. Prices(g, w) = {t.price} /\ Accepted(g, w) = {n}
  BY <1>3, PricesAdd
<1>5. Max({t.price}) = t.price /\ Min({t.price}) = t.price
  BY <1>2, MaxIs, MinIs
<1>6. Max({n}) = n /\ Min({n}) = n
  BY <1>1, MaxIs, MinIs
<1> HIDE DEF g, n
<1>7. Candle(g, w) = [open |-> t.price, close |-> t.price,
                      high |-> t.price, low |-> t.price]
  BY <1>1, <1>4, <1>5, <1>6 DEF Candle
<1>8. UpdateOhlc(NoOhlc, t) = [open |-> t.price, close |-> t.price,
                               high |-> t.price, low |-> t.price]
  BY DEF UpdateOhlc, NoOhlc
<1>9. QED
  BY <1>7, <1>8 DEF g

\* Every further one is UpdateOhlc on the candle.
LEMMA CandleAdd ==
  ASSUME NEW h \in Seq(Trades), NEW t \in Trades, NEW w,
         Accepted(h, w) # {},
         Accepted(Append(h, t), w) = Accepted(h, w) \cup {Len(h) + 1}
  PROVE  Candle(Append(h, t), w) = UpdateOhlc(Candle(h, w), t)
<1> DEFINE g == Append(h, t)
           n == Len(h) + 1
           A == Accepted(h, w)
           P == Prices(h, w)
           hi == Max(P)
           lo == Min(P)
           x == t.price
           c == Candle(h, w)
<1>1. (\A i \in A : g[i] = h[i]) /\ g[n] = t /\ A \subseteq 1..Len(h) /\ n \in Nat
  BY AcceptedAppend, AppendFacts
<1>2. /\ Min(A) \in A /\ \A i \in A : Min(A) <= i
      /\ P \in SUBSET (Nat \ {0})
      /\ hi \in P /\ \A y \in P : y <= hi
      /\ lo \in P /\ \A y \in P : lo <= y
  BY CandleFacts
<1>3. x \in Nat
  BY TradeTyped
<1>4. Prices(g, w) = P \cup {x}
  BY PricesAdd
<1>5. Min(A \cup {n}) = Min(A) /\ Max(A \cup {n}) = n
  <2>1. A \cup {n} \in SUBSET Nat /\ Min(A) \in A \cup {n} /\ n \in A \cup {n}
    BY <1>1, <1>2
  <2>2. \A i \in A \cup {n} : Min(A) <= i /\ i <= n
    BY <1>1, <1>2
  <2>3. QED
    BY <2>1, <2>2, MinIs, MaxIs
<1>6. c = [open |-> h[Min(A)].price, close |-> h[Max(A)].price,
           high |-> hi, low |-> lo]
  BY DEF Candle
<1>7. h[Min(A)].price \in P
  BY <1>2 DEF Prices
<1>8. g[Min(A)] = h[Min(A)]
  BY <1>1, <1>2
<1>9. Candle(g, w) = [open |-> h[Min(A)].price, close |-> x,
                      high |-> Max(P \cup {x}), low |-> Min(P \cup {x})]
  BY <1>1, <1>4, <1>5, <1>8 DEF Candle
<1> HIDE DEF g, n, A, P, hi, lo, x, c
<1>10. /\ hi \in Nat /\ lo \in Nat
       /\ P \cup {x} \in SUBSET Nat
       /\ \A y \in P : y \in Nat
  BY <1>2, <1>3
<1>11. Max(P \cup {x}) = IF x > hi THEN x ELSE hi
  <2> DEFINE m == IF x > hi THEN x ELSE hi
  <2>1. m \in P \cup {x}
    BY <1>2
  <2>2. \A y \in P \cup {x} : y <= m
    BY <1>2, <1>3, <1>10
  <2> HIDE DEF m
  <2>3. Max(P \cup {x}) = m
    BY <1>10, <2>1, <2>2, MaxIs
  <2>4. QED
    BY <2>3 DEF m
<1>12. Min(P \cup {x}) = IF x < lo THEN x ELSE lo
  <2> DEFINE m == IF x < lo THEN x ELSE lo
  <2>1. m \in P \cup {x}
    BY <1>2
  <2>2. \A y \in P \cup {x} : m <= y
    BY <1>2, <1>3, <1>10
  <2> HIDE DEF m
  <2>3. Min(P \cup {x}) = m
    BY <1>10, <2>1, <2>2, MinIs
  <2>4. QED
    BY <2>3 DEF m
<1>13. c.open # 0 /\ c.open = h[Min(A)].price /\ c.high = hi /\ c.low = lo
  BY <1>2, <1>6, <1>7
<1>14. UpdateOhlc(c, t) = [open |-> h[Min(A)].price, close |-> x,
                           high |-> IF x > hi THEN x ELSE hi,
                           low |-> IF x < lo THEN x ELSE lo]
  BY <1>13 DEF UpdateOhlc, x
<1>15. Candle(g, w) = UpdateOhlc(c, t)
  BY <1>9, <1>11, <1>12, <1>14
<1>16. QED
  BY <1>15 DEF g, c

-----------------------------------------------------------------------------
(* A table that stores a window exactly.                                   *)

\* The windows with trades are the ones with accepted trades.
LEMMA WindowsAre ==
  ASSUME NEW h \in Seq(Trades), NEW w
  PROVE  w \in Windows(h) <=> Accepted(h, w) # {}
BY DEF Windows, Accepted

\* A window stays stored exactly when a trade arrives it does not accept.
LEMMA StoredAppend ==
  ASSUME NEW T, NEW h \in Seq(Trades), NEW t \in Trades, NEW w,
         Accepted(Append(h, t), w) = Accepted(h, w), Accepted(h, w) # {},
         StoredExactly(T, h, w)
  PROVE  StoredExactly(T, Append(h, t), w)
<1>1. /\ Buckets(Append(h, t), w) = Buckets(h, w)
      /\ Footprint(Append(h, t), w) = Footprint(h, w)
      /\ Candle(Append(h, t), w) = Candle(h, w)
  BY BucketsAppend, FootprintSame, CandleSame
<1>2. QED
  BY <1>1 DEF StoredExactly

\* What the rows of a Snapshot do to a table's keys.
LEMMA UpsertRows ==
  ASSUME NEW T, NEW f
  PROVE  /\ DOMAIN Upsert(T, Rows(f)) = DOMAIN T \cup FrameKeys(f)
         /\ \A k \in FrameKeys(f) : Upsert(T, Rows(f))[k] = Rows(f)[k]
         /\ \A k \in DOMAIN T \ FrameKeys(f) : Upsert(T, Rows(f))[k] = T[k]
<1>1. DOMAIN Rows(f) = FrameKeys(f)
  BY DEF Rows
<1> DEFINE R == Rows(f)
<1> HIDE DEF R
<1>2. /\ DOMAIN Upsert(T, R) = DOMAIN T \cup DOMAIN R
      /\ \A k \in DOMAIN R : Upsert(T, R)[k] = R[k]
      /\ \A k \in DOMAIN T \ DOMAIN R : Upsert(T, R)[k] = T[k]
  BY DEF Upsert
<1>3. QED
  BY <1>1, <1>2 DEF R

\* A Snapshot of one window leaves the rows of the others alone.
LEMMA StoredOther ==
  ASSUME NEW T, NEW f, NEW h, NEW w, f.window # w, StoredExactly(T, h, w)
  PROVE  StoredExactly(Upsert(T, Rows(f)), h, w)
<1> DEFINE U == Upsert(T, Rows(f))
<1>1. /\ DOMAIN U = DOMAIN T \cup FrameKeys(f)
      /\ \A k \in DOMAIN T \ FrameKeys(f) : U[k] = T[k]
      /\ \A k \in FrameKeys(f) : k[1] = f.window
  BY UpsertRows DEF FrameKeys
<1> HIDE DEF U
<1>2. \A k : k[1] = w => /\ k \in DOMAIN U <=> k \in DOMAIN T
                         /\ k \in DOMAIN T => U[k] = T[k]
  BY <1>1
<1>3. {k \in DOMAIN U : k[1] = w} = {k \in DOMAIN T : k[1] = w}
  BY <1>2
<1>4. StoredExactly(U, h, w)
  BY <1>2, <1>3 DEF StoredExactly
<1>5. QED
  BY <1>4 DEF U

\* The closing Snapshot of a window stores it exactly, whatever rows of its
\* buckets were there before.
LEMMA StoredClosing ==
  ASSUME NEW T, NEW f, NEW h, NEW w, f.window = w,
         \A k \in DOMAIN T : k[1] = w => k[2] \in DOMAIN f.clusters /\ k = <<k[1], k[2]>>,
         f.clusters = Footprint(h, w), f.ohlc = Candle(h, w)
  PROVE  StoredExactly(Upsert(T, Rows(f)), h, w)
<1> DEFINE R == Rows(f)
           U == Upsert(T, R)
           K == {k \in DOMAIN U : k[1] = w}
<1>1. /\ DOMAIN U = DOMAIN T \cup FrameKeys(f)
      /\ \A k \in FrameKeys(f) : U[k] = R[k]
  <2> HIDE DEF K, U
  <2>1. DOMAIN R = FrameKeys(f)
    BY DEF Rows
  <2> HIDE DEF R
  <2>2. QED
    BY <2>1 DEF U, Upsert
<1>2. /\ \A k \in FrameKeys(f) : k[1] = f.window /\ k[2] \in Buckets(h, w)
      /\ \A b \in Buckets(h, w) : <<f.window, b>> \in FrameKeys(f)
      /\ DOMAIN f.clusters = Buckets(h, w)
  <2>1. DOMAIN f.clusters = Buckets(h, w)
    BY DEF Footprint
  <2>2. QED
    BY <2>1 DEF FrameKeys
<1> HIDE DEF U, R
<1>3. \A k \in DOMAIN U : k[1] = w => k \in FrameKeys(f)
  <2> SUFFICES ASSUME NEW k \in DOMAIN U, k[1] = w, k \notin FrameKeys(f)
               PROVE  FALSE
    OBVIOUS
  <2>1. k \in DOMAIN T
    BY <1>1
  <2>2. k[2] \in DOMAIN f.clusters /\ k = <<w, k[2]>>
    BY <2>1
  <2>3. QED
    BY <1>2, <2>2
<1>4. {k[2] : k \in K} = Buckets(h, w)
  <2>1. \A k \in K : k[2] \in Buckets(h, w)
    BY <1>1, <1>2, <1>3
  <2>2. \A b \in Buckets(h, w) : <<w, b>> \in K /\ <<w, b>>[2] = b
    BY <1>1, <1>2
  <2> HIDE DEF K
  <2>3. QED
    BY <2>1, <2>2
<1>5. \A k \in DOMAIN U :
        k[1] = w => U[k] = [cell |-> Footprint(h, w)[k[2]], ohlc |-> Candle(h, w)]
  <2>1. \A k \in FrameKeys(f) :
          R[k] = [cell |-> f.clusters[k[2]], ohlc |-> f.ohlc]
    BY DEF Rows, R
  <2>2. QED
    BY <1>1, <1>3, <2>1
<1>6. StoredExactly(U, h, w)
  BY <1>4, <1>5 DEF StoredExactly
<1>7. QED
  BY <1>6 DEF U, R

\* The trades booked on no window: the new one is when a trade before is of a
\* later window.
LEMMA RejectedAppend ==
  ASSUME NEW h \in Seq(Trades), NEW t \in Trades
  PROVE  /\ IsFiniteSet(Rejected(h)) /\ Len(h) + 1 \notin Rejected(h)
         /\ Rejected(Append(h, t))
              = Rejected(h)
                  \cup (IF \A j \in DOMAIN h : TradeWindow(h[j]) <= TradeWindow(t)
                        THEN {} ELSE {Len(h) + 1})
<1> DEFINE g == Append(h, t)
           n == Len(h) + 1
           Fits == \A j \in DOMAIN h : TradeWindow(h[j]) <= TradeWindow(t)
<1>1. /\ Len(h) \in Nat /\ DOMAIN h = 1..Len(h) /\ DOMAIN g = 1..n
      /\ \A i \in DOMAIN h : g[i] = h[i]
      /\ g[n] = t
  BY AppendFacts
<1>2. DOMAIN g = DOMAIN h \cup {n} /\ n \notin DOMAIN h
  BY <1>1
<1>3. \A i \in DOMAIN h : \A w : i \in Accepted(g, w) <=> i \in Accepted(h, w)
  BY <1>2, AcceptedAppend
<1>4. n \in Accepted(g, TradeWindow(t)) <=> Fits
  <2>1. n \notin Accepted(h, TradeWindow(t))
    BY <1>1, <1>2, AcceptedAppend
  <2>2. Accepted(g, TradeWindow(t))
          = Accepted(h, TradeWindow(t)) \cup (IF Fits THEN {n} ELSE {})
    BY AcceptedAppend
  <2> HIDE DEF g, n, Fits
  <2>3. QED
    BY <2>1, <2>2
<1>5. /\ Rejected(h) = {i \in DOMAIN h : i \notin Accepted(h, TradeWindow(h[i]))}
      /\ Rejected(g) = {i \in DOMAIN g : i \notin Accepted(g, TradeWindow(g[i]))}
  BY DEF Rejected
<1> HIDE DEF g, Fits, n
<1>6. Rejected(g) = Rejected(h) \cup (IF Fits THEN {} ELSE {n})
  BY <1>1, <1>2, <1>3, <1>4, <1>5
<1>7. IsFiniteSet(Rejected(h)) /\ n \notin Rejected(h)
  <2>1. IsFiniteSet(1..Len(h))
    BY <1>1, FS_Interval
  <2>2. Rejected(h) \in SUBSET (1..Len(h))
    BY <1>1, <1>5
  <2>3. QED
    BY <1>1, <1>2, <2>1, <2>2, FS_Subset
<1>8. QED
  BY <1>6, <1>7 DEF g, n, Fits

-----------------------------------------------------------------------------
(* Every step keeps the open window's accumulators, the rows of the closed *)
(* windows and the counter of late trades what the trades received say.    *)

\* Nothing is received before Aggregator::new.
LEMMA InitFInv == Init => FInv
<1> SUFFICES ASSUME Init PROVE FInv
  OBVIOUS
<1>1. history = <<>> /\ window = NoWindow /\ dropped_late_trades = 0
  BY DEF Init
<1>2. IInv
  BY InitIInv
<1>3. OpenExact
  BY <1>1 DEF OpenExact, Init
<1>4. Rejected(history) = {} /\ Windows(history) = {}
  BY <1>1 DEF Rejected, Windows
<1>5. ClosedWindowExact
  BY <1>4 DEF ClosedWindowExact
<1>6. LateTradesCounted
  BY <1>1, <1>4, FS_EmptySet DEF LateTradesCounted
<1>7. QED
  BY <1>2, <1>3, <1>5, <1>6 DEF FInv

\* ingest of a late trade: no window accepts it and the counter grows.
LEMMA LateExact ==
  ASSUME FInv, NEW t \in Trades, IngestLate(t)
  PROVE  /\ OpenExact' /\ ClosedWindowExact' /\ LateTradesCounted'
         /\ \A w : Accepted(history', w) = Accepted(history, w)
<1> DEFINE h == history
           n == Len(h) + 1
<1>1. /\ task = "running" /\ task' = task
      /\ history' = Append(h, t)
      /\ window # NoWindow /\ TradeWindow(t) < window
      /\ dropped_late_trades' = dropped_late_trades + 1
      /\ window' = window /\ accum' = accum /\ ohlc' = ohlc /\ table' = table
  BY DEF IngestLate, IsLate, Receive, NoPublish
<1>2. h \in Seq(Trades) /\ window \in Nat /\ TradeWindow(t) \in Nat
  BY <1>1, TradeTyped DEF FInv, IInv, TypeOK
<1>3. /\ \A i \in DOMAIN h : TradeWindow(h[i]) <= window
      /\ Accepted(h, window) # {}
      /\ accum = Footprint(h, window)
      /\ ohlc = Candle(h, window)
  BY <1>1 DEF FInv, OpenExact
<1>4. PICK i \in DOMAIN h : TradeWindow(h[i]) = window
  BY <1>3 DEF Accepted
<1>5. ~\A j \in DOMAIN h : TradeWindow(h[j]) <= TradeWindow(t)
  BY <1>1, <1>2, <1>4
<1>6. ASSUME NEW w PROVE Accepted(Append(h, t), w) = Accepted(h, w)
  <2>1. Accepted(Append(h, t), w)
          = Accepted(h, w)
              \cup (IF /\ TradeWindow(t) = w
                       /\ \A j \in DOMAIN h : TradeWindow(h[j]) <= w
                    THEN {n} ELSE {})
    BY <1>2, AcceptedAppend
  <2>2. QED
    BY <1>5, <2>1
<1>7. Append(h, t) # <<>> /\ h # <<>>
  <2>1. Len(Append(h, t)) = Len(h) + 1 /\ Len(h) \in Nat
    BY <1>2
  <2>2. DOMAIN h # {}
    BY <1>4
  <2>3. QED
    BY <2>1, <2>2
<1>8. OpenExact'
  <2>1. \A j \in DOMAIN Append(h, t) : TradeWindow(Append(h, t)[j]) <= window
    <3>1. /\ DOMAIN Append(h, t) = 1..n /\ DOMAIN h = 1..Len(h) /\ Len(h) \in Nat
          /\ \A j \in DOMAIN h : Append(h, t)[j] = h[j]
          /\ Append(h, t)[n] = t
      BY <1>2, AppendFacts
    <3>2. \A j \in 1..n : j \in 1..Len(h) \/ j = n
      BY <3>1
    <3>3. QED
      BY <1>1, <1>2, <1>3, <3>1, <3>2
  <2>2. Footprint(Append(h, t), window) = Footprint(h, window)
    BY <1>2, <1>6, FootprintSame
  <2>3. Candle(Append(h, t), window) = Candle(h, window)
    BY <1>2, <1>3, <1>6, CandleSame
  <2>4. QED
    BY <1>1, <1>3, <1>6, <1>7, <2>1, <2>2, <2>3 DEF OpenExact
<1>9. ClosedWindowExact'
  <2> SUFFICES ASSUME NEW w \in Windows(history'), Closed(w)'
               PROVE  StoredExactly(table', history', w)
    BY DEF ClosedWindowExact
  <2>1. Accepted(Append(h, t), w) # {}
    <3>1. Append(h, t) \in Seq(Trades)
      BY <1>2, AppendFacts
    <3>2. QED
      BY <1>1, <3>1, WindowsAre
  <2>2. Accepted(h, w) # {} /\ w \in Windows(h)
    BY <1>2, <1>6, <2>1, WindowsAre
  <2>3. Closed(w)
    BY <1>1 DEF Closed
  <2>4. StoredExactly(table, h, w)
    BY <2>2, <2>3 DEF FInv, ClosedWindowExact
  <2>5. StoredExactly(table, Append(h, t), w)
    BY <1>2, <1>6, <2>2, <2>4, StoredAppend
  <2>6. QED
    BY <1>1, <2>5
<1>10. LateTradesCounted'
  <2>1. /\ IsFiniteSet(Rejected(h)) /\ n \notin Rejected(h)
        /\ Rejected(Append(h, t)) = Rejected(h) \cup {n}
    BY <1>2, <1>5, RejectedAppend
  <2>2. Cardinality(Rejected(h) \cup {n}) = Cardinality(Rejected(h)) + 1
    BY <2>1, FS_AddElement
  <2>3. dropped_late_trades = Cardinality(Rejected(h))
    BY DEF FInv, LateTradesCounted
  <2>4. QED
    BY <1>1, <2>1, <2>2, <2>3 DEF LateTradesCounted
<1>11. QED
  BY <1>1, <1>6, <1>8, <1>9, <1>10

\* A trade no earlier one is of a later window than is booked on its window.
LEMMA BookTrade ==
  ASSUME NEW h \in Seq(Trades), NEW t \in Trades,
         \A j \in DOMAIN h : TradeWindow(h[j]) <= TradeWindow(t)
  PROVE  LET g == Append(h, t)
             w == TradeWindow(t)
         IN  /\ g # <<>>
             /\ Accepted(g, w) # {}
             /\ \A v : v # w => Accepted(g, v) = Accepted(h, v)
             /\ Footprint(g, w) = Accumulate(Footprint(h, w), t)
             /\ Accepted(h, w) = {} => /\ Footprint(h, w) = EmptyMap
                                       /\ Candle(g, w) = UpdateOhlc(NoOhlc, t)
             /\ Accepted(h, w) # {} => Candle(g, w) = UpdateOhlc(Candle(h, w), t)
             /\ \A j \in DOMAIN g : TradeWindow(g[j]) <= w
             /\ Rejected(g) = Rejected(h)
<1> DEFINE g == Append(h, t)
           w == TradeWindow(t)
           n == Len(h) + 1
<1>1. /\ Len(h) \in Nat /\ DOMAIN h = 1..Len(h) /\ DOMAIN g = 1..n
      /\ \A j \in DOMAIN h : g[j] = h[j]
      /\ g[n] = t
  BY AppendFacts
<1>2. w \in Nat
  BY TradeTyped
<1>3. ASSUME NEW v
      PROVE  Accepted(g, v)
               = Accepted(h, v)
                   \cup (IF /\ w = v /\ \A j \in DOMAIN h : TradeWindow(h[j]) <= v
                         THEN {n} ELSE {})
  BY AcceptedAppend
<1>4. Accepted(g, w) = Accepted(h, w) \cup {n}
  BY <1>3
<1>5. \A v : v # w => Accepted(g, v) = Accepted(h, v)
  BY <1>3
<1>6. Footprint(g, w) = Accumulate(Footprint(h, w), t)
  BY <1>4, FootprintAdd
<1>7. Accepted(h, w) # {} => Candle(g, w) = UpdateOhlc(Candle(h, w), t)
  BY <1>4, CandleAdd
<1>8. Accepted(h, w) = {} => /\ Footprint(h, w) = EmptyMap
                             /\ Candle(g, w) = UpdateOhlc(NoOhlc, t)
  <2> SUFFICES ASSUME Accepted(h, w) = {}
               PROVE  /\ Footprint(h, w) = EmptyMap
                      /\ Candle(g, w) = UpdateOhlc(NoOhlc, t)
    OBVIOUS
  <2>1. Buckets(h, w) = {}
    BY DEF Buckets
  <2>2. Footprint(h, w) = [b \in {} |-> SumOf(h, Booked(h, w, b))]
    BY <2>1 DEF Footprint
  <2>3. Footprint(h, w) = EmptyMap
    BY <2>2 DEF EmptyMap
  <2>4. QED
    BY <1>4, <2>3, CandleFirst
<1>9. \A j \in DOMAIN g : TradeWindow(g[j]) <= w
  <2>1. \A j \in 1..n : j \in 1..Len(h) \/ j = n
    BY <1>1
  <2>2. QED
    BY <1>1, <1>2, <2>1
<1>10. Rejected(g) = Rejected(h)
  <2>1. Rejected(g)
          = Rejected(h)
              \cup (IF \A j \in DOMAIN h : TradeWindow(h[j]) <= w THEN {} ELSE {n})
    BY RejectedAppend
  <2>2. QED
    BY <2>1
<1>11. g # <<>>
  <2>1. n \in DOMAIN g
    BY <1>1
  <2>2. QED
    BY <2>1
<1>12. Accepted(g, w) # {}
  BY <1>4
<1> HIDE DEF g, w, n
<1>13. QED
  BY <1>5, <1>6, <1>7, <1>8, <1>9, <1>10, <1>11, <1>12 DEF g, w

\* ingest into the open window: its accumulators and OHLC follow the trade
\* that its footprint and candle now count.
LEMMA CurrentExact ==
  ASSUME FInv, NEW t \in Trades, IngestCurrent(t)
  PROVE  /\ OpenExact' /\ ClosedWindowExact' /\ LateTradesCounted'
         /\ window # NoWindow => window' = window
         /\ \A w : w # window' => Accepted(history', w) = Accepted(history, w)
<1> DEFINE h == history
           g == Append(h, t)
           W == TradeWindow(t)
<1>1. /\ task = "running" /\ task' = task
      /\ history' = g
      /\ window = NoWindow \/ W = window
      /\ window' = W
      /\ accum' = Accumulate(accum, t)
      /\ ohlc' = UpdateOhlc(ohlc, t)
      /\ dropped_late_trades' = dropped_late_trades /\ table' = table
  BY DEF IngestCurrent, Receive, NoPublish
<1>2. h \in Seq(Trades) /\ W \in Nat
  BY TradeTyped DEF FInv, IInv, TypeOK
<1>3. /\ window = NoWindow <=> h = <<>>
      /\ window # NoWindow => /\ \A i \in DOMAIN h : TradeWindow(h[i]) <= window
                              /\ Accepted(h, window) # {}
                              /\ accum = Footprint(h, window)
                              /\ ohlc = Candle(h, window)
  BY <1>1 DEF FInv, OpenExact
<1>4. \A j \in DOMAIN h : TradeWindow(h[j]) <= W
  BY <1>1, <1>3
<1>5. /\ g # <<>>
      /\ Accepted(g, W) # {}
      /\ \A v : v # W => Accepted(g, v) = Accepted(h, v)
      /\ Footprint(g, W) = Accumulate(Footprint(h, W), t)
      /\ Accepted(h, W) = {} => /\ Footprint(h, W) = EmptyMap
                                /\ Candle(g, W) = UpdateOhlc(NoOhlc, t)
      /\ Accepted(h, W) # {} => Candle(g, W) = UpdateOhlc(Candle(h, W), t)
      /\ \A j \in DOMAIN g : TradeWindow(g[j]) <= W
      /\ Rejected(g) = Rejected(h)
  BY <1>2, <1>4, BookTrade
<1>6. accum = Footprint(h, W) /\ Candle(g, W) = UpdateOhlc(ohlc, t)
  <2>1. CASE window = NoWindow
    <3>1. h = <<>>
      BY <1>3, <2>1
    <3>2. Accepted(h, W) = {}
      BY <3>1 DEF Accepted
    <3>3. accum = EmptyMap /\ ohlc = NoOhlc
      <4>1. DOMAIN accum = {} /\ accum \in [DOMAIN accum -> Cell]
        BY <2>1 DEF FInv, IInv, NoMissingBucket, TypeOK
      <4>2. accum = EmptyMap
        BY <4>1 DEF EmptyMap
      <4>3. QED
        BY <1>1, <2>1, <4>2 DEF FInv, OpenExact
    <3>4. QED
      BY <1>5, <3>2, <3>3
  <2>2. CASE window # NoWindow
    BY <1>1, <1>3, <1>5, <2>2
  <2>3. QED
    BY <2>1, <2>2
<1>7. OpenExact'
  <2>1. window' # NoWindow
    BY <1>1, <1>2 DEF NoWindow
  <2> HIDE DEF h, g, W
  <2>2. QED
    BY <1>1, <1>5, <1>6, <2>1 DEF OpenExact
<1>8. ClosedWindowExact'
  <2> SUFFICES ASSUME NEW w \in Windows(history'), Closed(w)'
               PROVE  StoredExactly(table', history', w)
    BY DEF ClosedWindowExact
  <2>1. w < W
    BY <1>1 DEF Closed
  <2>2. Accepted(g, w) # {} /\ Accepted(g, w) = Accepted(h, w)
    <3>1. g \in Seq(Trades)
      BY <1>2, AppendFacts
    <3>2. w # W
      BY <1>2, <2>1
    <3>3. QED
      BY <1>1, <1>5, <3>1, <3>2, WindowsAre
  <2>3. w \in Windows(h)
    BY <1>2, <2>2, WindowsAre
  <2>4. window # NoWindow
    BY <1>3, <2>2 DEF Accepted
  <2>5. Closed(w)
    BY <1>1, <2>1, <2>4 DEF Closed
  <2>6. StoredExactly(table, h, w)
    BY <2>3, <2>5 DEF FInv, ClosedWindowExact
  <2>7. StoredExactly(table, g, w)
    BY <1>2, <2>2, <2>6, StoredAppend
  <2>8. QED
    BY <1>1, <2>7
<1>9. LateTradesCounted'
  BY <1>1, <1>5 DEF FInv, LateTradesCounted
<1>10. QED
  BY <1>1, <1>5, <1>7, <1>8, <1>9

\* Writing the closing Snapshot into a table T whose rows of the open window
\* are of its buckets stores that window exactly and disturbs no other.
LEMMA ClosingExact ==
  ASSUME FInv, task = "running", window # NoWindow,
         NEW T, DOMAIN T \subseteq Nat \X Nat,
         \A k \in DOMAIN T : k[1] = window => k[2] \in DOMAIN accum
  PROVE  /\ StoredExactly(Upsert(T, Rows(ClosingSnapshot)), history, window)
         /\ \A w : w # window /\ StoredExactly(T, history, w)
               => StoredExactly(Upsert(T, Rows(ClosingSnapshot)), history, w)
<1> DEFINE f == ClosingSnapshot
<1>1. f.window = window /\ f.clusters = accum /\ f.ohlc = ohlc
  BY ClosingFrame DEF FInv, IInv
<1>2. accum = Footprint(history, window) /\ ohlc = Candle(history, window)
  BY DEF FInv, OpenExact
<1>3. \A k \in DOMAIN T : k = <<k[1], k[2]>>
  OBVIOUS
<1> HIDE DEF f
<1>4. \A k \in DOMAIN T :
        k[1] = window => k[2] \in DOMAIN f.clusters /\ k = <<k[1], k[2]>>
  BY <1>1, <1>3
<1>5. f.clusters = Footprint(history, window) /\ f.ohlc = Candle(history, window)
  BY <1>1, <1>2
<1>6. StoredExactly(Upsert(T, Rows(f)), history, window)
  BY <1>1, <1>4, <1>5, StoredClosing
<1>7. \A w : w # window /\ StoredExactly(T, history, w)
         => StoredExactly(Upsert(T, Rows(f)), history, w)
  BY <1>1, StoredOther
<1>8. QED
  BY <1>6, <1>7 DEF f

\* The rows of the open window in the table are of its buckets.
LEMMA TableRowsOpen ==
  ASSUME FInv, task = "running"
  PROVE  /\ DOMAIN table \subseteq Nat \X Nat
         /\ \A k \in DOMAIN table : k[1] = window => k[2] \in DOMAIN accum
BY DEF FInv, IInv, TypeOK, RowsBehindAccum

\* ingest across a window roll, as far as the trades received are concerned:
\* the new window starts with the trade and no other accepts it.
LEMMA RollOpens ==
  ASSUME FInv, NEW t \in Trades, IngestRoll(t)
  PROVE  /\ OpenExact' /\ LateTradesCounted'
         /\ history' = Append(history, t) /\ history \in Seq(Trades)
         /\ window \in Nat
         /\ \A w \in Windows(history') :
              w < window' => /\ w \in Windows(history) /\ w <= window
                             /\ Accepted(history', w) = Accepted(history, w)
                             /\ Accepted(history, w) # {}
<1> DEFINE h == history
           g == Append(h, t)
           W == TradeWindow(t)
<1>1. /\ task = "running" /\ task' = task
      /\ history' = g
      /\ window # NoWindow /\ W > window
      /\ window' = W
      /\ accum' = Accumulate(EmptyMap, t)
      /\ ohlc' = UpdateOhlc(NoOhlc, t)
      /\ dropped_late_trades' = dropped_late_trades
  BY DEF IngestRoll, Receive
<1>2. h \in Seq(Trades) /\ W \in Nat /\ window \in Nat
  BY <1>1, TradeTyped DEF FInv, IInv, TypeOK
<1>3. \A i \in DOMAIN h : TradeWindow(h[i]) <= window
  BY <1>1 DEF FInv, OpenExact
<1>4. \A i \in DOMAIN h : TradeWindow(h[i]) \in Nat
  <2>1. \A i \in DOMAIN h : h[i] \in Trades
    BY <1>2, AppendFacts
  <2>2. QED
    BY <2>1, TradeTyped
<1>5. \A j \in DOMAIN h : TradeWindow(h[j]) <= W /\ TradeWindow(h[j]) # W
  BY <1>1, <1>2, <1>3, <1>4
<1>6. /\ g # <<>>
      /\ Accepted(g, W) # {}
      /\ \A v : v # W => Accepted(g, v) = Accepted(h, v)
      /\ Footprint(g, W) = Accumulate(Footprint(h, W), t)
      /\ Accepted(h, W) = {} => /\ Footprint(h, W) = EmptyMap
                                /\ Candle(g, W) = UpdateOhlc(NoOhlc, t)
      /\ \A j \in DOMAIN g : TradeWindow(g[j]) <= W
      /\ Rejected(g) = Rejected(h)
  BY <1>2, <1>5, BookTrade
<1>7. Accepted(h, W) = {}
  BY <1>5 DEF Accepted
<1>8. OpenExact'
  <2>1. window' # NoWindow
    BY <1>1, <1>2 DEF NoWindow
  <2> HIDE DEF h, g, W
  <2>2. QED
    BY <1>1, <1>6, <1>7, <2>1 DEF OpenExact
<1>9. LateTradesCounted'
  BY <1>1, <1>6 DEF FInv, LateTradesCounted
<1>10. ASSUME NEW w \in Windows(g), w < W
       PROVE  /\ w \in Windows(h) /\ w <= window
              /\ Accepted(g, w) = Accepted(h, w)
              /\ Accepted(h, w) # {}
  <2>1. g \in Seq(Trades)
    BY <1>2, AppendFacts
  <2>2. w # W
    BY <1>2, <1>10
  <2>3. Accepted(g, w) = Accepted(h, w) /\ Accepted(h, w) # {}
    BY <1>6, <1>10, <2>1, <2>2, WindowsAre
  <2>4. w \in Windows(h)
    BY <1>2, <2>3, WindowsAre
  <2>5. w <= window
    BY <1>3, <2>3 DEF Accepted
  <2>6. QED
    BY <2>3, <2>4, <2>5
<1>11. QED
  BY <1>1, <1>2, <1>8, <1>9, <1>10

\* The table at a window roll: the closed window is stored exactly.
LEMMA RollExact ==
  ASSUME FInv, NEW t \in Trades, IngestRoll(t)
  PROVE  ClosedWindowExact'
<1> DEFINE U == Upsert(table, Rows(ClosingSnapshot))
<1>1. /\ task = "running" /\ task' = task /\ window # NoWindow
      /\ ClosingSnapshot.kind = "Snapshot" /\ table' = U
  BY ClosingFrame DEF IngestRoll, Receive, Publish, FInv, IInv
<1>2. /\ history' = Append(history, t) /\ history \in Seq(Trades)
      /\ window \in Nat
      /\ \A w \in Windows(history') :
           w < window' => /\ w \in Windows(history) /\ w <= window
                          /\ Accepted(history', w) = Accepted(history, w)
                          /\ Accepted(history, w) # {}
  BY RollOpens
<1>3. /\ StoredExactly(U, history, window)
      /\ \A w : w # window /\ StoredExactly(table, history, w)
            => StoredExactly(U, history, w)
  BY <1>1, TableRowsOpen, ClosingExact
<1> HIDE DEF U
<1> SUFFICES ASSUME NEW w \in Windows(history'), Closed(w)'
             PROVE  StoredExactly(table', history', w)
  BY DEF ClosedWindowExact
<1>4. w < window'
  BY <1>1 DEF Closed
<1>5. /\ w \in Windows(history) /\ w <= window
      /\ Accepted(history', w) = Accepted(history, w)
      /\ Accepted(history, w) # {}
  BY <1>2, <1>4
<1>6. StoredExactly(U, history, w)
  <2>1. CASE w = window
    BY <1>3, <2>1
  <2>2. CASE w # window
    <3>1. w \in Nat
      BY <1>2, <1>5, TradeTyped, AppendFacts DEF Windows
    <3>2. Closed(w)
      BY <1>2, <1>5, <2>2, <3>1 DEF Closed
    <3>3. QED
      BY <1>3, <1>5, <2>2, <3>2 DEF FInv, ClosedWindowExact
  <2>3. QED
    BY <2>1, <2>2
<1>7. StoredExactly(U, Append(history, t), w)
  BY <1>2, <1>5, <1>6, StoredAppend
<1>8. QED
  BY <1>1, <1>2, <1>7

\* While the task runs no window is later than the open one.
LEMMA OpenIsLatest ==
  ASSUME FInv, task = "running", NEW w \in Windows(history)
  PROVE  /\ window # NoWindow /\ window \in Nat
         /\ w \in Nat /\ w <= window /\ Accepted(history, w) # {}
<1>1. history \in Seq(Trades) /\ window \in Nat \cup {NoWindow}
  BY DEF FInv, IInv, TypeOK
<1>2. PICK i \in DOMAIN history : w = TradeWindow(history[i])
  BY DEF Windows
<1>3. history # <<>> /\ history[i] \in Trades
  BY <1>1, <1>2
<1>4. window # NoWindow /\ w <= window
  BY <1>2, <1>3 DEF FInv, OpenExact
<1>5. w \in Nat
  BY <1>2, <1>3, TradeTyped
<1>6. QED
  BY <1>1, <1>4, <1>5 DEF Windows

\* tick writes no row and current_window_delta only rows of the open window.
LEMMA EmitExact ==
  ASSUME FInv, (\E now \in Clock : Tick(now)) \/ CurrentWindowDelta
  PROVE  /\ OpenExact' /\ ClosedWindowExact' /\ LateTradesCounted'
         /\ UNCHANGED <<window, accum, task, history>>
         /\ task = "running"
<1>1. /\ task = "running" /\ window # NoWindow
      /\ UNCHANGED <<window, accum, ohlc, task, history, dropped_late_trades>>
  BY DEF Tick, CurrentWindowDelta
<1>2. OpenExact' /\ LateTradesCounted'
  BY <1>1 DEF FInv, OpenExact, LateTradesCounted
<1>3. \A w : Closed(w)' <=> Closed(w)
  BY <1>1 DEF Closed
<1>4. CASE table' = table
  BY <1>1, <1>2, <1>3, <1>4 DEF FInv, ClosedWindowExact
<1>5. CASE CurrentWindowDelta
  <2> DEFINE f == Snapshot(window, sequence + 1, CellsOf(partial_dirty), ohlc)
  <2>1. table' = Upsert(table, Rows(f)) /\ f.window = window
    BY <1>5 DEF CurrentWindowDelta, Publish, Snapshot
  <2> HIDE DEF f
  <2>2. ASSUME NEW w \in Windows(history), Closed(w)
        PROVE  StoredExactly(table', history, w)
    <3>1. w # window
      BY <1>1, <2>2, OpenIsLatest DEF Closed
    <3>2. StoredExactly(table, history, w)
      BY <2>2 DEF FInv, ClosedWindowExact
    <3>3. QED
      BY <2>1, <3>1, <3>2, StoredOther
  <2>3. ClosedWindowExact'
    BY <1>1, <1>3, <2>2 DEF ClosedWindowExact
  <2>4. QED
    BY <1>1, <1>2, <2>3
<1>6. (\E now \in Clock : Tick(now)) => table' = table
  BY DEF Tick, Publish, Diff
<1>7. QED
  BY <1>4, <1>5, <1>6

\* The end of the stream with nothing accumulated: nothing was received.
LEMMA CloseIdleExact ==
  ASSUME FInv, CloseIdle
  PROVE  /\ OpenExact' /\ ClosedWindowExact' /\ LateTradesCounted'
         /\ Windows(history) = {}
<1>1. /\ task = "running" /\ task' = "exited" /\ DOMAIN accum = {}
      /\ history' = history /\ dropped_late_trades' = dropped_late_trades
  BY DEF CloseIdle, state
<1>2. history = <<>>
  BY <1>1 DEF FInv, IInv, NoMissingBucket, OpenExact
<1>3. Windows(history) = {}
  BY <1>2 DEF Windows
<1>4. OpenExact' /\ LateTradesCounted'
  BY <1>1 DEF FInv, OpenExact, LateTradesCounted
<1>5. ClosedWindowExact'
  BY <1>1, <1>3 DEF ClosedWindowExact
<1>6. QED
  BY <1>3, <1>4, <1>5

\* flush at the end of the stream stores the open window exactly.
LEMMA CloseFlushExact ==
  ASSUME FInv, CloseFlush
  PROVE  OpenExact' /\ ClosedWindowExact' /\ LateTradesCounted'
<1> DEFINE U == Upsert(table, Rows(ClosingSnapshot))
<1>1. /\ task = "running" /\ task' = "exited" /\ window # NoWindow
      /\ history' = history /\ dropped_late_trades' = dropped_late_trades
  BY DEF CloseFlush, FInv, IInv, NoMissingBucket
<1>2. table' = U
  BY <1>1, ClosingFrame DEF CloseFlush, Publish, FInv, IInv
<1>3. /\ StoredExactly(U, history, window)
      /\ \A w : w # window /\ StoredExactly(table, history, w)
            => StoredExactly(U, history, w)
  BY <1>1, TableRowsOpen, ClosingExact
<1> HIDE DEF U
<1>4. OpenExact' /\ LateTradesCounted'
  BY <1>1 DEF FInv, OpenExact, LateTradesCounted
<1>5. ASSUME NEW w \in Windows(history) PROVE StoredExactly(U, history, w)
  <2>1. CASE w = window
    BY <1>3, <2>1
  <2>2. CASE w # window
    <3>1. Closed(w)
      BY <1>1, <2>2, OpenIsLatest DEF Closed
    <3>2. StoredExactly(table, history, w)
      BY <3>1 DEF FInv, ClosedWindowExact
    <3>3. QED
      BY <1>3, <2>2, <3>2
  <2>3. QED
    BY <2>1, <2>2
<1>6. ClosedWindowExact'
  BY <1>1, <1>2, <1>5 DEF ClosedWindowExact
<1>7. QED
  BY <1>4, <1>6

\* Every step preserves the invariant with the reference definitions.
LEMMA NextFInv == FInv /\ [Next]_vars => FInv'
<1> SUFFICES ASSUME FInv, [Next]_vars PROVE FInv'
  OBVIOUS
<1>1. IInv'
  BY NextIInv DEF FInv
<1> SUFFICES OpenExact' /\ ClosedWindowExact' /\ LateTradesCounted'
  BY <1>1 DEF FInv
<1>2. CASE UNCHANGED vars
  <2>1. UNCHANGED <<window, accum, ohlc, task, table, history, dropped_late_trades>>
    BY <1>2 DEF vars, state
  <2>2. QED
    BY <2>1 DEF FInv, OpenExact, ClosedWindowExact, LateTradesCounted, Closed
<1>3. CASE \E t \in Trades : IngestLate(t) \/ IngestCurrent(t) \/ IngestRoll(t)
  BY <1>3, LateExact, CurrentExact, RollOpens, RollExact
<1>4. CASE (\E now \in Clock : Tick(now)) \/ CurrentWindowDelta
  BY <1>4, EmitExact
<1>5. CASE CloseIdle
  BY <1>5, CloseIdleExact
<1>6. CASE CloseFlush
  BY <1>6, CloseFlushExact
<1>7. QED
  BY <1>2, <1>3, <1>4, <1>5, <1>6 DEF Next

\* The invariant with the reference definitions holds in every reachable
\* state of run_aggregator.
THEOREM FootprintInvariance == Spec => []FInv
  BY InitFInv, NextFInv, PTL DEF Spec

\* A closed window is stored exactly: every bucket with a trade of the window
\* and no other, the sums of its trades capped at i64::MAX and u32::MAX, and
\* the first, last, highest and lowest price, for any order of trades, ticks
\* and deltas and any number of trades (aggregator.rs, ingest and flush).
THEOREM ClosedExact == Spec => []ClosedWindowExact
<1>1. FInv => ClosedWindowExact
  BY DEF FInv
<1>2. QED
  BY FootprintInvariance, <1>1, PTL

\* dropped_late_trades counts exactly the trades booked on no window: none is
\* lost without being counted and none is counted and booked.
THEOREM NoTradeLost == Spec => []LateTradesCounted
<1>1. FInv => LateTradesCounted
  BY DEF FInv
<1>2. QED
  BY FootprintInvariance, <1>1, PTL

-----------------------------------------------------------------------------
(* The table that some Snapshots never reach.                              *)

\* The lossy specification adds a table to the aggregator and nothing else.
LEMMA LossyInitFacts == LossyInit => LInv
<1> SUFFICES ASSUME LossyInit PROVE LInv
  OBVIOUS
<1>1. FInv
  BY InitFInv DEF LossyInit
<1>2. history = <<>> /\ DOMAIN stored = {}
  BY DEF LossyInit, Init, EmptyMap
<1>3. Windows(history) = {}
  BY <1>2 DEF Windows
<1>4. StoredBehindAccum /\ ClosingRestores
  BY <1>2, <1>3 DEF StoredBehindAccum, ClosingRestores
<1>5. QED
  BY <1>1, <1>4 DEF LInv

\* Nothing is written, and no closing Snapshot lost, while nothing but Diffs
\* is published.
LEMMA NotWritten ==
  ASSUME LossyNext, published' = published \/ published'.kind # "Snapshot"
  PROVE  stored' = stored /\ missed' = missed
BY DEF LossyNext

\* A Snapshot is written or lost; the closing one is a new frame.
LEMMA WrittenOrLost ==
  ASSUME FInv, LossyNext, task = "running", window # NoWindow,
         NEW f, Publish(f), f.kind = "Snapshot",
         f.window = window, f.sequence = sequence + 1
  PROVE  \/ stored' = Upsert(stored, Rows(f)) /\ missed' = missed
         \/ stored' = stored /\ missed \subseteq missed'
              /\ (Closes => missed' = missed \cup {window})
<1>1. published' = f
  BY DEF Publish
<1>2. published' # published
  <2>1. /\ published.window = window => sequence = published.sequence
        /\ sequence \in Nat
    BY DEF FInv, IInv, SequenceTracksPublished, TypeOK
  <2>2. QED
    BY <1>1, <2>1
<1>3. Store \/ Lose
  BY <1>1, <1>2 DEF LossyNext
<1>4. QED
  BY <1>1, <1>3 DEF Store, Lose

\* Late trades, trades of the open window and idle ends leave the table alone.
LEMMA LossyIngest ==
  ASSUME LInv, LossyNext, NEW t \in Trades, IngestLate(t) \/ IngestCurrent(t)
  PROVE  StoredBehindAccum' /\ ClosingRestores'
<1>1. /\ task = "running" /\ task' = task
      /\ history' = Append(history, t) /\ published' = published
  BY DEF IngestLate, IngestCurrent, Receive, NoPublish
<1>2. stored' = stored /\ missed' = missed
  BY <1>1, NotWritten
<1>3. FInv /\ StoredBehindAccum /\ ClosingRestores
  BY DEF LInv
<1>4. /\ history \in Seq(Trades) /\ window \in Nat \cup {NoWindow}
      /\ TradeWindow(t) \in Nat
      /\ window = NoWindow => history = <<>>
  BY <1>1, <1>3, TradeTyped DEF FInv, IInv, TypeOK, OpenExact
<1>5. /\ \A w : w < window' => Accepted(history', w) = Accepted(history, w)
      /\ window # NoWindow => window' = window
      /\ window' \in Nat
      /\ DOMAIN accum \subseteq DOMAIN accum'
  <2>1. CASE IngestLate(t)
    <3>1. \A w : Accepted(history', w) = Accepted(history, w)
      BY <1>3, <2>1, LateExact
    <3>2. window' = window /\ accum' = accum /\ window # NoWindow
      BY <2>1 DEF IngestLate, IsLate
    <3>3. QED
      BY <1>4, <3>1, <3>2
  <2>2. CASE IngestCurrent(t)
    <3>1. /\ window # NoWindow => window' = window
          /\ \A w : w # window' => Accepted(history', w) = Accepted(history, w)
      BY <1>3, <2>2, CurrentExact
    <3>2. window' \in Nat
      BY <1>4, <2>2 DEF IngestCurrent
    <3>3. DOMAIN accum \subseteq DOMAIN accum'
      BY <2>2 DEF IngestCurrent, Accumulate
    <3>4. \A w : w < window' => w # window'
      BY <3>2
    <3>5. QED
      BY <3>1, <3>2, <3>3, <3>4
  <2>3. QED
    BY <2>1, <2>2
<1>6. StoredBehindAccum'
  <2>1. /\ DOMAIN stored \subseteq Nat \X Nat
        /\ \A k \in DOMAIN stored : /\ k[1] <= window
                                    /\ k[1] = window => k[2] \in DOMAIN accum
    BY <1>1, <1>3 DEF StoredBehindAccum
  <2>2. ASSUME NEW k \in DOMAIN stored
        PROVE  /\ k[1] <= window'
               /\ k[1] = window' => k[2] \in DOMAIN accum'
    <3>1. k[1] \in Nat /\ k[1] <= window
      BY <2>1
    <3>2. window # NoWindow
      BY <3>1 DEF NoWindow
    <3>3. QED
      BY <1>5, <2>1, <3>2
  <2>3. QED
    BY <1>2, <2>1, <2>2 DEF StoredBehindAccum
<1>7. ClosingRestores'
  <2> SUFFICES ASSUME NEW w \in Windows(history') \ missed', Closed(w)'
               PROVE  StoredExactly(stored', history', w)
    BY DEF ClosingRestores
  <2>1. w < window'
    BY <1>1 DEF Closed
  <2>2. Accepted(history', w) = Accepted(history, w) /\ Accepted(history, w) # {}
    <3>1. history' \in Seq(Trades)
      BY <1>1, <1>4, AppendFacts
    <3>2. Accepted(history', w) # {}
      BY <3>1, WindowsAre
    <3>3. QED
      BY <1>5, <2>1, <3>2
  <2>3. w \in Windows(history) \ missed
    BY <1>2, <1>4, <2>2, WindowsAre
  <2>4. Closed(w)
    <3>1. window # NoWindow
      BY <1>4, <2>2 DEF Accepted
    <3>2. QED
      BY <1>5, <2>1, <3>1 DEF Closed
  <2>5. StoredExactly(stored, history, w)
    BY <1>3, <2>3, <2>4 DEF ClosingRestores
  <2>6. StoredExactly(stored, Append(history, t), w)
    BY <1>4, <1>1, <2>2, <2>5, StoredAppend
  <2>7. QED
    BY <1>1, <1>2, <2>6
<1>8. QED
  BY <1>6, <1>7

\* Whether the closing Snapshot is written or lost: the windows closed before
\* keep their rows, and the one it closes is stored exactly or missed.
LEMMA ClosingStored ==
  ASSUME LInv, LossyNext, task = "running", window # NoWindow,
         Publish(ClosingSnapshot), Closes
  PROVE  /\ DOMAIN stored' \subseteq Nat \X Nat
         /\ \A k \in DOMAIN stored' : k[1] <= window
         /\ \A w \in Windows(history) \ missed' : StoredExactly(stored', history, w)
<1> DEFINE f == ClosingSnapshot
           U == Upsert(stored, Rows(f))
<1>1. FInv /\ StoredBehindAccum /\ ClosingRestores
  BY DEF LInv
<1>2. /\ GoodFrame(f) /\ f.kind = "Snapshot"
      /\ f.window = window /\ f.sequence = sequence + 1
  BY <1>1, ClosingFrame DEF FInv, IInv
<1>3. \/ stored' = U /\ missed' = missed
      \/ stored' = stored /\ missed' = missed \cup {window}
  BY <1>1, <1>2, WrittenOrLost
<1>4. /\ DOMAIN stored \subseteq Nat \X Nat
      /\ \A k \in DOMAIN stored : /\ k[1] <= window
                                  /\ k[1] = window => k[2] \in DOMAIN accum
  BY <1>1 DEF StoredBehindAccum
<1>5. /\ StoredExactly(U, history, window)
      /\ \A w : w # window /\ StoredExactly(stored, history, w)
            => StoredExactly(U, history, w)
  BY <1>1, <1>4, ClosingExact
<1>6. DOMAIN U = DOMAIN stored \cup FrameKeys(f)
  BY UpsertRows
<1>7. FrameKeys(f) \subseteq Nat \X Nat /\ \A k \in FrameKeys(f) : k[1] = window
  BY <1>2, FrameKeysFacts
<1> HIDE DEF f, U
<1>8. window \in Nat
  BY <1>1 DEF FInv, IInv, TypeOK
<1>9. DOMAIN stored' \subseteq Nat \X Nat /\ \A k \in DOMAIN stored' : k[1] <= window
  BY <1>3, <1>4, <1>6, <1>7, <1>8
<1>10. ASSUME NEW w \in Windows(history) \ missed'
       PROVE  StoredExactly(stored', history, w)
  <2>1. CASE w = window
    <3>1. stored' = U
      BY <1>3, <2>1
    <3>2. QED
      BY <1>5, <2>1, <3>1
  <2>2. CASE w # window
    <3>1. w \in Windows(history) \ missed
      BY <1>3
    <3>2. Closed(w)
      BY <1>1, <2>2, OpenIsLatest DEF Closed
    <3>3. StoredExactly(stored, history, w)
      BY <1>1, <3>1, <3>2 DEF ClosingRestores
    <3>4. QED
      BY <1>3, <1>5, <2>2, <3>3
  <2>3. QED
    BY <2>1, <2>2
<1>11. QED
  BY <1>9, <1>10

\* The window roll and the end of the stream close the open window.
LEMMA LossyClose ==
  ASSUME LInv, LossyNext, (\E t \in Trades : IngestRoll(t)) \/ CloseFlush
  PROVE  StoredBehindAccum' /\ ClosingRestores'
<1>1. FInv
  BY DEF LInv
<1>2. /\ task = "running" /\ window # NoWindow /\ Publish(ClosingSnapshot) /\ Closes
  <2>1. CASE \E t \in Trades : IngestRoll(t)
    <3>1. PICK t \in Trades : IngestRoll(t)
      BY <2>1
    <3>2. window \in Nat
      BY <1>1, <3>1, RollOpens
    <3>3. TradeWindow(t) \in Nat
      BY TradeTyped
    <3>4. QED
      BY <3>1, <3>2, <3>3 DEF IngestRoll, Receive, Closes
  <2>2. CASE CloseFlush
    BY <1>1, <2>2 DEF CloseFlush, Closes, FInv, IInv, NoMissingBucket
  <2>3. QED
    BY <2>1, <2>2
<1>3. /\ DOMAIN stored' \subseteq Nat \X Nat
      /\ \A k \in DOMAIN stored' : k[1] <= window
      /\ \A w \in Windows(history) \ missed' : StoredExactly(stored', history, w)
  BY <1>2, ClosingStored
<1>4. CASE CloseFlush
  BY <1>3, <1>4 DEF CloseFlush, StoredBehindAccum, ClosingRestores
<1>5. ASSUME NEW t \in Trades, IngestRoll(t)
      PROVE  StoredBehindAccum' /\ ClosingRestores'
  <2>1. /\ history' = Append(history, t) /\ history \in Seq(Trades)
        /\ window \in Nat
        /\ \A w \in Windows(history') :
             w < window' => /\ w \in Windows(history) /\ w <= window
                            /\ Accepted(history', w) = Accepted(history, w)
                            /\ Accepted(history, w) # {}
    BY <1>1, <1>5, RollOpens
  <2>2. task' = "running" /\ window' > window /\ window' \in Nat
    BY <1>5, TradeTyped DEF IngestRoll, Receive
  <2>3. StoredBehindAccum'
    <3>1. ASSUME NEW k \in DOMAIN stored' PROVE k[1] <= window' /\ k[1] # window'
      <4>1. k[1] \in Nat /\ k[1] <= window
        BY <1>3
      <4>2. QED
        BY <2>1, <2>2, <4>1
    <3>2. QED
      BY <1>3, <3>1 DEF StoredBehindAccum
  <2>4. ASSUME NEW w \in Windows(history') \ missed', Closed(w)'
        PROVE  StoredExactly(stored', history', w)
    <3>1. w < window'
      BY <2>2, <2>4 DEF Closed
    <3>2. /\ w \in Windows(history) \ missed'
          /\ Accepted(history', w) = Accepted(history, w)
          /\ Accepted(history, w) # {}
      BY <2>1, <2>4, <3>1
    <3>3. StoredExactly(stored', history, w)
      BY <1>3, <3>2
    <3>4. QED
      BY <2>1, <3>2, <3>3, StoredAppend
  <2>5. QED
    BY <2>3, <2>4 DEF ClosingRestores
<1>6. QED
  BY <1>4, <1>5

\* Diffs reach no table, and a delta only the rows of the open window.
LEMMA LossyEmit ==
  ASSUME LInv, LossyNext, (\E now \in Clock : Tick(now)) \/ CurrentWindowDelta
  PROVE  StoredBehindAccum' /\ ClosingRestores'
<1>1. FInv /\ StoredBehindAccum /\ ClosingRestores
  BY DEF LInv
<1>2. UNCHANGED <<window, accum, task, history>> /\ task = "running"
  BY <1>1, EmitExact
<1>3. \A w : Closed(w)' <=> Closed(w)
  BY <1>2 DEF Closed
<1>4. ASSUME stored' = stored, missed \subseteq missed'
      PROVE  StoredBehindAccum' /\ ClosingRestores'
  BY <1>1, <1>2, <1>3, <1>4 DEF StoredBehindAccum, ClosingRestores
<1>5. CASE \E now \in Clock : Tick(now)
  <2>1. published'.kind # "Snapshot"
    BY <1>5 DEF Tick, Publish, Diff
  <2>2. QED
    BY <1>4, <2>1, NotWritten
<1>6. CASE CurrentWindowDelta
  <2> DEFINE f == Snapshot(window, sequence + 1, CellsOf(partial_dirty), ohlc)
  <2>1. /\ Publish(f) /\ window # NoWindow
        /\ f.kind = "Snapshot" /\ f.window = window /\ f.sequence = sequence + 1
        /\ DOMAIN f.clusters = partial_dirty
    BY <1>6 DEF CurrentWindowDelta, Snapshot, CellsOf
  <2>2. GoodFrame(f)
    BY <1>1, <2>1 DEF FInv, IInv, TypeOK, NoMissingBucket, GoodFrame, Snapshot,
                      CellsOf, NoWindow
  <2> HIDE DEF f
  <2>3. \/ stored' = Upsert(stored, Rows(f)) /\ missed' = missed
        \/ stored' = stored /\ missed \subseteq missed'
    BY <1>1, <1>2, <2>1, WrittenOrLost
  <2>4. CASE stored' = Upsert(stored, Rows(f)) /\ missed' = missed
    <3>1. DOMAIN stored' = DOMAIN stored \cup FrameKeys(f)
      BY <2>4, UpsertRows
    <3>2. /\ FrameKeys(f) \subseteq Nat \X Nat
          /\ \A k \in FrameKeys(f) : k[1] = window /\ k[2] \in partial_dirty
      BY <2>1, <2>2, FrameKeysFacts
    <3>3. partial_dirty \subseteq DOMAIN accum /\ window \in Nat
      BY <1>1, <2>1 DEF FInv, IInv, NoMissingBucket, TypeOK
    <3>4. StoredBehindAccum'
      BY <1>1, <1>2, <3>1, <3>2, <3>3 DEF StoredBehindAccum
    <3>5. ASSUME NEW w \in Windows(history) \ missed, Closed(w)
          PROVE  StoredExactly(stored', history, w)
      <4>1. w # window
        BY <1>1, <1>2, <3>5, OpenIsLatest DEF Closed
      <4>2. StoredExactly(stored, history, w)
        BY <1>1, <3>5 DEF ClosingRestores
      <4>3. QED
        BY <2>1, <2>4, <4>1, <4>2, StoredOther
    <3>6. ClosingRestores'
      BY <1>2, <1>3, <2>4, <3>5 DEF ClosingRestores
    <3>7. QED
      BY <3>4, <3>6
  <2>5. QED
    BY <1>4, <2>3, <2>4
<1>7. QED
  BY <1>5, <1>6

\* Every step of the lossy specification preserves its invariant.
LEMMA LossyNextLInv == LInv /\ [LossyNext]_lossyVars => LInv'
<1> SUFFICES ASSUME LInv, [LossyNext]_lossyVars PROVE LInv'
  OBVIOUS
<1>1. FInv /\ StoredBehindAccum /\ ClosingRestores
  BY DEF LInv
<1>2. FInv'
  <2>1. [Next]_vars
    BY DEF LossyNext, lossyVars
  <2>2. QED
    BY <1>1, <2>1, NextFInv
<1> SUFFICES StoredBehindAccum' /\ ClosingRestores'
  BY <1>2 DEF LInv
<1>3. CASE UNCHANGED lossyVars
  <2>1. UNCHANGED <<window, accum, task, history, stored, missed>>
    BY <1>3 DEF lossyVars, vars, state
  <2>2. QED
    BY <1>1, <2>1 DEF StoredBehindAccum, ClosingRestores, Closed
<1>4. CASE LossyNext
  <2>1. Next
    BY <1>4 DEF LossyNext
  <2>2. CASE \E t \in Trades : IngestLate(t) \/ IngestCurrent(t)
    BY <1>4, <2>2, LossyIngest
  <2>3. CASE (\E t \in Trades : IngestRoll(t)) \/ CloseFlush
    BY <1>4, <2>3, LossyClose
  <2>4. CASE (\E now \in Clock : Tick(now)) \/ CurrentWindowDelta
    BY <1>4, <2>4, LossyEmit
  <2>5. CASE CloseIdle
    <3>1. /\ task' = "exited" /\ published' = published /\ history' = history
          /\ Windows(history) = {}
      BY <1>1, <2>5, CloseIdleExact DEF CloseIdle, NoPublish
    <3>2. stored' = stored
      BY <1>4, <3>1, NotWritten
    <3>3. QED
      BY <1>1, <3>1, <3>2 DEF StoredBehindAccum, ClosingRestores
  <2>6. QED
    BY <2>1, <2>2, <2>3, <2>4, <2>5 DEF Next
<1>5. QED
  BY <1>3, <1>4

\* Losing frames changes nothing in the aggregator itself: every theorem about
\* Spec also holds where Snapshots are lost on their way to the table.
THEOREM LossyImplements == LossySpec => Spec
<1>1. LossyInit => Init
  BY DEF LossyInit
<1>2. [LossyNext]_lossyVars => [Next]_vars
  BY DEF LossyNext, lossyVars
<1>3. QED
  BY <1>1, <1>2, PTL DEF LossySpec, Spec

\* "even if N delta emits are lost, closing restores the correct state of the
\* window" (task.rs, run_aggregator): whichever Snapshots the fanout or the
\* writer lost, every closed window whose closing Snapshot was written is
\* stored exactly, for any trades and any pattern of losses.
THEOREM ClosingRestoresWindow == LossySpec => []ClosingRestores
<1>1. LInv => ClosingRestores
  BY DEF LInv
<1>2. QED
  BY LossyInitFacts, LossyNextLInv, <1>1, PTL DEF LossySpec

=============================================================================
