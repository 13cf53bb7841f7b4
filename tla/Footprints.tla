------------------------------ MODULE Footprints ------------------------------
(***************************************************************************)
(* What a window's footprint and candle are, computed from the whole list  *)
(* of trades received with plain counts and no running state: the          *)
(* reference that the published rows are compared with.                    *)
(***************************************************************************)
EXTENDS Aggregator, FiniteSetsExt

\* The trades booked on window w: those no trade of a later window precedes.
Accepted(h, w) ==
  {i \in DOMAIN h : /\ TradeWindow(h[i]) = w
                    /\ \A j \in 1..(i - 1) : TradeWindow(h[j]) <= w}

\* The accepted trades of the window in one bucket.
Booked(h, w, b) == {i \in Accepted(h, w) : BucketPrice(h[i]) = b}

\* Every unit of quantity that a set of trades moved on one side, one by one.
Units(h, is, side) ==
  UNION {{i} \X (1..h[i].qty) : i \in {j \in is : h[j].aggressor = side}}

Volume(h, is, side) == Cardinality(Units(h, is, side))

AtMost(n, max) == IF n > max THEN max ELSE n

\* What a set of trades adds up to: sums capped like the counters.
SumOf(h, is) ==
  [bid_qty |-> AtMost(Volume(h, is, "Bid"), MaxQty),
   ask_qty |-> AtMost(Volume(h, is, "Ask"), MaxQty),
   trades  |-> AtMost(Cardinality(is), MaxTradeCount)]

Buckets(h, w) == {BucketPrice(h[i]) : i \in Accepted(h, w)}

\* Bucket -> sums of the accepted trades of the window in that bucket.
Footprint(h, w) == [b \in Buckets(h, w) |-> SumOf(h, Booked(h, w, b))]

Prices(h, w) == {h[i].price : i \in Accepted(h, w)}

\* First, last, highest and lowest raw price of the window.
Candle(h, w) ==
  [open |-> h[Min(Accepted(h, w))].price,
   close |-> h[Max(Accepted(h, w))].price,
   high |-> Max(Prices(h, w)), low |-> Min(Prices(h, w))]

\* The windows some trade was booked on.
Windows(h) == {w \in {TradeWindow(h[i]) : i \in DOMAIN h} : Accepted(h, w) # {}}

\* The trades booked on no window.
Rejected(h) == {i \in DOMAIN h : i \notin Accepted(h, TradeWindow(h[i]))}

\* Table t holds exactly the footprint of window w: every bucket, no other,
\* each with the final sums and the window's OHLC.
StoredExactly(t, h, w) ==
  /\ {k[2] : k \in {k \in DOMAIN t : k[1] = w}} = Buckets(h, w)
  /\ \A k \in DOMAIN t :
       k[1] = w => t[k] = [cell |-> Footprint(h, w)[k[2]], ohlc |-> Candle(h, w)]

\* No trade of window w can be booked any more.
Closed(w) == w < window \/ task = "exited"

-----------------------------------------------------------------------------
(* Properties.                                                             *)

\* Once a window is closed (by a later trade or by the end of the stream) the
\* table holds exactly its footprint, whatever the order of trades, ticks and
\* deltas was.
ClosedWindowExact ==
  \A w \in Windows(history) : Closed(w) => StoredExactly(table, history, w)

\* No trade disappears: each one received is either booked on its window or
\* counted in dropped_late_trades.
LateTradesCounted == dropped_late_trades = Cardinality(Rejected(history))

(* The strengthening that makes the properties above inductive.            *)

\* The open window is the latest of all trades received, and the running
\* accumulators are what its accepted trades add up to.
OpenExact ==
  task = "running" =>
    /\ window = NoWindow <=> history = <<>>
    /\ window = NoWindow => ohlc = NoOhlc
    /\ window # NoWindow =>
         /\ \A i \in DOMAIN history : TradeWindow(history[i]) <= window
         /\ Accepted(history, window) # {}
         /\ accum = Footprint(history, window)
         /\ ohlc = Candle(history, window)

FInv == IInv /\ OpenExact /\ ClosedWindowExact /\ LateTradesCounted

=============================================================================
