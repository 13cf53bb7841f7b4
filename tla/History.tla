--------------------------------- MODULE History ---------------------------------
(***************************************************************************)
(* GET /v1/clusters/range (crates/cluster-api/src/cluster_history.rs): the *)
(* checks on the parameters, the estimate, the query and what is made of   *)
(* its result.  All of it is a function of the stored rows and the request.*)
(*                                                                         *)
(* `rows' is the table of the base timeframe read with FINAL: a function   *)
(* from <<window, price>> to the newest row of that key, which carries the *)
(* window's OHLC as it was when the row was written; `newest' tells        *)
(* whether no row of its window has a later ingested_at.  Windows are      *)
(* named by their start.  A request is a record with interval_seconds,     *)
(* from and to; its names are of the one stream the table stands for.      *)
(* Decimal scales are left out: they are per stream.                       *)
(***************************************************************************)
EXTENDS Config, FiniteSetsExt

CONSTANTS
  SupportedIntervals,
  BucketsPerWindow,    \* rows per window assumed by the estimate
  MaxBars              \* cap on the rows of an answer

ASSUME CapAssumption == MaxBars \in Nat

validate_params(q) ==
  /\ q.interval_seconds \in SupportedIntervals
  /\ q.from >= 0 /\ q.to >= 0
  /\ q.to > q.from

estimate_max_rows(q) ==
  ((q.to - q.from) \div q.interval_seconds) * BucketsPerWindow

\* 400 for bad parameters, 413 for an estimate above the cap, else 200.
Admitted(q) == validate_params(q) /\ estimate_max_rows(q) <= MaxBars

\* ClickHouse's maxIf and minIf over the positive values, 0 if there are none.
MaxIf(S) == LET P == {x \in S : x > 0} IN IF P = {} THEN 0 ELSE Max(P)
MinIf(S) == LET P == {x \in S : x > 0} IN IF P = {} THEN 0 ELSE Min(P)

\* Faulty variant of Filter: the end of the range is included.
FilterClosed(rows, q) ==
  {k \in DOMAIN rows : q.from <= k[1] /\ k[1] <= q.to}

\* The WHERE of both queries; `to' is excluded.
Filter(rows, q) ==
  {k \in DOMAIN rows : q.from <= k[1] /\ k[1] < q.to}

\* The OHLC of one window from the rows K of its prices, which were written
\* at different times.  close is argMaxIf(close, ingested_at): rows of one
\* INSERT share ingested_at, so it is any value of the newest rows.
SubBar(rows, K) ==
  [open  |-> MaxIf({rows[k].open : k \in K}),
   close |-> {rows[k].close : k \in {j \in K : rows[j].newest}},
   high  |-> MaxIf({rows[k].high : k \in K}),
   low   |-> MinIf({rows[k].low : k \in K})]

\* toStartOfInterval.
StartOfInterval(t, n) == (t \div n) * n

\* The second level: the OHLC of a rolled-up window from its sub-windows.
RolledBar(rows, K) ==
  LET subs == {k[1] : k \in K}
      Sub(w) == SubBar(rows, {k \in K : k[1] = w})
  IN  [open  |-> Sub(Min(subs)).open,
       close |-> Sub(Max(subs)).close,
       high  |-> MaxIf({Sub(w).high : w \in subs}),
       low   |-> MinIf({Sub(w).low : w \in subs})]

\* The sum of a column over some rows: all its units, counted.
Sum(column) == Cardinality(UNION {{k} \X (1..column[k]) : k \in DOMAIN column})

\* build_range_sql for an interval above the base one: per rolled window and
\* price the sums over the sub-windows, joined with the window's OHLC.
Rollup(rows, q) ==
  LET K == Filter(rows, q)
      Rw(k) == StartOfInterval(k[1], q.interval_seconds)
      Bucket(b) == {k \in K : Rw(k) = b[1] /\ k[2] = b[2]}
  IN  [b \in {<<Rw(k), k[2]>> : k \in K} |->
         [bid_qty |-> Sum([k \in Bucket(b) |-> rows[k].bid_qty]),
          ask_qty |-> Sum([k \in Bucket(b) |-> rows[k].ask_qty]),
          trades  |-> Sum([k \in Bucket(b) |-> rows[k].trades]),
          ohlc    |-> RolledBar(rows, {k \in K : Rw(k) = b[1]})]]

\* build_range_sql for the base interval (and for 30 s, which has a table of its
\* own): the rows themselves, joined with the OHLC of their window.
Direct(rows, q) ==
  LET K == Filter(rows, q)
  IN  [b \in K |-> [bid_qty |-> rows[b].bid_qty, ask_qty |-> rows[b].ask_qty,
                    trades  |-> rows[b].trades,
                    ohlc    |-> SubBar(rows, {k \in K : k[1] = b[1]})]]

build_range_sql(rows, q) ==
  IF q.interval_seconds = BaseTf THEN Direct(rows, q) ELSE Rollup(rows, q)

\* The loop over the lines of the result, ordered by window and price, stops
\* at MaxBars rows; the answer is still 200.
Parsed(result) ==
  LET Before(b) == {c \in DOMAIN result : \/ c[1] < b[1]
                                          \/ c[1] = b[1] /\ c[2] < b[2]}
  IN  [b \in {c \in DOMAIN result : Cardinality(Before(c)) < MaxBars} |-> result[b]]

cluster_range(rows, q) == Parsed(build_range_sql(rows, q))

\* Faulty variant of Immutable: one window of grace.
ImmutableEarly(q, now) == q.to + q.interval_seconds < now

\* The answer is sent with max-age=86400, immutable; otherwise with no-store.
Immutable(q, now) == q.to + 2 * q.interval_seconds < now

=============================================================================
