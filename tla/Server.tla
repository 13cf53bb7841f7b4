--------------------------------- MODULE Server ---------------------------------
(***************************************************************************)
(* The server process from start to end, over and over, beside ClickHouse, *)
(* which outlives it: main of crates/cluster-ingest/src/main.rs, the TTL   *)
(* and the rows of the tables, and the history requests of a client that   *)
(* keeps what it was told is immutable.                                    *)
(*                                                                         *)
(* What lies between a trade and the table is the subject of Aggregator,   *)
(* BusPath and ChWriter; here it is what they promise while nothing is     *)
(* lost: the open window lives in memory, a delta stores the buckets       *)
(* changed since the last one with the OHLC of the moment, and the first   *)
(* trade of a later window stores the whole window.  MaxLag bounds the age *)
(* of a trade that is taken, and with it the time from the end of a window *)
(* to its last row; MaxFetch bounds the time of one read (the HTTP         *)
(* client's timeout).  The two together exceed a base window by at most 2. *)
(* Stored rows are of one stream; the retention rules are of all of them.  *)
(***************************************************************************)
EXTENDS History

CONSTANTS
  Configs,     \* configurations the operator may start the server with
  Env,         \* environments: [enabled, token]
  Ddl,         \* sets of tables whose MODIFY TTL may succeed together
  Tokens,      \* tokens a client may present (a set of sets)
  Stream,      \* the section whose rows are modelled
  Prints,      \* price and aggressor of the trades of the stream
  Ranges,      \* requests of the client
  MaxLag, MaxFetch,
  MaxStarts, MaxTrades, MaxTs, MaxNow   \* bounds on the number of steps

ASSUME ServerAssumption ==
  /\ \A t \in Prints : t.price \in Nat \ {0}
  /\ \A q \in Ranges : /\ q.from \in Int /\ q.to \in Int
                       /\ q.interval_seconds \in Nat /\ q.interval_seconds >= BaseTf
  /\ MaxLag \in Nat /\ MaxFetch \in Nat
  /\ MaxLag + MaxFetch <= BaseTf + 2

\* What deserialising the file gives, and that only tables which exist, those of
\* the supported intervals, can be altered.
ASSUME ConfigsAssumption ==
  /\ \A c \in Configs :
       /\ DOMAIN c = {"timeframes_secs", "auth", "retention", "enabled_exchanges", "disabled"}
       /\ c.retention.default_days \in Nat
       /\ DOMAIN c.retention.overrides \subseteq Nat
       /\ \A o \in Range(c.retention.overrides) : o.days \in Nat
  /\ \A ok \in Ddl : ok \subseteq SupportedIntervals

VARIABLES
  up,        \* the process runs and serves
  cfg,       \* the configuration of the last start
  ttl,       \* timeframe -> clauses in force on its table (in ClickHouse)
  applied,   \* timeframes whose retention the last start has settled
  now,
  bar,       \* the open window of the stream, NoBar if there is none
  rows,      \* the rows of the base table (in ClickHouse)
  fetch,     \* the request being served and the result read for it
  kept,      \* an answer the client keeps as immutable
  accepted,  \* every trade booked (history variable)
  torn,      \* windows not settled when a process ended (history variable)
  expired,   \* windows of which the TTL has deleted rows (history variable)
  starts     \* number of starts so far

table == <<ttl, rows, torn, expired>>
process == <<up, cfg, applied, starts>>
client == <<fetch, kept>>
vars == <<table, process, client, now, bar, accepted>>

NoConfig == [timeframes_secs |-> <<>>]
NoBar == [window |-> -1, cells |-> <<>>, ohlc |-> <<>>, dirty |-> {}]
Nothing == [q |-> <<>>, body |-> <<>>, at |-> 0]
StreamSlice == <<wire_id[Stream.exchange], market_column[Stream.market]>>

Init ==
  /\ up = FALSE /\ cfg = NoConfig /\ applied = {} /\ starts = 0
  /\ ttl = [tf \in SupportedIntervals |-> {}]
  /\ now = 0 /\ bar = NoBar /\ rows = <<>>
  /\ fetch = Nothing /\ kept = Nothing
  /\ accepted = <<>> /\ torn = {} /\ expired = {}

-----------------------------------------------------------------------------
(* Start and end of the process.                                           *)

\* main up to its wait for ctrl-c.  A configuration that fails a check ends
\* the process before it has done anything.  A MODIFY TTL that fails (outside
\* `ok') is logged and the start goes on; a table without clauses is left as
\* it is.  A listener that cannot be bound is logged too, and serves nothing.
Start(c, env, ok) ==
  LET auth == apply_env(c.auth, env)
      tfs == Range(c.timeframes_secs)
      written == {tf \in tfs \cap ok : c.retention.apply_on_start
                    /\ ttl_clause_for(c.retention, tf) # {}}
  IN  /\ ~up /\ starts < MaxStarts
      /\ starts' = starts + 1
      /\ AuthValid(auth) /\ validate_timeframes(c) /\ RetentionValid(c.retention)
      /\ up' = TRUE
      /\ cfg' = [c EXCEPT !.auth = auth]
      /\ ttl' = [tf \in DOMAIN ttl |->
                   IF tf \in written THEN ttl_clause_for(c.retention, tf) ELSE ttl[tf]]
      /\ applied' = IF c.retention.apply_on_start
                      THEN {tf \in tfs : tf \in ok \/ ttl_clause_for(c.retention, tf) = {}}
                      ELSE {}
      /\ UNCHANGED <<rows, torn, expired, client, now, bar, accepted>>

\* The process ends, by ctrl-c or not: the open window is lost with it (the
\* final frame has no reader, see Supervisor), and so are its requests.  The
\* next one starts without an open window: trades that arrive late are booked
\* again on windows already closed, from zero.
Exit ==
  /\ up
  /\ up' = FALSE
  /\ torn' = torn \cup {t.window : t \in {u \in Range(accepted) :
                u.window = bar.window \/ u.window + BaseTf > now - MaxLag}}
  /\ bar' = NoBar /\ fetch' = Nothing
  /\ UNCHANGED <<cfg, ttl, applied, rows, expired, kept, now, accepted, starts>>

-----------------------------------------------------------------------------
(* The stream, from the trade to the rows.                                 *)

NoCell == [bid_qty |-> 0, ask_qty |-> 0, trades |-> 0]
CellOf(b, p) == IF p \in DOMAIN b.cells THEN b.cells[p] ELSE NoCell

\* One trade of size 1 booked on a window's footprint.
Booked(b, t) ==
  LET c == CellOf(b, t.price)
      o == b.ohlc
  IN  [window |-> t.window,
       cells |-> [p \in DOMAIN b.cells \cup {t.price} |->
                    IF p # t.price THEN b.cells[p]
                    ELSE [bid_qty |-> c.bid_qty + IF t.side = "Bid" THEN 1 ELSE 0,
                          ask_qty |-> c.ask_qty + IF t.side = "Ask" THEN 1 ELSE 0,
                          trades |-> c.trades + 1]],
       ohlc |-> IF b = NoBar
                  THEN [open |-> t.price, close |-> t.price, high |-> t.price, low |-> t.price]
                  ELSE [open |-> o.open, close |-> t.price,
                        high |-> Max({o.high, t.price}), low |-> Min({o.low, t.price})],
       dirty |-> b.dirty \cup {t.price}]

\* The rows of some buckets of a window, over those already stored; `shared'
\* when they are in one INSERT with the rows stored before them.
Stored(b, prices, shared) ==
  LET new == {b.window} \X prices
  IN  [k \in DOMAIN rows \cup new |->
         IF k \notin new
         THEN [rows[k] EXCEPT !.newest = @ /\ (shared \/ k[1] # b.window)]
         ELSE [bid_qty |-> b.cells[k[2]].bid_qty, ask_qty |-> b.cells[k[2]].ask_qty,
               trades |-> b.cells[k[2]].trades, newest |-> TRUE,
               open |-> b.ohlc.open, close |-> b.ohlc.close,
               high |-> b.ohlc.high, low |-> b.ohlc.low]]

\* A trade up to MaxLag old.  One of an earlier window than the open one is
\* dropped; one of a later window stores the open window whole first.
Trade(print, ts) ==
  LET t == [window |-> StartOfInterval(ts, BaseTf), price |-> print.price,
            side |-> print.side]
  IN  /\ up /\ Stream \in Supervised(cfg)
      /\ BaseTf \in Range(cfg.timeframes_secs)
      /\ Len(accepted) < MaxTrades
      /\ ts \in 0..now /\ now - ts <= MaxLag
      /\ t.window >= bar.window
      /\ bar' = Booked(IF t.window = bar.window THEN bar ELSE NoBar, t)
      /\ rows' = IF bar # NoBar /\ t.window > bar.window
                   THEN Stored(bar, DOMAIN bar.cells, FALSE) ELSE rows
      /\ accepted' = Append(accepted, t)
      /\ UNCHANGED <<ttl, torn, expired, process, client, now>>

Delta(shared) ==
  /\ bar.dirty # {}
  /\ rows' = Stored(bar, bar.dirty, shared)
  /\ bar' = [bar EXCEPT !.dirty = {}]
  /\ UNCHANGED <<ttl, torn, expired, process, client, now, accepted>>

\* Time passes, but not past the deadline of a delta or of a read.  Time
\* between two processes only ages the rows and is left out.
Elapse ==
  /\ up /\ now < MaxNow
  /\ bar.dirty # {} => now - bar.window < MaxLag + BaseTf - 1
  /\ fetch # Nothing => now - fetch.at < MaxFetch
  /\ now' = now + 1
  /\ UNCHANGED <<table, process, client, bar, accepted>>

-----------------------------------------------------------------------------
(* ClickHouse deletes what a clause in force says.                         *)

Covers(clause, slice) ==
  IF clause.rest THEN slice \notin clause.slices ELSE slice \in clause.slices

\* The age at which rows of a slice are deleted, 0 for never.
DeleteAge(clauses, slice) ==
  LET days == {c.days : c \in {d \in clauses : d.action = "delete" /\ Covers(d, slice)}}
  IN  IF days = {} THEN 0 ELSE Min(days)

Expire ==
  LET age == DeleteAge(ttl[BaseTf], StreamSlice)
      old == {k \in DOMAIN rows : age > 0 /\ k[1] + age <= now}
  IN  /\ old # {}
      /\ rows' = [k \in DOMAIN rows \ old |-> rows[k]]
      /\ expired' = expired \cup {k[1] : k \in old}
      /\ UNCHANGED <<ttl, torn, process, client, now, bar, accepted>>

-----------------------------------------------------------------------------
(* A history request: the rows are read, and when the answer has come the  *)
(* handler reads the clock to decide on its caching.                       *)

Fetch(q, token) ==
  /\ up /\ fetch = Nothing /\ kept = Nothing
  /\ accepts(cfg.auth, token)
  /\ Admitted(q)
  /\ Immutable(q, now + MaxFetch)   \* others leave nothing behind
  /\ fetch' = [q |-> q, body |-> cluster_range(rows, q), at |-> now]
  /\ UNCHANGED <<table, process, kept, now, bar, accepted>>

\* 200 with the answer, or 502 when the read has failed.
Respond(ok) ==
  /\ fetch # Nothing
  /\ fetch' = Nothing
  /\ kept' = IF ok /\ Immutable(fetch.q, now) THEN fetch ELSE kept
  /\ UNCHANGED <<table, process, now, bar, accepted>>

Next ==
  \/ \E c \in Configs, env \in Env, ok \in Ddl : Start(c, env, ok)
  \/ Exit
  \/ \E print \in Prints, ts \in 0..MaxTs : Trade(print, ts)
  \/ \E shared \in BOOLEAN : Delta(shared)
  \/ Elapse
  \/ Expire
  \/ \E q \in Ranges, token \in Tokens : Fetch(q, token)
  \/ \E ok \in BOOLEAN : Respond(ok)

Spec == Init /\ [][Next]_vars

-----------------------------------------------------------------------------
(* Properties.                                                             *)

\* The rule the operator wrote for a slice of a table: the override that
\* names the timeframe, else the one for all timeframes, else the default.
DaysFor(r, tf, slice) ==
  LET Of(i) == {o \in Range(r.overrides) : Slice(o) = slice /\ o.interval_seconds = i}
  IN  IF Of(tf) # {} THEN (CHOOSE o \in Of(tf) : TRUE).days
      ELSE IF Of(AnyTf) # {} THEN (CHOOSE o \in Of(AnyTf) : TRUE).days
      ELSE r.default_days

\* `Change the retention' is done by editing the file and starting again: on
\* every table whose retention the start has settled, ClickHouse deletes the
\* rows of each slice at the age the new configuration gives, whatever was in
\* force before.
RetentionInForce ==
  up => \A tf \in applied, s \in Sections :
          LET slice == <<wire_id[s.exchange], market_column[s.market]>>
          IN  DeleteAge(ttl[tf], slice) = DaysFor(cfg.retention, tf, slice)

\* What an aggregator of the requested interval would have made of the
\* booked trades of the range.
Reference(q) ==
  LET n == q.interval_seconds
      idx == {i \in DOMAIN accepted : q.from <= accepted[i].window /\ accepted[i].window < q.to}
      Rw(i) == StartOfInterval(accepted[i].window, n)
      Of(b) == {i \in idx : Rw(i) = b[1] /\ accepted[i].price = b[2]}
      In(w) == {i \in idx : Rw(i) = w}
      Side(b, s) == Cardinality({i \in Of(b) : accepted[i].side = s})
  IN  [b \in {<<Rw(i), accepted[i].price>> : i \in idx} |->
         [bid_qty |-> Side(b, "Bid"), ask_qty |-> Side(b, "Ask"),
          trades |-> Cardinality(Of(b)),
          ohlc |-> [open |-> accepted[Min(In(b[1]))].price,
                    close |-> {accepted[Max(In(b[1]))].price},
                    high |-> Max({accepted[i].price : i \in In(b[1])}),
                    low |-> Min({accepted[i].price : i \in In(b[1])})]]]

\* A range of closed windows, all of them settled when a process ended and
\* none expired, that does not reach the cap on rows is answered exactly: buckets
\* summed over sub-windows, and OHLC put together from rows that were written
\* at different times, are those an aggregator of that interval would give.
RollupExact ==
  \A q \in Ranges :
    LET windows == {w \in q.from..(q.to - 1) : StartOfInterval(w, BaseTf) = w}
    IN  /\ Admitted(q)
        /\ windows \cap (torn \cup expired) = {}
        /\ \A w \in windows : w < bar.window
        /\ Cardinality(DOMAIN cluster_range(rows, q)) < MaxBars
        => cluster_range(rows, q) = Reference(q)

\* `A fair 422 on overshoot rather than cutting silently': a range the estimate
\* lets through is never answered with only the beginning of its rows.
NeverCutShort ==
  \A q \in Ranges : Admitted(q) => cluster_range(rows, q) = build_range_sql(rows, q)

\* Two answers agree; the first has no other close than the second.
SameButClose(r, s) ==
  /\ DOMAIN r = DOMAIN s
  /\ \A b \in DOMAIN r :
       /\ r[b].bid_qty = s[b].bid_qty /\ r[b].ask_qty = s[b].ask_qty
       /\ r[b].trades = s[b].trades
       /\ r[b].ohlc.open = s[b].ohlc.open
       /\ r[b].ohlc.high = s[b].ohlc.high /\ r[b].ohlc.low = s[b].ohlc.low
       /\ r[b].ohlc.close \subseteq s[b].ohlc.close

\* An answer the client may keep for a day does not go stale: apart from rows
\* the TTL deletes, asking again gives the same buckets and OHLC, although
\* trades, deltas and restarts go on and the clock is read only after the
\* rows.  The close may still be settled among the values of rows that share
\* an ingested_at.
CachedRangeFinal ==
  (kept # Nothing /\ expired = {}) => SameButClose(cluster_range(rows, kept.q), kept.body)

\* No two supervisors of a running server own the same stream, and every
\* stream can be reached under its names: a gRPC subscription that gives the
\* names of the rows in its own spelling arrives at the key the supervisor
\* publishes under.
EveryStreamReachable ==
  up => \A s \in Supervised(cfg) :
          /\ \A r \in Supervised(cfg) :
               <<r.exchange, r.market>> = <<s.exchange, s.market>> => r = s
          /\ \A tf \in Range(cfg.timeframes_secs) :
               subscribe(wire_id[s.exchange], market_type_wire[s.market], tf)
                 = {[exchange |-> s.exchange, market |-> s.market, interval |-> tf]}

=============================================================================
