------------------------------- MODULE Sessions -------------------------------
(***************************************************************************)
(* A wire session of one venue (crates/cluster-ingest, the *_session.rs    *)
(* files): connect, subscribe, ping, read, and start over.  Venues.tla     *)
(* holds what differs between them.  Binance, Bybit, OKX and Bitget put    *)
(* every symbol on one connection and return when it ends;                 *)
(* run_session_loop of the supervisor calls them again.  Aster, KuCoin,    *)
(* MEXC, Hyperliquid and BingX cut the symbols into shards, each with a    *)
(* reconnect loop of its own inside the session's future, which never      *)
(* returns and ends only when the supervisor drops it (a change of routes).*)
(*                                                                         *)
(* A connection is named by its shard, the set of symbols it carries.      *)
(* Whether a sink takes a trade, is full or is closed is left open here    *)
(* (TradePath.tla models the sinks).                                       *)
(***************************************************************************)
EXTENDS Venues, GapDetect

CONSTANTS
  Symbols,       \* the symbols of a market
  RouteSets,     \* the sets of symbols the supervisor asks for
  ShardSize,     \* symbols per connection of a sharded session
  BatchSize,     \* symbols per subscribe message sent in chunks
  BackoffMin, BackoffMax,
  MaxCycles,     \* bound on changes of routes
  MaxEnds,       \* bound on failures and ends of connections
  MaxFrames,     \* bound on data messages of a venue
  MaxIdFrames,   \* the same where ids are checked for gaps
  MaxId,         \* bound on trade ids
  MaxPings       \* bound on the client's pings on one connection

ASSUME SessionsAssumption ==
  /\ RouteSets \subseteq SUBSET Symbols /\ {} \notin RouteSets
  /\ {ShardSize, BatchSize} \subseteq Nat \ {0}
  /\ BackoffMin \in Nat \ {0} /\ BackoffMax \in Nat /\ BackoffMin <= BackoffMax
  /\ {MaxCycles, MaxEnds, MaxFrames, MaxIdFrames, MaxId, MaxPings} \subseteq Nat

VARIABLES
  flavor,     \* the venue; chosen once
  routes,     \* the symbols run_session was called with
  conn,       \* shard |-> its connection
  cycles, ends, frames   \* for the bounds

vars == <<flavor, routes, conn, cycles, ends, frames>>

loop == Flavors[flavor].loop
payload == Flavors[flavor].payload
sharded == loop.shard_size # 0

\* The trades each way out has taken, and (history) what the venue sent for the
\* connection's symbols: trades, those of them in a batch that fails to parse, and
\* those passed over inside a batch that does not.
NoStats ==
  [trades_emitted |-> 0, trades_dropped_backpressure |-> 0, trades_dropped_closed |-> 0,
   frames_undecodable |-> 0, parse_errors |-> 0, pongs_sent |-> 0]
NoArrivals ==
  [trades |-> 0, unparsed |-> 0, skipped |-> 0, bad_batches |-> 0, garbage |-> 0]

Down(backoff) ==
  [st |-> "down", ended |-> "none", backoff |-> backoff, subscribed |-> {},
   stats |-> NoStats, arrived |-> NoArrivals, pings |-> 0, unanswered |-> 0,
   gap |-> NoGapState]

-----------------------------------------------------------------------------
\* The shards of a set of routes: routes.chunks(SHARD_SIZE), or all of them.  The
\* order of the routes is the supervisor's, so any cut is possible.
Shards(S) ==
  IF sharded
  THEN {P \in SUBSET (SUBSET S \ {{}}) :
          /\ UNION P = S
          /\ \A p, q \in P : p # q => p \intersect q = {}
          /\ \A p \in P : Cardinality(p) <= ShardSize
          /\ Cardinality({p \in P : Cardinality(p) < ShardSize}) <= 1}
  ELSE {{S}}

Init ==
  /\ flavor \in DOMAIN Flavors
  /\ routes \in RouteSets
  /\ \E P \in Shards(routes) : conn = [sh \in P |-> Down(BackoffMin)]
  /\ cycles = 0 /\ ends = 0 /\ frames = 0

Set(sh, c) == conn' = [conn EXCEPT ![sh] = c]
Here == UNCHANGED <<flavor, routes, cycles, ends, frames>>

End(sh, c) ==
  /\ ends < MaxEnds
  /\ ends' = ends + 1
  /\ Set(sh, c)
  /\ UNCHANGED <<flavor, routes, cycles, frames>>

\* run_one_shard (or run_session) returns Ok or Err, and its routing, counters and
\* gap state go with it (an unsharded Ok hands the counters to a log line).  The
\* loop around it sleeps for its backoff, which Ok sets back.
Ended(c, result) ==
  [Down(IF result = "ok" THEN BackoffMin ELSE c.backoff)
     EXCEPT !.st = "sleep", !.ended = result]

\* Faulty variant: an error leaves the shard's loop.
ShardGivesUp(c) == [c EXCEPT !.st = "gone"]

EndsErr(c) == Ended(c, "err")
EndsOk(c) == Ended(c, "ok")

ConnectOk(sh) ==
  /\ conn[sh].st = "down"
  /\ Set(sh, [Down(conn[sh].backoff) EXCEPT !.st = "subscribe"])
  /\ Here

\* Refused, or connect_timeout; for KuCoin also a failed fetch_bullet.
ConnectFails(sh) ==
  /\ conn[sh].st = "down"
  /\ End(sh, EndsErr(conn[sh]))

\* The symbols of one subscribe message.
Batches(c, sh) ==
  LET left == sh \ c.subscribed
      args == Flavors[flavor].ws.args_per_subscribe
      size == CASE args = 0 -> Cardinality(left)
                [] args = 1 -> 1
                [] OTHER -> AtMost(BatchSize, Cardinality(left))
  IN  {b \in SUBSET left : Cardinality(b) = size}

\* The loop over the messages goes on until every symbol has been asked for.
AfterSubscribe(sh, subscribed) == IF subscribed = sh THEN "up" ELSE "subscribe"

SubscribeOk(sh) ==
  /\ conn[sh].st = "subscribe"
  /\ \E b \in Batches(conn[sh], sh) :
       LET subscribed == conn[sh].subscribed \union b
       IN  Set(sh, [conn[sh] EXCEPT !.subscribed = subscribed,
                                    !.st = AfterSubscribe(sh, subscribed)])
  /\ Here

\* A send that fails while subscribing, pinging or answering a ping ends with Err.
SendFails(sh) ==
  /\ conn[sh].st \in {"subscribe", "up"}
  /\ conn[sh].st = "up" => loop.ping_ms > 0
  /\ End(sh, EndsErr(conn[sh]))

PingTick(sh) ==
  /\ conn[sh].st = "up" /\ loop.ping_ms > 0
  /\ conn[sh].pings < MaxPings
  /\ Set(sh, [conn[sh] EXCEPT
                !.pings = @ + 1, !.unanswered = @ + 1,
                !.stats.pongs_sent = @ + (IF "ping" \in loop.counted THEN 1 ELSE 0)])
  /\ Here

Alive(c) == [c EXCEPT !.unanswered = 0]

-----------------------------------------------------------------------------
\* A WebSocket ping is answered; a failed send ends the connection.
RecvPing(sh) ==
  /\ conn[sh].st = "up"
  /\ \/ End(sh, EndsErr(conn[sh]))
     \/ /\ "pong" \in loop.counted => conn[sh].stats.pongs_sent < MaxPings
        /\ Set(sh, [Alive(conn[sh]) EXCEPT
                      !.stats.pongs_sent = @ + (IF "pong" \in loop.counted THEN 1 ELSE 0)])
        /\ Here

\* The end of the stream, a Close message and the errors of is_soft_close end the
\* connection with Ok, every other error with Err.
RecvEnd(sh) ==
  /\ conn[sh].st = "up"
  /\ End(sh, EndsOk(conn[sh])) \/ End(sh, EndsErr(conn[sh]))

Data(sh) ==
  /\ conn[sh].st = "up"
  /\ frames < IF payload.detects_gaps THEN MaxIdFrames ELSE MaxFrames
  /\ frames' = frames + 1
  /\ UNCHANGED <<flavor, routes, cycles, ends>>

\* Acknowledgements, pongs, errors, trades of symbols that are not routed, and
\* what comes in a kind of message the session does not read.
RecvOther(sh) ==
  /\ conn[sh].st = "up" /\ conn[sh].unanswered > 0
  /\ Set(sh, Alive(conn[sh]))
  /\ Here

\* BingX's heartbeat must be answered; a failed send ends the connection.
RecvHeartbeat(sh) ==
  /\ conn[sh].st = "up" /\ payload.answers_heartbeat
  /\ End(sh, EndsErr(conn[sh])) \/ (Set(sh, Alive(conn[sh])) /\ Here)

\* Messages of a kind the session does not read change nothing.
Reads == VenueSends(flavor) \in loop.data

Undecodable(stats) ==
  IF payload.counts_undecodable THEN [stats EXCEPT !.frames_undecodable = @ + 1] ELSE stats

\* A data message that does not inflate or decode.
RecvGarbage(sh) ==
  /\ Data(sh)
  /\ Set(sh, [Alive(conn[sh]) EXCEPT !.arrived.garbage = @ + 1,
                                     !.stats = IF Reads THEN Undecodable(@) ELSE @])

\* The plain "pong" is not JSON, so it is skipped before it is decoded.
RecvPongText(sh) ==
  /\ Data(sh)
  /\ VenuePongsInText(flavor) /\ conn[sh].unanswered > 0
  /\ Set(sh, [Alive(conn[sh]) EXCEPT !.stats = IF loop.skips_pong THEN @ ELSE Undecodable(@)])

\* A batch of n trades that parse_value fails as a whole: one of them has a number
\* that does not parse, or lacks a field where that is not passed over, or none of
\* them is usable where that is refused.
RecvUnparsed(sh, n) ==
  /\ Data(sh)
  /\ n > 1 => payload.batch
  /\ Set(sh, [Alive(conn[sh]) EXCEPT
                !.arrived.trades = @ + n, !.arrived.unparsed = @ + n,
                !.arrived.bad_batches = @ + 1,
                !.stats.parse_errors = @ + (IF Reads THEN 1 ELSE 0)])

\* Faulty variant: a full sink is not told from a closed one, and the rest of the
\* batch is given up.
StopAtFull(stats, ok, full, closed) ==
  [stats EXCEPT !.trades_emitted = @ + ok,
                !.trades_dropped_closed = @ + (IF full + closed > 0 THEN 1 ELSE 0)]

\* One try_send per trade of the batch: taken, the sink full, the sink closed.
TrySend(stats, ok, full, closed) ==
  [stats EXCEPT !.trades_emitted = @ + ok,
                !.trades_dropped_backpressure = @ + full,
                !.trades_dropped_closed = @ + closed]

\* The deals of a batch parse_value passes over: none, or some beside others that
\* are usable, or any.  They are in no counter.
PassesOver(skipped, usable) ==
  \/ skipped = 0
  \/ payload.unusable_deal = "skips" /\ usable > 0
  \/ payload.unusable_deal = "ignores"

RecvTrades(sh, ok, full, closed, skipped) ==
  LET n == ok + full + closed + skipped
      c == conn[sh]
  IN  /\ Data(sh)
      /\ n > 0 /\ (n > 1 => payload.batch)
      /\ PassesOver(skipped, ok + full + closed)
      /\ \E id \in 1 .. MaxId :
           /\ payload.detects_gaps \/ id = 1
           /\ Set(sh, [Alive(c) EXCEPT
                         !.arrived.trades = @ + n, !.arrived.skipped = @ + skipped,
                         !.stats = IF Reads THEN TrySend(@, ok, full, closed) ELSE @,
                         !.gap = IF payload.detects_gaps THEN DetectGap(@, id) ELSE @])

-----------------------------------------------------------------------------
\* (backoff * 2).min(30 s)
NextBackoff(b) == AtMost(2 * b, BackoffMax)

\* The sleep is over.  A shard's loop doubles its backoff after every sleep, the
\* supervisor's only after an error.
Wake(sh) ==
  /\ conn[sh].st = "sleep"
  /\ Set(sh, Down(IF sharded \/ conn[sh].ended = "err"
                  THEN NextBackoff(conn[sh].backoff) ELSE BackoffMin))
  /\ Here

\* Faulty variant: the shards were spawned as tasks of their own, which dropping
\* the session does not stop.
ShardsLive(P, b) ==
  [sh \in P \union DOMAIN conn |-> IF sh \in P THEN Down(b) ELSE conn[sh]]

\* Dropping the session's future drops every connection with it.
ShardsDropped(P, b) == [sh \in P |-> Down(b)]

\* run_session_loop sees a change of routes, drops the session and starts one on
\* the new routes.  It looks for changes only while a session runs; its backoff
\* outlives the session, a shard's does not.
Cycle(S) ==
  /\ cycles < MaxCycles /\ S # routes
  /\ ~sharded => \A sh \in DOMAIN conn : conn[sh].st # "sleep"
  /\ routes' = S
  /\ \E P \in Shards(S) :
       \E sh \in DOMAIN conn :
         conn' = ShardsDropped(P, IF sharded THEN BackoffMin ELSE conn[sh].backoff)
  /\ cycles' = cycles + 1
  /\ UNCHANGED <<flavor, ends, frames>>

Step(sh) ==
  \/ ConnectOk(sh) \/ ConnectFails(sh) \/ SubscribeOk(sh) \/ SendFails(sh)
  \/ PingTick(sh) \/ RecvPing(sh) \/ RecvEnd(sh) \/ RecvOther(sh)
  \/ RecvHeartbeat(sh) \/ RecvGarbage(sh) \/ RecvPongText(sh) \/ Wake(sh)
  \/ \E n \in 1 .. 2 : RecvUnparsed(sh, n)
  \/ \E ok, full, closed, skipped \in 0 .. 2 :
       ok + full + closed + skipped <= 2 /\ RecvTrades(sh, ok, full, closed, skipped)

Next == (\E sh \in DOMAIN conn : Step(sh)) \/ (\E S \in RouteSets : Cycle(S))

Spec == Init /\ [][Next]_vars

\* Sleeps end, and once the venue fails no more (MaxEnds) it accepts connections
\* and subscriptions: the tasks of the runtime get their turn.
Fairness ==
  \A s \in Symbols :
    WF_vars(\E sh \in DOMAIN conn : s \in sh /\ (Wake(sh) \/ ConnectOk(sh) \/ SubscribeOk(sh)))

FairSpec == Spec /\ Fairness

-----------------------------------------------------------------------------
Live(sh) == conn[sh].st = "up"

(***************************************************************************)
(* No symbol is lost or doubled by sharding, batching and route changes:   *)
(* at any time exactly one connection is responsible for each routed       *)
(* symbol and none for another, and a connection that reads has subscribed *)
(* to all of its symbols.  Two connections for one symbol would count its  *)
(* trades twice; none would leave its footprint empty.                     *)
(***************************************************************************)
FedExactlyOnce ==
  /\ \A s \in Symbols :
       Cardinality({sh \in DOMAIN conn : s \in sh}) = IF s \in routes THEN 1 ELSE 0
  /\ \A sh \in DOMAIN conn : Live(sh) => conn[sh].subscribed = sh

(***************************************************************************)
(* SessionStats accounts for what the connection brought, but for one      *)
(* thing: each trade is in exactly one of the three counters, or in a      *)
(* batch that did not parse and is one parse error, or, on Hyperliquid,    *)
(* BingX and MEXC only, was passed over in a batch that did parse, which   *)
(* no counter shows.  Each frame that does not decode is counted where the *)
(* session counts them, and the answer to a ping is not taken for one.     *)
(***************************************************************************)
StatsAccount ==
  \A sh \in DOMAIN conn :
    LET st == conn[sh].stats
        a == conn[sh].arrived
    IN  /\ st.trades_emitted + st.trades_dropped_backpressure + st.trades_dropped_closed
             + a.unparsed + a.skipped = a.trades
        /\ a.skipped > 0 => flavor \in {"hyperliquid", "bingx", "mexc", "mexc_f"}
        /\ st.parse_errors = a.bad_batches
        /\ st.frames_undecodable = IF payload.counts_undecodable THEN a.garbage ELSE 0

(***************************************************************************)
(* The gap counters of a Binance session are exact while ids arrive in     *)
(* order, and out of order neither miss a hole nor invent one.             *)
(***************************************************************************)
GapCountersSound ==
  \A sh \in DOMAIN conn :
    LET g == conn[sh].gap
    IN  MissingExact(g) /\ NeverUndercounts(g) /\ NoPhantomHole(g)

(***************************************************************************)
(* A dead connection takes its symbols down only for a while: when the     *)
(* venue is well again every routed symbol is carried by a live,           *)
(* subscribed connection, whichever shards failed, wherever they were in   *)
(* connecting, and whatever routes changed meanwhile.                      *)
(***************************************************************************)
EverySymbolFedAgain ==
  \A s \in Symbols :
    []<>(s \in routes => \E sh \in DOMAIN conn : s \in sh /\ Live(sh))

(***************************************************************************)
(* BybitWs::pong_timeout_ms: "if no pong is received within 30 s the       *)
(* connection counts as stale", "a protection against silent half-closed   *)
(* connections".  The time since the first unanswered ping is at least the *)
(* intervals between the pings.                                            *)
(***************************************************************************)
SilentConnectionLeft ==
  \A sh \in DOMAIN conn :
    flavor = "bybit" /\ Live(sh) /\ conn[sh].unanswered > 0 =>
      (conn[sh].unanswered - 1) * loop.ping_ms <= Flavors[flavor].ws.pong_timeout_ms
=============================================================================
