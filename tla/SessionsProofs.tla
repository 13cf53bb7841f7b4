---------------------------- MODULE SessionsProofs ----------------------------
(***************************************************************************)
(* Invariants of a wire session, for every venue, set of symbols, way to   *)
(* cut them into shards and subscribe messages, and for any number of      *)
(* reconnects, route changes, messages and trade ids.                      *)
(***************************************************************************)
EXTENDS Sessions, FiniteSetTheorems, TLAPS

-----------------------------------------------------------------------------
(* detect_gap.                                                             *)

GapStates ==
  [last : Nat, gaps_detected : Nat, trades_missing : Nat,
   first : Nat, seen : SUBSET Nat, ordered : BOOLEAN]

(***************************************************************************)
(* What the gap counters rest on: the last id is the largest one seen, and *)
(* the first one is seen and not larger; before it nothing is counted.     *)
(***************************************************************************)
Spans(g) ==
  /\ \A id \in g.seen : 0 < id /\ id <= g.last
  /\ g.first <= g.last
  /\ g.first = 0 <=> g.last = 0
  /\ g.last # 0 => {g.first, g.last} \subseteq g.seen
  /\ g.last = 0 => g.trades_missing = 0 /\ g.gaps_detected = 0

GapSound(g) ==
  /\ g \in GapStates
  /\ Spans(g)
  /\ MissingExact(g) /\ NeverUndercounts(g) /\ NoPhantomHole(g)

\* The ids seen lie in an interval, and so do the missed ones and the holes.
LEMMA GapSetsFinite ==
  ASSUME NEW g \in GapStates, Spans(g)
  PROVE  /\ IsFiniteSet(Unseen(g)) /\ Cardinality(Unseen(g)) \in Nat
         /\ IsFiniteSet(Holes(g)) /\ Cardinality(Holes(g)) \in Nat
<1>1. g.first \in Nat /\ g.last \in Nat /\ g.seen \subseteq Nat
  BY DEF GapStates
<1>2. Unseen(g) \in SUBSET (g.first .. g.last)
  BY <1>1 DEF Unseen
<1>3. Holes(g) \in SUBSET (0 .. g.last)
  BY <1>1 DEF Holes, Spans
<1>4. IsFiniteSet(g.first .. g.last) /\ IsFiniteSet(0 .. g.last)
  <2>1. g.first \in Int /\ g.last \in Int /\ 0 \in Int
    BY <1>1
  <2> QED BY ONLY <2>1, FS_Interval
<1>5. IsFiniteSet(Unseen(g)) /\ IsFiniteSet(Holes(g))
  BY <1>2, <1>3, <1>4, FS_Subset
<1> QED
  BY <1>5, FS_CardinalityType

\* Before the first trade there is nothing to count.
LEMMA NoGapStateSound == GapSound(NoGapState)
<1> DEFINE g == NoGapState
<1>1. g \in GapStates /\ Spans(g) /\ NoPhantomHole(g)
  BY DEF NoGapState, GapStates, Spans, NoPhantomHole
<1>2. Unseen(g) = {}
  BY DEF Unseen, NoGapState
<1>3. Holes(g) = {}
  BY DEF Holes, NoGapState
<1>4. Cardinality({}) = 0
  BY FS_EmptySet
<1>5. MissingExact(g) /\ NeverUndercounts(g)
  BY <1>2, <1>3, <1>4 DEF MissingExact, NeverUndercounts, NoGapState
<1> QED
  BY <1>1, <1>5 DEF GapSound

(***************************************************************************)
(* One id does not make the counters wrong: an id past the next one adds   *)
(* the ids it skips and one hole, a late one can only fill a hole that has *)
(* been reported, a repeated one changes nothing.                          *)
(***************************************************************************)
LEMMA DetectGapSound ==
  ASSUME NEW g, GapSound(g), NEW id \in Nat \ {0}
  PROVE  GapSound(DetectGap(g, id))
<1> DEFINE h == DetectGap(g, id)
<1>1. /\ g \in GapStates
      /\ g.first \in Nat /\ g.last \in Nat /\ g.seen \in SUBSET Nat
      /\ g.trades_missing \in Nat /\ g.gaps_detected \in Nat
      /\ g.ordered \in BOOLEAN
  BY DEF GapSound, GapStates
<1>2. Spans(g) /\ MissingExact(g) /\ NeverUndercounts(g) /\ NoPhantomHole(g)
  BY DEF GapSound
<1>3. h \in GapStates /\ Spans(h) /\ NoPhantomHole(h)
  <2>1. CASE g.last = 0
    <3>1. /\ g.first = 0 /\ g.seen = {}
          /\ g.trades_missing = 0 /\ g.gaps_detected = 0
      BY <1>1, <1>2, <2>1 DEF Spans
    <3>2. /\ h.first = id /\ h.last = id /\ h.seen = {id}
          /\ h.trades_missing = 0 /\ h.gaps_detected = 0
      BY <1>1, <2>1, <3>1 DEF DetectGap
    <3>3. h \in GapStates
      BY <1>1, <2>1 DEF DetectGap, GapStates
    <3>4. Spans(h)
      BY <3>2 DEF Spans
    <3>5. NoPhantomHole(h)
      BY <3>2 DEF NoPhantomHole
    <3> QED BY <3>3, <3>4, <3>5
  <2>2. CASE g.last # 0
    <3>1. h \in GapStates
      BY <1>1, <2>2 DEF DetectGap, LastId, Missed, GapStates
    <3>2. Spans(h)
      BY <1>1, <1>2, <2>2 DEF DetectGap, LastId, Missed, Spans
    <3>3. NoPhantomHole(h)
      BY <1>1, <1>2, <2>2 DEF DetectGap, LastId, Missed, Spans, NoPhantomHole
    <3> QED BY <3>1, <3>2, <3>3
  <2> QED BY <2>1, <2>2
<1>4. /\ IsFiniteSet(Unseen(g)) /\ Cardinality(Unseen(g)) \in Nat
      /\ IsFiniteSet(Holes(g)) /\ Cardinality(Holes(g)) \in Nat
  BY <1>1, <1>2, GapSetsFinite
<1>5. MissingExact(h) /\ NeverUndercounts(h)
  <2>1. CASE g.last = 0
    <3>1. /\ h.first = id /\ h.last = id /\ h.seen = {id}
          /\ h.trades_missing = g.trades_missing /\ h.gaps_detected = g.gaps_detected
      BY <1>1, <1>2, <2>1 DEF DetectGap, Spans
    <3>2. Unseen(h) = {} /\ Holes(h) = {}
      BY <3>1 DEF Unseen, Holes
    <3>3. Unseen(g) = {} /\ Holes(g) = {}
      BY <1>1, <1>2, <2>1 DEF Unseen, Holes, Spans
    <3>4. h.ordered = g.ordered
      BY <1>1, <2>1 DEF DetectGap
    <3> QED
      BY <1>2, <3>1, <3>2, <3>3, <3>4 DEF MissingExact, NeverUndercounts
  <2>2. CASE g.last # 0 /\ id > g.last
    <3> DEFINE skipped == (g.last + 1) .. (id - 1)
    <3>1. /\ h.first = g.first /\ h.last = id /\ h.seen = g.seen \union {id}
          /\ h.trades_missing = g.trades_missing + (id - g.last - 1)
          /\ h.gaps_detected = g.gaps_detected + (IF id > g.last + 1 THEN 1 ELSE 0)
          /\ h.ordered = g.ordered
      BY <1>1, <1>2, <2>2 DEF DetectGap, LastId, Missed, Spans
    <3>2. Unseen(h) = Unseen(g) \union skipped
      BY <1>1, <1>2, <2>2, <3>1 DEF Unseen, Spans
    <3>3. Unseen(g) \cap skipped = {}
      BY <1>1 DEF Unseen
    <3>4. /\ IsFiniteSet(skipped)
          /\ Cardinality(skipped) = id - g.last - 1
      <4>1. g.last + 1 \in Int /\ id - 1 \in Int
        BY <1>1
      <4>2. /\ IsFiniteSet(skipped)
            /\ Cardinality(skipped)
                 = IF g.last + 1 > id - 1 THEN 0 ELSE (id - 1) - (g.last + 1) + 1
        BY <4>1, FS_Interval
      <4> QED BY <1>1, <2>2, <4>2
    <3>5. Cardinality(Unseen(h)) = Cardinality(Unseen(g)) + (id - g.last - 1)
      <4> HIDE DEF h, skipped
      <4>1. Cardinality({}) = 0
        BY FS_EmptySet
      <4>2. Cardinality(Unseen(g) \union skipped)
              = Cardinality(Unseen(g)) + Cardinality(skipped)
                  - Cardinality(Unseen(g) \cap skipped)
        BY <1>4, <3>4, FS_Union
      <4>3. Cardinality(Unseen(g) \cap skipped) = 0
        BY ONLY <3>3, <4>1
      <4>4. Cardinality(Unseen(g) \union skipped)
              = Cardinality(Unseen(g)) + (id - g.last - 1)
        <5>1. id - g.last - 1 \in Int
          BY <1>1
        <5> QED BY ONLY <1>4, <3>4, <4>2, <4>3, <5>1
      <4> QED BY ONLY <3>2, <4>4
    <3>6. NeverUndercounts(h)
      <4> HIDE DEF h
      <4> QED BY <1>1, <1>2, <1>4, <2>2, <3>1, <3>5 DEF NeverUndercounts
    <3>7. Cardinality(Holes(h))
            = Cardinality(Holes(g)) + (IF id > g.last + 1 THEN 1 ELSE 0)
      <4>1. CASE id > g.last + 1
        <5>1. Holes(h) = Holes(g) \union {id}
          BY <1>1, <1>2, <2>2, <3>1, <4>1 DEF Holes, Spans
        <5>2. id \notin Holes(g)
          BY <1>1, <1>2, <2>2 DEF Holes, Spans
        <5> HIDE DEF h
        <5> QED BY <1>4, <4>1, <5>1, <5>2, FS_AddElement
      <4>2. CASE ~(id > g.last + 1)
        <5>1. id = g.last + 1
          BY <1>1, <2>2, <4>2
        <5>2. Holes(h) = Holes(g)
          BY <1>1, <1>2, <2>2, <3>1, <5>1 DEF Holes, Spans
        <5> HIDE DEF h
        <5> QED BY <1>4, <4>2, <5>2
      <4> QED BY <4>1, <4>2
    <3>8. MissingExact(h)
      <4> HIDE DEF h
      <4> QED BY <1>1, <1>2, <1>4, <3>1, <3>5, <3>7 DEF MissingExact
    <3> QED BY <3>6, <3>8
  <2>3. CASE g.last # 0 /\ id <= g.last
    <3>1. /\ h.first = g.first /\ h.last = g.last /\ h.seen = g.seen \union {id}
          /\ h.trades_missing = g.trades_missing /\ h.gaps_detected = g.gaps_detected
          /\ h.ordered = (g.ordered /\ id >= g.last)
      BY <1>1, <1>2, <2>3 DEF DetectGap, LastId, Missed, Spans
    <3>2. Unseen(h) \in SUBSET Unseen(g)
      BY <3>1 DEF Unseen
    <3>3. Cardinality(Unseen(h)) <= Cardinality(Unseen(g))
      BY <1>4, <3>2, FS_Subset
    <3>4. Cardinality(Unseen(h)) \in Nat
      BY <1>3, GapSetsFinite
    <3>5. NeverUndercounts(h)
      <4> HIDE DEF h
      <4> QED BY <1>1, <1>2, <1>4, <3>1, <3>3, <3>4 DEF NeverUndercounts
    <3>6. ASSUME h.ordered PROVE MissingExact(h)
      <4>1. id = g.last /\ g.ordered
        <5>1. g.ordered /\ id >= g.last
          BY <3>1, <3>6, Zenon
        <5> QED BY <1>1, <2>3, <5>1
      <4>2. h.seen = g.seen
        BY <1>2, <2>3, <3>1, <4>1 DEF Spans
      <4>3. Unseen(h) = Unseen(g) /\ Holes(h) = Holes(g)
        BY <3>1, <4>2 DEF Unseen, Holes
      <4> QED BY <1>2, <3>1, <4>1, <4>3 DEF MissingExact
    <3> QED BY <3>5, <3>6 DEF MissingExact
  <2> QED BY <1>1, <2>1, <2>2, <2>3
<1> QED
  BY <1>3, <1>5 DEF GapSound

-----------------------------------------------------------------------------
(* The venues.                                                             *)

(***************************************************************************)
(* What the accounting asks of a venue's records: the session reads the    *)
(* kind of message the venue sends its trades in, and skips a "pong" in    *)
(* plain text where the venue answers with one.                            *)
(***************************************************************************)
LEMMA VenuesRead ==
  ASSUME NEW f \in DOMAIN Flavors
  PROVE  /\ VenueSends(f) \in Flavors[f].loop.data
         /\ VenuePongsInText(f) => Flavors[f].loop.skips_pong
<1>1. f \in {"binance", "binance_f", "aster", "bitget", "bybit", "okx", "bingx",
             "hyperliquid", "kucoin", "mexc", "mexc_f"}
  BY DEF Flavors
<1>2. /\ Flavors["mexc"].loop.data = {"binary"}
      /\ Flavors["mexc_f"].loop.data = {"text"}
  BY DEF Flavors, Flavor, Loop, MexcSpotLoop, MexcFuturesLoop
<1>3. f \notin {"mexc", "mexc_f"} => Flavors[f].loop.data = {"text", "binary"}
  BY <1>1 DEF Flavors, Flavor, Loop, Both, BinanceLoop, BybitLoop, OkxLoop, BitgetLoop,
              AsterLoop, HyperliquidLoop, BingxLoop, KucoinLoop
<1>4. f \in {"okx", "bitget"} => Flavors[f].loop.skips_pong
  BY DEF Flavors, Flavor, Loop, OkxLoop, BitgetLoop
<1> QED
  BY <1>1, <1>2, <1>3, <1>4 DEF VenueSends, VenuePongsInText

\* Everywhere but on Hyperliquid, BingX and MEXC an unusable deal fails its batch.
LEMMA OthersFail ==
  ASSUME NEW f \in DOMAIN Flavors, f \notin {"hyperliquid", "bingx", "mexc", "mexc_f"}
  PROVE  Flavors[f].payload.unusable_deal = "fails"
<1>1. f \in {"binance", "binance_f", "aster", "bitget", "bybit", "okx", "kucoin"}
  BY DEF Flavors
<1> QED
  BY <1>1 DEF Flavors, Flavor, Payload, BinancePayload, AsterPayload, BybitPayload, OkxPayload,
              BitgetPayload, KucoinPayload

-----------------------------------------------------------------------------
(* The connections.                                                        *)

Stats ==
  [trades_emitted : Nat, trades_dropped_backpressure : Nat, trades_dropped_closed : Nat,
   frames_undecodable : Nat, parse_errors : Nat, pongs_sent : Nat]
Arrivals == [trades : Nat, unparsed : Nat, skipped : Nat, bad_batches : Nat, garbage : Nat]

Conns ==
  [st : {"down", "subscribe", "up", "sleep"}, ended : {"none", "ok", "err"},
   backoff : Nat, subscribed : SUBSET Symbols, stats : Stats, arrived : Arrivals,
   pings : Nat, unanswered : Nat, gap : GapStates]

\* The venues whose parser passes over a deal it cannot use.
SkippingFlavors == {"hyperliquid", "bingx", "mexc", "mexc_f"}

\* StatsAccount of one connection of a venue.
Accounted(f, st, a) ==
  /\ st.trades_emitted + st.trades_dropped_backpressure + st.trades_dropped_closed
       + a.unparsed + a.skipped = a.trades
  /\ a.skipped > 0 => f \in SkippingFlavors
  /\ st.parse_errors = a.bad_batches
  /\ st.frames_undecodable = IF Flavors[f].payload.counts_undecodable THEN a.garbage ELSE 0

ConnSound(f, sh, c) ==
  /\ c \in Conns
  /\ c.st = "up" => c.subscribed = sh
  /\ Accounted(f, c.stats, c.arrived)
  /\ GapSound(c.gap)

\* P cuts S into sets without a common symbol.
CutInto(S, P) ==
  /\ P \subseteq SUBSET S
  /\ UNION P = S
  /\ \A p, q \in P : p # q => p \cap q = {}

Inv ==
  /\ flavor \in DOMAIN Flavors
  /\ routes \in SUBSET Symbols
  /\ CutInto(routes, DOMAIN conn)
  /\ \A sh \in DOMAIN conn : ConnSound(flavor, sh, conn[sh])

\* Sharded or not, the connections share the symbols out.
LEMMA ShardsCut ==
  ASSUME NEW S, NEW P \in Shards(S)
  PROVE  CutInto(S, P)
<1>1. CASE sharded
  BY <1>1, Zenon DEF Shards, CutInto
<1>2. CASE ~sharded
  <2>1. P = {S}
    BY <1>2, Zenon DEF Shards
  <2> QED BY <2>1 DEF CutInto
<1> QED BY <1>1, <1>2

\* A connection not yet made has brought nothing and subscribed to nothing.
LEMMA DownSound ==
  ASSUME NEW f, NEW sh, NEW b \in Nat
  PROVE  ConnSound(f, sh, Down(b))
<1>1. GapSound(NoGapState) /\ NoGapState \in GapStates
  BY NoGapStateSound DEF GapSound
<1>2. Down(b) \in Conns
  BY <1>1 DEF Down, Conns, NoStats, Stats, NoArrivals, Arrivals
<1>3. Accounted(f, NoStats, NoArrivals)
  BY DEF Accounted, NoStats, NoArrivals
<1> QED
  BY <1>1, <1>2, <1>3 DEF ConnSound, Down

\* Ended leaves nothing of the connection but its backoff.
LEMMA EndedSound ==
  ASSUME NEW f, NEW sh, NEW c \in Conns, NEW r \in {"ok", "err"}
  PROVE  ConnSound(f, sh, Ended(c, r))
<1> DEFINE b == IF r = "ok" THEN BackoffMin ELSE c.backoff
           d == Ended(c, r)
<1>1. b \in Nat
  BY SessionsAssumption DEF Conns
<1>2. ConnSound(f, sh, Down(b))
  BY <1>1, DownSound
<1>3. d = [Down(b) EXCEPT !.st = "sleep", !.ended = r]
  BY DEF Ended
<1> HIDE DEF b, d
<1>4. d \in Conns
  BY <1>2, <1>3 DEF ConnSound, Conns
<1>5. d.st = "sleep" /\ d.stats = Down(b).stats /\ d.arrived = Down(b).arrived
        /\ d.gap = Down(b).gap
  BY <1>2, <1>3 DEF ConnSound, Conns
<1>6. ConnSound(f, sh, d)
  BY <1>2, <1>4, <1>5 DEF ConnSound
<1> QED BY <1>6 DEF d

\* A step that leaves one connection sound leaves the session sound.
LEMMA SetSound ==
  ASSUME Inv, NEW sh \in DOMAIN conn, NEW c, ConnSound(flavor, sh, c), Set(sh, c),
         UNCHANGED <<flavor, routes>>
  PROVE  Inv'
<1>1. DOMAIN conn' = DOMAIN conn
  BY DEF Set
<1>2. \A s \in DOMAIN conn : conn'[s] = IF s = sh THEN c ELSE conn[s]
  BY DEF Set
<1>3. flavor' = flavor /\ routes' = routes
  OBVIOUS
<1>4. \A s \in DOMAIN conn' : ConnSound(flavor', s, conn'[s])
  BY <1>1, <1>2, <1>3 DEF Inv
<1> QED
  BY <1>1, <1>3, <1>4 DEF Inv

\* So does the end of one.
LEMMA EndSound ==
  ASSUME Inv, NEW sh \in DOMAIN conn, NEW r \in {"ok", "err"},
         End(sh, Ended(conn[sh], r))
  PROVE  Inv'
<1>1. ConnSound(flavor, sh, Ended(conn[sh], r))
  BY EndedSound DEF Inv, ConnSound
<1>2. Set(sh, Ended(conn[sh], r)) /\ UNCHANGED <<flavor, routes>>
  BY DEF End
<1> QED
  BY <1>1, <1>2, SetSound

-----------------------------------------------------------------------------
(* The steps of one connection.                                            *)

\* Connecting, subscribing and waking up.
LEMMA ConnectStep ==
  ASSUME Inv, NEW sh \in DOMAIN conn,
         ConnectOk(sh) \/ SubscribeOk(sh) \/ Wake(sh)
  PROVE  Inv'
<1> DEFINE c == conn[sh]
<1>1. /\ ConnSound(flavor, sh, c) /\ c \in Conns /\ c.backoff \in Nat
      /\ sh \in SUBSET Symbols
  BY DEF Inv, ConnSound, Conns, CutInto
<1> HIDE DEF c
<1>2. CASE ConnectOk(sh)
  <2> DEFINE d == [Down(c.backoff) EXCEPT !.st = "subscribe"]
  <2>1. ConnSound(flavor, sh, Down(c.backoff))
    BY <1>1, DownSound
  <2>2. /\ d \in Conns /\ d.st = "subscribe" /\ d.stats = Down(c.backoff).stats
        /\ d.arrived = Down(c.backoff).arrived /\ d.gap = Down(c.backoff).gap
    BY <2>1 DEF ConnSound, Conns
  <2> HIDE DEF d
  <2>3. ConnSound(flavor, sh, d)
    BY <2>1, <2>2 DEF ConnSound
  <2>4. Set(sh, d) /\ UNCHANGED <<flavor, routes>>
    BY <1>2 DEF ConnectOk, Here, d, c
  <2> QED BY <2>3, <2>4, SetSound
<1>3. CASE SubscribeOk(sh)
  <2>1. PICK b \in Batches(c, sh) :
          Set(sh, [c EXCEPT !.subscribed = c.subscribed \union b,
                            !.st = AfterSubscribe(sh, c.subscribed \union b)])
    BY <1>3 DEF SubscribeOk, c
  <2> DEFINE all == c.subscribed \union b
             d == [c EXCEPT !.subscribed = all, !.st = AfterSubscribe(sh, all)]
  <2>2. b \subseteq sh
    BY <2>1, Zenon DEF Batches
  <2>3. all \in SUBSET Symbols
    BY <1>1, <2>2 DEF Conns
  <2>4. AfterSubscribe(sh, all) \in {"up", "subscribe"}
        /\ (AfterSubscribe(sh, all) = "up" => all = sh)
    BY DEF AfterSubscribe
  <2> HIDE DEF all
  <2>5. /\ d \in Conns /\ d.st = AfterSubscribe(sh, all) /\ d.subscribed = all
        /\ d.stats = c.stats /\ d.arrived = c.arrived /\ d.gap = c.gap
    BY <1>1, <2>3, <2>4 DEF Conns
  <2> HIDE DEF d
  <2>6. ConnSound(flavor, sh, d)
    BY <1>1, <2>4, <2>5 DEF ConnSound
  <2>7. Set(sh, d) /\ UNCHANGED <<flavor, routes>>
    BY <1>3, <2>1 DEF SubscribeOk, Here, d, all
  <2> QED BY <2>6, <2>7, SetSound
<1>4. CASE Wake(sh)
  <2> DEFINE b == IF sharded \/ c.ended = "err" THEN NextBackoff(c.backoff) ELSE BackoffMin
  <2>1. NextBackoff(c.backoff) \in Nat
    BY <1>1, SessionsAssumption DEF NextBackoff, AtMost
  <2>2. b \in Nat
    BY <2>1, SessionsAssumption
  <2>3. Set(sh, Down(b)) /\ UNCHANGED <<flavor, routes>>
    BY <1>4 DEF Wake, Here, c
  <2> HIDE DEF b
  <2> QED BY <2>2, <2>3, DownSound, SetSound
<1> QED BY <1>2, <1>3, <1>4

\* Everything that ends a connection, in whatever state it is.
LEMMA EndStep ==
  ASSUME Inv, NEW sh \in DOMAIN conn,
         \/ End(sh, EndsErr(conn[sh]))
         \/ End(sh, EndsOk(conn[sh]))
  PROVE  Inv'
BY EndSound DEF EndsErr, EndsOk

\* A connection that goes on as it was, with its counters still accounted for.
LEMMA GoesOn ==
  ASSUME Inv, NEW sh \in DOMAIN conn, NEW d,
         NEW pings \in Nat, NEW unanswered \in Nat,
         NEW stats \in Stats, NEW arrived \in Arrivals, NEW gap,
         d = [conn[sh] EXCEPT !.pings = pings, !.unanswered = unanswered,
                              !.stats = stats, !.arrived = arrived, !.gap = gap],
         Accounted(flavor, stats, arrived), GapSound(gap),
         Set(sh, d), UNCHANGED <<flavor, routes>>
  PROVE  Inv'
<1> DEFINE c == conn[sh]
<1>1. ConnSound(flavor, sh, c) /\ c \in Conns
  BY DEF Inv, ConnSound
<1>2. gap \in GapStates
  BY DEF GapSound
<1> HIDE DEF c
<1>3. d = [c EXCEPT !.pings = pings, !.unanswered = unanswered,
                    !.stats = stats, !.arrived = arrived, !.gap = gap]
  BY DEF c
<1>4. d \in Conns
  BY <1>1, <1>2, <1>3 DEF Conns
<1>5. /\ d.st = c.st /\ d.subscribed = c.subscribed
      /\ d.stats = stats /\ d.arrived = arrived /\ d.gap = gap
  BY <1>1, <1>3 DEF Conns
<1>6. ConnSound(flavor, sh, d)
  BY <1>1, <1>4, <1>5 DEF ConnSound
<1> QED BY <1>6, SetSound

\* Counters stay natural numbers as they count.
LEMMA Counting ==
  /\ \A st \in Stats, x, y, z \in Nat :
       [st EXCEPT !.trades_emitted = x, !.trades_dropped_backpressure = y,
                  !.trades_dropped_closed = z] \in Stats
  /\ \A st \in Stats, x \in Nat : [st EXCEPT !.parse_errors = x] \in Stats
  /\ \A a \in Arrivals, x, y, z \in Nat :
       [a EXCEPT !.trades = x, !.unparsed = y, !.bad_batches = z] \in Arrivals
BY DEF Stats, Arrivals

\* What is known of a connection before its step.
LEMMA ConnFacts ==
  ASSUME Inv, NEW sh \in DOMAIN conn
  PROVE  /\ conn[sh] \in Conns
         /\ conn[sh].pings \in Nat /\ conn[sh].unanswered \in Nat
         /\ conn[sh].stats \in Stats /\ conn[sh].arrived \in Arrivals
         /\ Accounted(flavor, conn[sh].stats, conn[sh].arrived)
         /\ GapSound(conn[sh].gap)
<1>1. ConnSound(flavor, sh, conn[sh])
  BY DEF Inv
<1> QED BY <1>1 DEF ConnSound, Conns

\* pongs_sent is not among the accounted counters.
LEMMA PongsApart ==
  ASSUME NEW f, NEW st \in Stats, NEW a \in Arrivals, Accounted(f, st, a), NEW k \in Nat
  PROVE  /\ [st EXCEPT !.pongs_sent = @ + k] \in Stats
         /\ Accounted(f, [st EXCEPT !.pongs_sent = @ + k], a)
BY DEF Accounted, Stats

\* Pings and messages without data change none of the accounted counters.
LEMMA QuietStep ==
  ASSUME Inv, NEW sh \in DOMAIN conn,
         \/ PingTick(sh) \/ RecvPing(sh) \/ RecvOther(sh) \/ RecvHeartbeat(sh)
  PROVE  Inv'
<1> DEFINE c == conn[sh]
<1>1. /\ c \in Conns /\ c.pings \in Nat /\ c.unanswered \in Nat
      /\ c.stats \in Stats /\ c.arrived \in Arrivals
      /\ Accounted(flavor, c.stats, c.arrived) /\ GapSound(c.gap)
  BY ConnFacts
<1>2. CASE PingTick(sh)
  <2> DEFINE k == IF "ping" \in loop.counted THEN 1 ELSE 0
             st == [c.stats EXCEPT !.pongs_sent = @ + k]
             d == [c EXCEPT !.pings = @ + 1, !.unanswered = @ + 1,
                            !.stats.pongs_sent = @ + k]
  <2>1. Set(sh, d) /\ UNCHANGED <<flavor, routes>>
    BY <1>2 DEF PingTick, Here
  <2> HIDE DEF c
  <2>2. st \in Stats /\ Accounted(flavor, st, c.arrived)
    BY <1>1, PongsApart
  <2>3. d = [c EXCEPT !.pings = c.pings + 1, !.unanswered = c.unanswered + 1,
                      !.stats = st, !.arrived = c.arrived, !.gap = c.gap]
    <3> HIDE DEF k
    <3> QED BY <1>1 DEF Conns
  <2>4. c.pings + 1 \in Nat /\ c.unanswered + 1 \in Nat
    BY <1>1
  <2> HIDE DEF d, st
  <2> QED BY <1>1, <2>1, <2>2, <2>3, <2>4, GoesOn DEF c
<1>3. ASSUME Set(sh, Alive(c)), Here PROVE Inv'
  <2> DEFINE d == Alive(c)
  <2>1. Set(sh, d) /\ UNCHANGED <<flavor, routes>>
    BY <1>3 DEF Here
  <2> HIDE DEF c
  <2>2. d = [c EXCEPT !.pings = c.pings, !.unanswered = 0,
                      !.stats = c.stats, !.arrived = c.arrived, !.gap = c.gap]
    BY <1>1 DEF Conns, Alive
  <2> HIDE DEF d
  <2> QED BY <1>1, <2>1, <2>2, GoesOn DEF c
<1>4. CASE RecvPing(sh)
  <2>1. CASE End(sh, EndsErr(conn[sh]))
    BY <2>1, EndStep
  <2>2. CASE ~ End(sh, EndsErr(conn[sh]))
    <3> DEFINE k == IF "pong" \in loop.counted THEN 1 ELSE 0
               st == [c.stats EXCEPT !.pongs_sent = @ + k]
               d == [Alive(c) EXCEPT !.stats.pongs_sent = @ + k]
    <3>1. Set(sh, d) /\ UNCHANGED <<flavor, routes>>
      BY <1>4, <2>2 DEF RecvPing, Here
    <3> HIDE DEF c
    <3>2. st \in Stats /\ Accounted(flavor, st, c.arrived)
      BY <1>1, PongsApart
    <3>3. d = [c EXCEPT !.pings = c.pings, !.unanswered = 0,
                        !.stats = st, !.arrived = c.arrived, !.gap = c.gap]
      <4> HIDE DEF k
      <4> QED BY <1>1 DEF Conns, Alive
    <3> HIDE DEF d, st
    <3> QED BY <1>1, <3>1, <3>2, <3>3, GoesOn DEF c
  <2> QED BY <2>1, <2>2
<1>5. CASE RecvOther(sh)
  BY <1>3, <1>5 DEF RecvOther
<1>6. CASE RecvHeartbeat(sh)
  BY <1>3, <1>6, EndStep DEF RecvHeartbeat
<1> QED BY <1>2, <1>4, <1>5, <1>6

(***************************************************************************)
(* A data message: what it brings and what the session makes of it are     *)
(* accounted in the same step.                                             *)
(***************************************************************************)
LEMMA DataStep ==
  ASSUME Inv, NEW sh \in DOMAIN conn,
         \/ RecvGarbage(sh)
         \/ RecvPongText(sh)
         \/ \E n \in 1 .. 2 : RecvUnparsed(sh, n)
         \/ \E ok, full, closed, skipped \in 0 .. 2 : RecvTrades(sh, ok, full, closed, skipped)
  PROVE  Inv'
<1> DEFINE c == conn[sh]
<1>1. /\ c \in Conns /\ c.pings \in Nat /\ c.unanswered \in Nat
      /\ c.stats \in Stats /\ c.arrived \in Arrivals
      /\ Accounted(flavor, c.stats, c.arrived) /\ GapSound(c.gap)
  BY ConnFacts
<1>2. Reads /\ (VenuePongsInText(flavor) => loop.skips_pong)
  BY VenuesRead DEF Inv, Reads, loop
<1>3. CASE RecvGarbage(sh)
  <2> DEFINE st == Undecodable(c.stats)
             a == [c.arrived EXCEPT !.garbage = @ + 1]
             d == [Alive(c) EXCEPT !.arrived.garbage = @ + 1,
                                   !.stats = IF Reads THEN Undecodable(@) ELSE @]
  <2>1. Set(sh, d) /\ UNCHANGED <<flavor, routes>>
    BY <1>3 DEF RecvGarbage, Data
  <2> HIDE DEF c
  <2>2. st \in Stats /\ a \in Arrivals
    BY <1>1 DEF Undecodable, Stats, Arrivals
  <2>3. Accounted(flavor, st, a)
    BY <1>1 DEF Accounted, Undecodable, payload, Stats, Arrivals
  <2>4. d = [c EXCEPT !.pings = c.pings, !.unanswered = 0,
                      !.stats = st, !.arrived = a, !.gap = c.gap]
    BY <1>1, <1>2 DEF Conns, Alive
  <2> HIDE DEF d, st, a
  <2> QED BY <1>1, <2>1, <2>2, <2>3, <2>4, GoesOn DEF c
<1>4. CASE RecvPongText(sh)
  <2> DEFINE d == [Alive(c) EXCEPT !.stats = IF loop.skips_pong THEN @ ELSE Undecodable(@)]
  <2>1. Set(sh, d) /\ UNCHANGED <<flavor, routes>>
    BY <1>4 DEF RecvPongText, Data
  <2>2. loop.skips_pong
    BY <1>2, <1>4 DEF RecvPongText
  <2> HIDE DEF c
  <2>3. d = [c EXCEPT !.pings = c.pings, !.unanswered = 0,
                      !.stats = c.stats, !.arrived = c.arrived, !.gap = c.gap]
    BY <1>1, <2>2 DEF Conns, Alive
  <2> HIDE DEF d
  <2> QED BY <1>1, <2>1, <2>3, GoesOn DEF c
<1>5. ASSUME NEW n \in 1 .. 2, RecvUnparsed(sh, n) PROVE Inv'
  <2> DEFINE st == [c.stats EXCEPT !.parse_errors = @ + 1]
             a == [c.arrived EXCEPT !.trades = @ + n, !.unparsed = @ + n,
                                    !.bad_batches = @ + 1]
             d == [Alive(c) EXCEPT
                     !.arrived.trades = @ + n, !.arrived.unparsed = @ + n,
                     !.arrived.bad_batches = @ + 1,
                     !.stats.parse_errors = @ + (IF Reads THEN 1 ELSE 0)]
  <2>1. Set(sh, d) /\ UNCHANGED <<flavor, routes>>
    BY <1>5 DEF RecvUnparsed, Data
  <2> HIDE DEF c
  <2>2. st \in Stats /\ a \in Arrivals
    <3>1. /\ c.stats.parse_errors + 1 \in Nat
          /\ c.arrived.trades + n \in Nat /\ c.arrived.unparsed + n \in Nat
          /\ c.arrived.bad_batches + 1 \in Nat
      BY <1>1 DEF Stats, Arrivals
    <3> QED BY <1>1, <3>1, Counting
  <2>3. Accounted(flavor, st, a)
    BY <1>1 DEF Accounted, Stats, Arrivals
  <2>4. d = [c EXCEPT !.pings = c.pings, !.unanswered = 0,
                      !.stats = st, !.arrived = a, !.gap = c.gap]
    <3>1. (IF Reads THEN 1 ELSE 0) = 1
      BY <1>2
    <3>2. d = [c EXCEPT !.unanswered = 0, !.arrived = a, !.stats = st]
      BY <1>1, <3>1 DEF Conns, Alive, Arrivals
    <3> HIDE DEF d, st, a
    <3> QED BY <1>1, <3>2 DEF Conns
  <2> HIDE DEF d, st, a
  <2> QED BY <1>1, <2>1, <2>2, <2>3, <2>4, GoesOn DEF c
<1>6. ASSUME NEW ok \in 0 .. 2, NEW full \in 0 .. 2, NEW closed \in 0 .. 2,
             NEW skipped \in 0 .. 2, RecvTrades(sh, ok, full, closed, skipped)
      PROVE  Inv'
  <2> DEFINE n == ok + full + closed + skipped
  <2>1. PICK id \in 1 .. MaxId :
          Set(sh, [Alive(c) EXCEPT
                     !.arrived.trades = @ + n, !.arrived.skipped = @ + skipped,
                     !.stats = IF Reads THEN TrySend(@, ok, full, closed) ELSE @,
                     !.gap = IF payload.detects_gaps THEN DetectGap(@, id) ELSE @])
    BY <1>6 DEF RecvTrades
  <2> DEFINE st == TrySend(c.stats, ok, full, closed)
             a == [c.arrived EXCEPT !.trades = @ + n, !.skipped = @ + skipped]
             g == IF payload.detects_gaps THEN DetectGap(c.gap, id) ELSE c.gap
             d == [Alive(c) EXCEPT
                     !.arrived.trades = @ + n, !.arrived.skipped = @ + skipped,
                     !.stats = IF Reads THEN TrySend(@, ok, full, closed) ELSE @,
                     !.gap = IF payload.detects_gaps THEN DetectGap(@, id) ELSE @]
  <2>2. Set(sh, d) /\ UNCHANGED <<flavor, routes>>
    BY <1>6, <2>1 DEF RecvTrades, Data
  <2> HIDE DEF c
  <2>3. st \in Stats
    <3>1. /\ c.stats.trades_emitted + ok \in Nat
          /\ c.stats.trades_dropped_backpressure + full \in Nat
          /\ c.stats.trades_dropped_closed + closed \in Nat
      BY <1>1 DEF Stats
    <3> QED BY <1>1, <3>1, Counting DEF TrySend
  <2>4. a \in Arrivals
    <3>1. c.arrived.trades + n \in Nat /\ c.arrived.skipped + skipped \in Nat
      BY <1>1 DEF Arrivals
    <3> HIDE DEF n
    <3> QED BY <1>1, <3>1 DEF Arrivals
  <2>5. Accounted(flavor, st, a)
    <3>1. /\ st.trades_emitted = c.stats.trades_emitted + ok
          /\ st.trades_dropped_backpressure = c.stats.trades_dropped_backpressure + full
          /\ st.trades_dropped_closed = c.stats.trades_dropped_closed + closed
          /\ st.parse_errors = c.stats.parse_errors
          /\ st.frames_undecodable = c.stats.frames_undecodable
      BY <1>1 DEF TrySend, Stats
    <3>2. /\ a.trades = c.arrived.trades + n /\ a.unparsed = c.arrived.unparsed
          /\ a.skipped = c.arrived.skipped + skipped
          /\ a.bad_batches = c.arrived.bad_batches /\ a.garbage = c.arrived.garbage
      BY <1>1 DEF Arrivals
    <3>3. /\ {c.stats.trades_emitted, c.stats.trades_dropped_backpressure,
             c.stats.trades_dropped_closed} \subseteq Nat
          /\ c.arrived.unparsed \in Nat /\ c.arrived.skipped \in Nat
      BY <1>1 DEF Stats, Arrivals
    <3>4. skipped > 0 => flavor \in SkippingFlavors
      <4>1. skipped > 0 => payload.unusable_deal # "fails"
        <5>1. PassesOver(skipped, ok + full + closed)
          BY <1>6, Zenon DEF RecvTrades
        <5> QED BY <5>1 DEF PassesOver
      <4>2. flavor \in DOMAIN Flavors
        BY DEF Inv
      <4> QED BY <4>1, <4>2, OthersFail DEF payload, SkippingFlavors
    <3> HIDE DEF st, a
    <3> QED BY <1>1, <3>1, <3>2, <3>3, <3>4 DEF Accounted
  <2>6. GapSound(g)
    <3>1. id \in Nat \ {0}
      BY SessionsAssumption
    <3> QED BY <1>1, <3>1, DetectGapSound
  <2>7. d = [c EXCEPT !.pings = c.pings, !.unanswered = 0,
                      !.stats = st, !.arrived = a, !.gap = g]
    <3> HIDE DEF n
    <3> QED BY <1>1, <1>2 DEF Conns, Alive
  <2> HIDE DEF d, st, a, g
  <2> QED BY <1>1, <2>2, <2>3, <2>4, <2>5, <2>6, <2>7, GoesOn DEF c
<1> QED BY <1>3, <1>4, <1>5, <1>6

-----------------------------------------------------------------------------
(* The invariant and what it implies.                                      *)

\* A session that starts, or starts over on other routes, has a connection that
\* is down for each shard.
LEMMA FreshSound ==
  ASSUME NEW f \in DOMAIN Flavors, NEW S \in RouteSets, NEW P \in Shards(S),
         NEW b \in Nat
  PROVE  /\ S \in SUBSET Symbols
         /\ CutInto(S, DOMAIN [sh \in P |-> Down(b)])
         /\ \A sh \in P : ConnSound(f, sh, [s \in P |-> Down(b)][sh])
BY ShardsCut, DownSound, SessionsAssumption

\* The first call of run_session starts from sound connections.
LEMMA InitInv == Init => Inv
<1> SUFFICES ASSUME Init PROVE Inv
  OBVIOUS
<1>1. PICK P \in Shards(routes) : conn = [sh \in P |-> Down(BackoffMin)]
  BY DEF Init
<1>2. flavor \in DOMAIN Flavors /\ routes \in RouteSets /\ BackoffMin \in Nat
  BY SessionsAssumption DEF Init
<1> QED
  BY <1>1, <1>2, FreshSound DEF Inv

\* A change of routes drops every connection and cuts the new routes.
LEMMA CycleStep ==
  ASSUME Inv, NEW S \in RouteSets, Cycle(S)
  PROVE  Inv'
<1>1. PICK P \in Shards(S), sh \in DOMAIN conn :
        conn' = ShardsDropped(P, IF sharded THEN BackoffMin ELSE conn[sh].backoff)
  BY DEF Cycle
<1> DEFINE b == IF sharded THEN BackoffMin ELSE conn[sh].backoff
<1>2. b \in Nat
  BY SessionsAssumption DEF Inv, ConnSound, Conns
<1> HIDE DEF b
<1>3. conn' = [s \in P |-> Down(b)]
  BY <1>1 DEF ShardsDropped, b
<1>4. flavor' = flavor /\ routes' = S /\ flavor \in DOMAIN Flavors
  BY DEF Cycle, Inv
<1>5. /\ S \in SUBSET Symbols
      /\ CutInto(S, DOMAIN conn')
      /\ \A s \in P : ConnSound(flavor, s, conn'[s])
  BY <1>2, <1>3, <1>4, FreshSound
<1> QED
  BY <1>3, <1>4, <1>5 DEF Inv

\* Every step of the session keeps the invariant.
LEMMA NextInv == Inv /\ [Next]_vars => Inv'
<1> SUFFICES ASSUME Inv, [Next]_vars PROVE Inv'
  OBVIOUS
<1>1. CASE UNCHANGED vars
  BY <1>1 DEF vars, Inv
<1>2. ASSUME NEW sh \in DOMAIN conn, Step(sh) PROVE Inv'
  <2>1. CASE ConnectOk(sh) \/ SubscribeOk(sh) \/ Wake(sh)
    BY <2>1, ConnectStep
  <2>2. CASE ConnectFails(sh) \/ SendFails(sh) \/ RecvEnd(sh)
    BY <2>2, EndStep DEF ConnectFails, SendFails, RecvEnd
  <2>3. CASE PingTick(sh) \/ RecvPing(sh) \/ RecvOther(sh) \/ RecvHeartbeat(sh)
    BY <2>3, QuietStep
  <2>4. CASE \/ RecvGarbage(sh)
             \/ RecvPongText(sh)
             \/ \E n \in 1 .. 2 : RecvUnparsed(sh, n)
             \/ \E ok, full, closed, skipped \in 0 .. 2 : RecvTrades(sh, ok, full, closed, skipped)
    BY <2>4, DataStep
  <2> QED BY <1>2, <2>1, <2>2, <2>3, <2>4 DEF Step
<1>3. ASSUME NEW S \in RouteSets, Cycle(S) PROVE Inv'
  BY <1>3, CycleStep
<1> QED BY <1>1, <1>2, <1>3 DEF Next

\* The inductive invariant holds throughout.
THEOREM Invariance == Spec => []Inv
BY InitInv, NextInv, PTL DEF Spec

(***************************************************************************)
(* Sharding, batching, reconnects and route changes neither lose nor       *)
(* double a symbol (FedExactlyOnce), for any number of symbols, any shard  *)
(* and batch size and any cut.                                             *)
(***************************************************************************)
THEOREM SymbolsFedOnce == Spec => []FedExactlyOnce
<1>1. Inv => FedExactlyOnce
  <2> SUFFICES ASSUME Inv PROVE FedExactlyOnce
    OBVIOUS
  <2> DEFINE Of(s) == {sh \in DOMAIN conn : s \in sh}
  <2>1. ASSUME NEW s \in Symbols
        PROVE  Cardinality(Of(s)) = IF s \in routes THEN 1 ELSE 0
    <3>1. CASE s \in routes
      <4>1. PICK sh \in DOMAIN conn : s \in sh
        BY <3>1 DEF Inv, CutInto
      <4>2. Of(s) = {sh}
        BY <4>1 DEF Inv, CutInto
      <4> HIDE DEF Of
      <4> QED BY <3>1, <4>2, FS_Singleton
    <3>2. CASE s \notin routes
      <4>1. Of(s) = {}
        BY <3>2 DEF Inv, CutInto
      <4> HIDE DEF Of
      <4> QED BY <3>2, <4>1, FS_EmptySet
    <3> QED BY <3>1, <3>2
  <2>2. \A sh \in DOMAIN conn : Live(sh) => conn[sh].subscribed = sh
    BY DEF Inv, ConnSound, Live
  <2> QED BY <2>1, <2>2 DEF FedExactlyOnce
<1> QED BY <1>1, Invariance, PTL

(***************************************************************************)
(* The counters of SessionStats account for every trade, batch and frame   *)
(* the venue sent (StatsAccount), on every venue, with one exception: a    *)
(* deal the parsers of Hyperliquid, BingX and MEXC pass over.              *)
(***************************************************************************)
THEOREM EverythingCounted == Spec => []StatsAccount
<1>1. Inv => StatsAccount
  BY DEF Inv, ConnSound, Accounted, StatsAccount, SkippingFlavors, payload
<1> QED BY <1>1, Invariance, PTL

(***************************************************************************)
(* detect_gap is exact for ids in order and neither misses a hole nor      *)
(* invents one otherwise (GapCountersSound), for any ids in any order.     *)
(***************************************************************************)
THEOREM GapsCounted == Spec => []GapCountersSound
<1>1. Inv => GapCountersSound
  BY DEF Inv, ConnSound, GapSound, GapCountersSound
<1> QED BY <1>1, Invariance, PTL

=============================================================================
