--------------------------------- MODULE Config ---------------------------------
(***************************************************************************)
(* The configuration of the server (crates/cluster-ingest/src/config.rs),  *)
(* what main.rs starts from it, and the names under which clients ask for  *)
(* what was started (exchange-core/src/types.rs, cluster-api).             *)
(*                                                                         *)
(* A configuration is a record: the timeframes and retention overrides are *)
(* sequences, because their order and repetitions matter to the checks;    *)
(* the whitelist and the sections switched off are sets.  The interval of  *)
(* an override is AnyTf where the file gives none.  Names are compared as  *)
(* they are written; `lower' and `upper' spellings are distinct values.    *)
(***************************************************************************)
EXTENDS Integers, Sequences, FiniteSets, Functions

CONSTANTS
  MinTf,     \* the shortest timeframe the code accepts (30 s)
  BaseTf     \* the timeframe every longer one is rolled up from (60 s)

ASSUME TimeframeAssumption == MinTf \in Nat \ {0} /\ BaseTf \in Nat \ {0}

AnyTf == 0

-----------------------------------------------------------------------------
(* The supervisors main can start, one block of main each: the section,    *)
(* the decoder of its sessions and the identity of its streams.            *)

Section(flavor, exchange, market) ==
  [flavor |-> flavor, exchange |-> exchange, market |-> market]

binance_perp == Section("Binance", "BinanceF", "Perp")
binance_spot == Section("Binance", "Binance", "Spot")
bybit_perp == Section("Bybit", "BybitF", "Perp")
bybit_spot == Section("Bybit", "Bybit", "Spot")
okx_perp == Section("Okx", "OkxF", "Perp")
okx_spot == Section("Okx", "Okx", "Spot")
bitget_perp == Section("Bitget", "BitgetF", "Perp")
bitget_spot == Section("Bitget", "Bitget", "Spot")
aster_perp == Section("Aster", "AsterF", "Perp")
aster_spot == Section("Aster", "Aster", "Spot")
kucoin_perp == Section("Kucoin", "KucoinF", "Perp")
kucoin_spot == Section("Kucoin", "Kucoin", "Spot")
mexc_perp == Section("Mexc", "MexcF", "Perp")
mexc_spot == Section("Mexc", "Mexc", "Spot")
hyperliquid_perp == Section("Hyperliquid", "HyperliquidF", "Perp")
bingx_perp == Section("Bingx", "BingxF", "Perp")
bingx_spot == Section("Bingx", "Bingx", "Spot")

Sections ==
  {binance_perp, binance_spot, bybit_perp, bybit_spot, okx_perp, okx_spot,
   bitget_perp, bitget_spot, aster_perp, aster_spot, kucoin_perp, kucoin_spot,
   mexc_perp, mexc_spot, hyperliquid_perp, bingx_perp, bingx_spot}

\* A non-empty whitelist decides alone; otherwise the section's own flag,
\* which is on where the file has no such section.
is_exchange_enabled(cfg, s) ==
  IF cfg.enabled_exchanges # {} THEN s \in cfg.enabled_exchanges
                                ELSE s \notin cfg.disabled

Supervised(cfg) == {s \in Sections : is_exchange_enabled(cfg, s)}

-----------------------------------------------------------------------------
(* Wire names.                                                             *)

wire_id ==
  [Binance |-> "BINANCE", BinanceF |-> "BINANCEF", Bybit |-> "BYBIT",
   BybitF |-> "BYBITF", Bitget |-> "BITGET", BitgetF |-> "BITGETF",
   Okx |-> "OKX", OkxF |-> "OKXF", Hyperliquid |-> "HYPERLIQUID",
   HyperliquidF |-> "HYPERLIQUIDF", Kucoin |-> "KUCOIN",
   KucoinF |-> "KUCOINF", Gate |-> "GATE", GateF |-> "GATEF",
   Aster |-> "ASTER", AsterF |-> "ASTERF", Mexc |-> "MEXC",
   MexcF |-> "MEXCF", Bingx |-> "BINGX", BingxF |-> "BINGXF"]

\* The names rows_from_snapshot stores, and the gRPC names of a market.
market_column == [Spot |-> "spot", Perp |-> "perp"]
market_type_wire == [Spot |-> "SPOT", Perp |-> "PERP"]

\* The gRPC parser has a table of its own, from names to exchanges.
parse_exchange ==
  [BINANCE |-> "Binance", BINANCEF |-> "BinanceF", BYBIT |-> "Bybit",
   BYBITF |-> "BybitF", BITGET |-> "Bitget", BITGETF |-> "BitgetF",
   OKX |-> "Okx", OKXF |-> "OkxF", HYPERLIQUID |-> "Hyperliquid",
   HYPERLIQUIDF |-> "HyperliquidF", KUCOIN |-> "Kucoin",
   KUCOINF |-> "KucoinF", GATE |-> "Gate", GATEF |-> "GateF",
   ASTER |-> "Aster", ASTERF |-> "AsterF", MEXC |-> "Mexc",
   MEXCF |-> "MexcF", BINGX |-> "Bingx", BINGXF |-> "BingxF"]

parse_market_type == [SPOT |-> "Spot", PERP |-> "Perp"]

\* subscribe: the stream key of a request for one symbol, {} if it is
\* refused.  An interval of 0 means 60 s; no list of intervals is consulted.
subscribe(exchange, market, interval) ==
  {[exchange |-> parse_exchange[e], market |-> parse_market_type[m],
    interval |-> IF interval = 0 THEN BaseTf ELSE interval] :
      e \in {exchange} \cap DOMAIN parse_exchange,
      m \in {market} \cap DOMAIN parse_market_type}

-----------------------------------------------------------------------------
(* Authentication.                                                         *)

\* An environment variable may add a token and may set the flag.
apply_env(auth, env) ==
  [enabled |-> IF env.enabled = "unset" THEN auth.enabled
                                        ELSE env.enabled = "on",
   tokens |-> auth.tokens \cup env.token]

AuthValid(auth) == auth.enabled => auth.tokens # {}

\* The bearer check in front of every REST path but /health and /metrics, and
\* of the gRPC service; `token' is {} for a request without a bearer header.
accepts(auth, token) == ~auth.enabled \/ token \cap auth.tokens # {}

-----------------------------------------------------------------------------
(* Timeframes and retention.                                               *)

validate_timeframes(cfg) ==
  /\ cfg.timeframes_secs # <<>>
  /\ \A tf \in Range(cfg.timeframes_secs) : tf >= MinTf
  /\ IsInjective(cfg.timeframes_secs)

Slice(o) == <<o.exchange, o.market_type>>

RetentionValid(r) ==
  /\ IsInjective([i \in DOMAIN r.overrides |->
       <<Slice(r.overrides[i]), r.overrides[i].interval_seconds>>])
  /\ \A o \in Range(r.overrides) :
       /\ o.upper
       /\ o.market_type \in {"spot", "perp"}

\* The overrides that apply to a table, by their place in the file.
Applicable(r, tf) ==
  {i \in DOMAIN r.overrides : r.overrides[i].interval_seconds \in {AnyTf, tf}}

\* Faulty variant of the next operator: the first rule of a slice is kept
\* even where a more specific one follows.
FirstRule(r, tf) ==
  {r.overrides[i] : i \in {j \in Applicable(r, tf) : \A k \in Applicable(r, tf) :
     Slice(r.overrides[k]) = Slice(r.overrides[j]) => j <= k}}

\* The `effective' map: one rule per slice, the first one of those that name
\* the timeframe if there is one, else the first of the general ones.
EffectiveRules(r, tf) ==
  LET Tf(i) == r.overrides[i].interval_seconds
      Beats(k, j) == \/ Tf(k) = Tf(j) /\ k < j
                     \/ Tf(k) = tf /\ Tf(j) = AnyTf
  IN  {r.overrides[i] : i \in {j \in Applicable(r, tf) : \A k \in Applicable(r, tf) :
         Slice(r.overrides[k]) = Slice(r.overrides[j]) => ~Beats(k, j)}}

\* A clause of a TTL: what happens to rows of which slices, and at what age.
\* `only' lists the slices meant, or, with `rest', those left out.
Clause(action, days, slices, rest) ==
  [action |-> action, days |-> days, slices |-> slices, rest |-> rest]

\* The clauses of the slices no override names: an optional move to the cold
\* volume, if it comes before the deletion, and the deletion.
DefaultClauses(r, named) ==
  IF r.default_days = 0 THEN {}
  ELSE {Clause("delete", r.default_days, named, TRUE)} \cup
       IF r.move_to_cold_days \in 1..(r.default_days - 1)
         THEN {Clause("cold", r.move_to_cold_days, named, TRUE)} ELSE {}

\* ttl_clause_for: the clauses of a table; {} stands for None.  A rule of 0
\* days keeps its slice for ever: it only takes it out of the default.
ttl_clause_for(r, tf) ==
  LET rules == EffectiveRules(r, tf)
  IN  {Clause("delete", o.days, {Slice(o)}, FALSE) : o \in {p \in rules : p.days > 0}}
        \cup DefaultClauses(r, {Slice(o) : o \in rules})

=============================================================================
