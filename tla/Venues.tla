-------------------------------- MODULE Venues --------------------------------
(***************************************************************************)
(* The venue-specific part of the wire sessions: what each exchange's      *)
(* connector (crates/exchange-*, the *_ws.rs files) declares, and what     *)
(* each session (the *_session.rs files of crates/cluster-ingest) does     *)
(* differently from the others.  Sessions.tla runs a session from these    *)
(* records.                                                                *)
(***************************************************************************)
EXTENDS Naturals

-----------------------------------------------------------------------------
(***************************************************************************)
(* Connectors: symbols in one subscribe message (0: all of them), the ping *)
(* interval and who pings, the silence after which the connection is       *)
(* called stale, and the symbols declared for one socket.                  *)
(***************************************************************************)
WsConnector(args, ping, kind, pong, max) ==
  [args_per_subscribe |-> args, ping_interval_ms |-> ping, ping_payload |-> kind,
   pong_timeout_ms |-> pong, max_subscriptions_per_socket |-> max]

BinanceFuturesWs == WsConnector(0, 180000, "server", 600000, 200)
BinanceSpotWs == WsConnector(0, 20000, "server", 60000, 200)
AsterWs == WsConnector(100, 180000, "server", 600000, 1024)
BitgetWs == WsConnector(50, 15000, "text", 30000, 200)
BybitWs == WsConnector(10, 20000, "text", 30000, 200)
OkxWs == WsConnector(100, 20000, "text", 30000, 200)
BingxWs == WsConnector(1, 0, "server", 60000, 150)
HyperliquidWs == WsConnector(1, 14000, "text", 30000, 1000)
KucoinWs == WsConnector(100, 15000, "text", 40000, 300)
MexcWs(futures) == WsConnector(IF futures THEN 1 ELSE 20, 15000, "server", 60000, 100)

-----------------------------------------------------------------------------
(***************************************************************************)
(* Sessions: symbols per connection (0: one connection for all), the       *)
(* interval of the client's pings (0: none), which messages are read as    *)
(* data, whether a plain "pong" text is skipped before decoding, and what  *)
(* counts into pongs_sent.                                                 *)
(***************************************************************************)
Loop(shard, ping, data, pongText, counted) ==
  [shard_size |-> shard, ping_ms |-> ping, data |-> data, skips_pong |-> pongText,
   counted |-> counted]

Both == {"text", "binary"}
AtLeast(a, b) == IF a < b THEN b ELSE a
AtMost(a, b) == IF a > b THEN b ELSE a
Minus(a, b) == IF a > b THEN a - b ELSE 0     \* saturating_sub

BinanceLoop == Loop(0, 0, Both, FALSE, {"pong"})
BybitLoop == Loop(0, AtLeast(BybitWs.ping_interval_ms, 1000), Both, FALSE, {"ping"})
OkxLoop == Loop(0, AtLeast(OkxWs.ping_interval_ms, 1000), Both, TRUE, {"ping"})
BitgetLoop == Loop(0, AtLeast(BitgetWs.ping_interval_ms, 1000), Both, TRUE, {"ping"})
AsterLoop == Loop(100, 0, Both, FALSE, {})
HyperliquidLoop == Loop(250, 14000, Both, FALSE, {})
\* Binary messages are inflated first.
BingxLoop == Loop(150, 0, Both, FALSE, {})
MexcSpotLoop == Loop(100, 15000, {"binary"}, FALSE, {})
MexcFuturesLoop == Loop(100, 15000, {"text"}, FALSE, {})

\* "a few seconds inside the server's pingInterval", which the venue names anew
\* for every connection.
KucoinPingMs(interval) == AtLeast(Minus(AtMost(AtLeast(interval, 5000), 18000), 3000), 5000)
KucoinLoop(interval) == Loop(250, KucoinPingMs(interval), Both, FALSE, {})

-----------------------------------------------------------------------------
(***************************************************************************)
(* What a session does with the body of a data message: whether it may     *)
(* hold several trades, whether one that does not decode is counted (or    *)
(* passed over), whether ids are checked for gaps, whether a JSON          *)
(* heartbeat is answered, and what becomes of a deal without a side, price *)
(* or quantity: it fails the message ("fails"), it is passed over unless   *)
(* nothing else is in the message ("skips"), or it is passed over anyway   *)
(* ("ignores").  A body without a trade (an acknowledgement, an error, a   *)
(* pong) is passed over by all of them.                                    *)
(***************************************************************************)
Payload(batch, undecodable, gaps, heartbeat, unusable) ==
  [batch |-> batch, counts_undecodable |-> undecodable, detects_gaps |-> gaps,
   answers_heartbeat |-> heartbeat, unusable_deal |-> unusable]

BinancePayload == Payload(FALSE, TRUE, TRUE, FALSE, "fails")
AsterPayload == Payload(FALSE, TRUE, FALSE, FALSE, "fails")
BybitPayload == Payload(TRUE, TRUE, FALSE, FALSE, "fails")
OkxPayload == Payload(TRUE, TRUE, FALSE, FALSE, "fails")
BitgetPayload == Payload(TRUE, TRUE, FALSE, FALSE, "fails")
KucoinPayload == Payload(FALSE, TRUE, FALSE, FALSE, "fails")
HyperliquidPayload == Payload(TRUE, TRUE, FALSE, FALSE, "skips")
BingxPayload == Payload(TRUE, TRUE, FALSE, TRUE, "skips")
\* The spot session asks the protobuf for a symbol and passes over what has none.
MexcPayload(futures) == Payload(TRUE, futures, FALSE, FALSE, "ignores")

-----------------------------------------------------------------------------
\* The kind of message each venue sends its trades in, and the venues whose answer
\* to a ping is the plain text "pong".
VenueSends(f) == IF f \in {"mexc", "bingx"} THEN "binary" ELSE "text"
VenuePongsInText(f) == f \in {"okx", "bitget"}

\* run_session_loop's choice by SessionFlavor; Binance's session serves both of
\* its markets.
Flavor(ws, loop, payload) == [ws |-> ws, loop |-> loop, payload |-> payload]

Flavors ==
  [binance |-> Flavor(BinanceSpotWs, BinanceLoop, BinancePayload),
   binance_f |-> Flavor(BinanceFuturesWs, BinanceLoop, BinancePayload),
   aster |-> Flavor(AsterWs, AsterLoop, AsterPayload),
   bitget |-> Flavor(BitgetWs, BitgetLoop, BitgetPayload),
   bybit |-> Flavor(BybitWs, BybitLoop, BybitPayload),
   okx |-> Flavor(OkxWs, OkxLoop, OkxPayload),
   bingx |-> Flavor(BingxWs, BingxLoop, BingxPayload),
   hyperliquid |-> Flavor(HyperliquidWs, HyperliquidLoop, HyperliquidPayload),
   kucoin |-> Flavor(KucoinWs, KucoinLoop(18000), KucoinPayload),
   mexc |-> Flavor(MexcWs(FALSE), MexcSpotLoop, MexcPayload(FALSE)),
   mexc_f |-> Flavor(MexcWs(TRUE), MexcFuturesLoop, MexcPayload(TRUE))]
=============================================================================
