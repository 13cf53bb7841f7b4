-------------------------------- MODULE MCServer --------------------------------
(* Small configurations, environments and requests for Server.             *)
EXTENDS Server

Override(exchange, market, tf, days) ==
  [exchange |-> exchange, market_type |-> market, upper |-> TRUE,
   interval_seconds |-> tf, days |-> days]

Retention(default, cold, overrides) ==
  [default_days |-> default, move_to_cold_days |-> cold, apply_on_start |-> TRUE,
   overrides |-> overrides]

Plain(retention) ==
  [timeframes_secs |-> <<1, 2>>, auth |-> [enabled |-> FALSE, tokens |-> {}],
   retention |-> retention, enabled_exchanges |-> {}, disabled |-> {}]

General == Override("BINANCEF", "perp", AnyTf, 6)
Specific == Override("BINANCEF", "perp", 1, 0)

\* A default with a cold volume; and a general rule followed by one that keeps
\* a slice of one table for ever, the same two kinds in the other order, and a
\* whitelist.  The stream trades under the first one only.
Running ==
  {Plain(Retention(4, 2, <<>>)),
   [Plain(Retention(5, 0, <<General, Specific, Override("BINGX", "spot", 2, 3),
                            Override("BINGX", "spot", AnyTf, 0)>>))
      EXCEPT !.enabled_exchanges = {hyperliquid_perp, bingx_spot},
             !.auth = [enabled |-> TRUE, tokens |-> {"t"}]]}

\* Configurations the server must not start with.
Refused ==
  {Plain(Retention(4, 0, <<General, General>>)),
   [Plain(Retention(4, 0, <<>>)) EXCEPT !.timeframes_secs = <<1, 1>>],
   [Plain(Retention(4, 0, <<>>)) EXCEPT !.auth = [enabled |-> TRUE, tokens |-> {}]]}

MCConfigs == Running \cup Refused

\* The retention of every slice is switched off after it was on.
MCForever == {Plain(Retention(4, 0, <<>>)), Plain(Retention(0, 0, <<>>))}

MCEnv == {[enabled |-> "unset", token |-> {}]}
MCSecret == {[enabled |-> "on", token |-> {"e"}]}
MCPrints == {[price |-> 1, side |-> "Bid"], [price |-> 2, side |-> "Ask"]}
MCDdl == {{2}, {1, 2}}
MCTokens == {{}, {"t"}}
MCStream == binance_perp

Request(tf, from, to) == [interval_seconds |-> tf, from |-> from, to |-> to]
MCRanges == {Request(1, 0, 1), Request(2, 0, 2), Request(2, 0, 1), Request(2, 1, 3), Request(1, 0, 4), Request(2, 2, 1)}

=============================================================================
