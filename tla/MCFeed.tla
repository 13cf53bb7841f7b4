-------------------------------- MODULE MCFeed --------------------------------
(***************************************************************************)
(* Instances of Feed: steps with trailing zeros, whole and fractional      *)
(* contracts below and above one unit, entries that lack a field, are      *)
(* malformed, closed, dated or quoted in another currency.                 *)
(***************************************************************************)
EXTENDS Feed

Entry(tick, lot, ct) ==
  [named |-> TRUE, filters |-> TRUE, live |-> "yes", kind |-> "perp", quote |-> "USDT",
   tick |-> tick, lot |-> lot, ct |-> ct]

Tenth == Decimal(0, <<1>>)
TenthPadded == Decimal(0, <<1, 0>>)
Nickel == Decimal(0, <<0, 5>>)
Ten == Decimal(10, <<>>)
Millionth == Decimal(0, <<0, 0, 0, 0, 0, 1>>)

Good == Entry(TenthPadded, One, Tenth)
MCListings(k) ==
  IF k = <<"perp", "a">>
  THEN {Good, Entry(Nickel, One, Ten), Entry(One, TenthPadded, Ten), Entry(Tenth, Tenth, One)}
  ELSE IF k = <<"spot", "a">> THEN {Entry(Nickel, Tenth, One), [Good EXCEPT !.live = "no"]}
  ELSE {Good, [Good EXCEPT !.filters = FALSE], [Good EXCEPT !.named = FALSE],
        [Good EXCEPT !.quote = "other"], [Good EXCEPT !.kind = "dated"],
        [Good EXCEPT !.live = "absent"], [Good EXCEPT !.lot = Malformed, !.ct = Absent],
        [Good EXCEPT !.tick = Decimal(0, <<0>>)], [Good EXCEPT !.tick = Millionth],
        [Good EXCEPT !.ct = Millionth], [Good EXCEPT !.tick = Absent]}

Deals ==
  [side : {"buy", "sell"}, price : {Decimal(1, <<5>>), Decimal(1, <<0, 5>>), Ten},
   qty : {Decimal(3, <<>>), Decimal(0, <<5>>)}, timed : {TRUE}]
    \cup {[side |-> "odd", price |-> One, qty |-> One, timed |-> TRUE],
          [side |-> "buy", price |-> Absent, qty |-> One, timed |-> TRUE],
          [side |-> "sell", price |-> One, qty |-> Malformed, timed |-> FALSE]}
PlainDeal == [side |-> "buy", price |-> One, qty |-> One, timed |-> TRUE]
SmallDeal == [PlainDeal EXCEPT !.price = Decimal(0, <<0, 0, 0, 0, 0, 3>>)]
MCMessages ==
  {<<d>> : d \in Deals \cup {PlainDeal, SmallDeal}}
    \cup {<<PlainDeal, d>> : d \in {e \in Deals : e.side # "buy"}}
MCVenues == {"binance", "aster", "bybit", "okx", "bitget", "kucoin", "mexc", "hyperliquid", "bingx"}
MCOkx == {"okx"}
=============================================================================
