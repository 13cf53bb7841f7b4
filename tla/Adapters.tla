------------------------------- MODULE Adapters -------------------------------
(***************************************************************************)
(* What each exchange crate makes of its venue's messages: the instrument  *)
(* lists of instruments_info.rs (and futures_info.rs, spot_info.rs) and    *)
(* the trade messages of the *_trade.rs files.                             *)
(*                                                                         *)
(* An entry of an instrument list is                                       *)
(*   named, filters   whether its symbol, and its list of filters, is there*)
(*   live             "yes", "no" or "absent": its trading status          *)
(*   kind             "perp" or "dated" (futures lists)                    *)
(*   quote            "USDT", "USDC" or "other"                            *)
(*   tick, lot, ct    its price step, quantity step and contract size      *)
(* A venue that gives a number of decimal places instead of a step gives   *)
(* the places of the step.  An entry is kept as a specification, passed    *)
(* over, or fails the whole list.                                          *)
(***************************************************************************)
EXTENDS Decimals

Kept(ps, qs, tick, step) ==
  [verdict |-> "kept",
   spec |-> [price_scale |-> ps, qty_scale |-> qs, tick_size |-> tick, step_size |-> step]]
NoSpec == [price_scale |-> 0, qty_scale |-> 0, tick_size |-> 0, step_size |-> 0]
Skipped == [verdict |-> "skipped", spec |-> NoSpec]
Fails == [verdict |-> "fails", spec |-> NoSpec]

One == Decimal(1, <<>>)
\* A contract counted as 1 does not change the quantity.
NoContract == <<1, 1>>

\* The steps taken without the check for zero.
FromStepsUnchecked(tick, lot) ==
  LET ps == count_decimals_trimmed(tick)
      qs == count_decimals_trimmed(lot)
  IN Kept(ps, qs, parse_scaled(tick, ps), parse_scaled(lot, qs))

\* Scale and step from the written steps; without both, or with a zero step, the
\* entry is passed over.
FromSteps(tick, lot) ==
  LET ps == count_decimals_trimmed(tick)
      qs == count_decimals_trimmed(lot)
      t == parse_scaled(tick, ps)
      s == parse_scaled(lot, qs)
  IN IF Err \in {t, s} \/ 0 \in {t, s} THEN Skipped ELSE Kept(ps, qs, t, s)

\* The same where a step that cannot be read counts as one unit.
FromStepsLenient(tick, lot) ==
  LET ps == count_decimals_trimmed(tick)
      qs == count_decimals_trimmed(lot)
  IN Kept(ps, qs, AtLeastOne(parse_scaled(tick, ps)), AtLeastOne(parse_scaled(lot, qs)))

Quoted(e) == e.quote \in {"USDT", "USDC"}

\* The one list that fails as a whole: an entry of interest without its name or
\* its filters.
BinanceSpotInstrument(e) ==
  IF e.live # "yes" \/ ~Quoted(e) THEN Skipped
  ELSE IF ~e.named \/ ~e.filters THEN Fails
  ELSE FromSteps(e.tick, e.lot)

BinanceFuturesInstrument(e) ==
  IF e.kind # "perp" THEN Skipped ELSE BinanceSpotInstrument(e)

BinanceInstrument(e, perp) ==
  IF perp THEN BinanceFuturesInstrument(e) ELSE BinanceSpotInstrument(e)

\* Aster's list read the way Binance's is.
AsterInstrumentStrict(e, perp) == BinanceInstrument(e, perp)

AsterInstrument(e, perp) ==
  IF e.live # "yes" \/ (perp /\ e.kind # "perp") \/ ~Quoted(e) \/ ~e.named \/ ~e.filters
  THEN Skipped ELSE FromSteps(e.tick, e.lot)

\* Nothing tells a dated contract of the linear category from a perpetual one.
BybitInstrument(e, perp) ==
  IF e.live # "yes" \/ ~e.named \/ ~Quoted(e) THEN Skipped ELSE FromSteps(e.tick, e.lot)

\* The lot is in contracts for a swap: its size in the base asset gives the scale.
OkxInstrument(e, perp) ==
  IF e.live # "yes" \/ ~e.named \/ ~Quoted(e) \/ Absent \in {e.tick, e.lot} THEN Skipped
  ELSE FromSteps(e.tick, IF perp THEN multiply_decimal_strs(e.lot, OrElse(e.ct, One)) ELSE e.lot)

BitgetInstrument(e, perp) ==
  IF ~e.named \/ ~Quoted(e) \/ e.live = "no" \/ ~e.tick.ok \/ ~e.lot.ok THEN Skipped
  ELSE LET ps == Len(e.tick.frac)
           qs == Len(e.lot.frac)
       IN IF perp THEN Kept(ps, qs, AtLeastOne(parse_scaled(e.tick, ps)),
                                    AtLeastOne(parse_scaled(e.lot, qs)))
          ELSE Kept(ps, qs, 1, 1)

\* The futures list gives numbers, the spot list strings.
num_or_str(d, perp) == IF perp THEN json_number(d) ELSE d

KucoinInstrument(e, perp) ==
  IF e.live = "no" \/ ~Quoted(e) \/ ~e.named THEN Skipped
  ELSE IF ~perp THEN FromStepsLenient(OrElse(e.tick, Decimal(0, <<0, 0, 0, 1>>)),
                                      OrElse(e.lot, Decimal(0, <<0, 0, 0, 1>>)))
  ELSE LET tick == OrElse(num_or_str(e.tick, perp), Decimal(0, <<1>>))
           lot == OrElse(num_or_str(e.lot, perp), One)
           ct == OrElse(num_or_str(e.ct, perp), One)
       IN IF parse_scaled(tick, count_decimals_trimmed(tick)) \in {Err, 0} THEN Skipped
          ELSE FromStepsLenient(tick, multiply_decimal_strs(lot, ct))

\* The price scale of a spot pair is its quotePrecision; futures give numbers, and
\* one that is missing or zero takes the default (fmt_decimal).
MexcNumber(d, default) == IF ~d.ok \/ Numerator(d) = 0 THEN default ELSE d
MexcFuturesInstrument(e) ==
  IF e.live # "yes" \/ ~e.named \/ ~Quoted(e) THEN Skipped
  ELSE FromStepsLenient(MexcNumber(e.tick, Decimal(0, <<0, 1>>)),
         multiply_decimal_strs(MexcNumber(e.lot, One), MexcNumber(e.ct, One)))

MexcSpotInstrument(e) ==
  IF e.live = "no" \/ ~Quoted(e) \/ ~e.named \/ ~e.tick.ok THEN Skipped
  ELSE LET lot == OrElse(e.lot, One)
           qs == count_decimals_trimmed(lot)
       IN Kept(Len(e.tick.frac), qs, 1, AtLeastOne(parse_scaled(lot, qs)))

MexcInstrument(e, perp) ==
  IF perp THEN MexcFuturesInstrument(e) ELSE MexcSpotInstrument(e)

\* szDecimals gives the quantity scale and what is left of MAX_DECIMALS_PERP the
\* price scale.
MAX_DECIMALS_PERP == 6
HyperliquidInstrument(e, perp) ==
  IF e.live = "no" \/ ~e.named THEN Skipped
  ELSE LET sz == IF e.lot.ok THEN Len(e.lot.frac) ELSE 0
       IN Kept(IF sz > MAX_DECIMALS_PERP THEN 0 ELSE MAX_DECIMALS_PERP - sz, sz, 1, 1)

BingxSwapInstrument(e) ==
  IF e.live # "yes" \/ ~e.named \/ ~Quoted(e) THEN Skipped
  ELSE LET qs == IF e.lot.ok THEN Len(e.lot.frac) ELSE 0
       IN Kept(IF e.tick.ok THEN Len(e.tick.frac) ELSE 2, qs, 1, AtLeastOne(parse_scaled(e.lot, qs)))

BingxSpotInstrument(e) ==
  IF e.live # "yes" \/ ~e.named \/ ~Quoted(e) THEN Skipped
  ELSE FromStepsLenient(OrElse(e.tick, Decimal(0, <<0, 1>>)),
                        OrElse(e.lot, Decimal(0, <<0, 0, 0, 0, 0, 1>>)))

BingxInstrument(e, perp) ==
  IF perp THEN BingxSwapInstrument(e) ELSE BingxSpotInstrument(e)

Instrument(v, e, perp) ==
  CASE v = "binance" -> BinanceInstrument(e, perp)
    [] v = "aster" -> AsterInstrument(e, perp)
    [] v = "bybit" -> BybitInstrument(e, perp)
    [] v = "okx" -> OkxInstrument(e, perp)
    [] v = "bitget" -> BitgetInstrument(e, perp)
    [] v = "kucoin" -> KucoinInstrument(e, perp)
    [] v = "mexc" -> MexcInstrument(e, perp)
    [] v = "hyperliquid" -> HyperliquidInstrument(e, perp)
    [] v = "bingx" -> BingxInstrument(e, perp)

\* The venues whose perpetuals trade in contracts, and the size set_ct registers.
Contracted == {"okx", "kucoin", "mexc"}
RegisteredCt(v, e) ==
  ct_val_fraction(CASE v = "mexc" -> MexcNumber(e.ct, One)
                    [] v = "kucoin" -> OrElse(num_or_str(e.ct, TRUE), One)
                    [] OTHER -> OrElse(e.ct, One))

-----------------------------------------------------------------------------
(***************************************************************************)
(* A trade message holds one or several deals: the taker's side ("buy",    *)
(* "sell", "odd" for a value the venue never documents, "absent"), price,  *)
(* quantity, and whether it has a time.  A deal is a trade, is passed over *)
(* or fails the whole message, in which case the session drops it.         *)
(***************************************************************************)
Bid == "bid"
Ask == "ask"
Taker(side) == IF side = "buy" THEN Bid ELSE Ask

Trade(side, price, qty, timed) ==
  [out |-> "trade", side |-> side, price |-> price, qty |-> qty, timed |-> timed]
Rejected == [out |-> "fails", side |-> "absent", price |-> 0, qty |-> 0, timed |-> FALSE]
PassedOver == [Rejected EXCEPT !.out = "skip"]

\* The inverse of the conversion that follows.
BaseQtySwapped(d, spec, ct) ==
  LET contracts == parse_scaled(d, spec.qty_scale)
  IN IF contracts = Err THEN Err ELSE (contracts * ct[2]) \div ct[1]

\* The quantity in the base asset: the scaled number of contracts times the size.
\* (The product is not checked; the quantities here stay within MaxI64.)
BaseQty(d, spec, ct) ==
  LET contracts == parse_scaled(d, spec.qty_scale)
  IN IF contracts = Err THEN Err ELSE (contracts * ct[1]) \div ct[2]

Scaled(side, t, spec, ct) ==
  LET price == parse_scaled(t.price, spec.price_scale)
      qty == BaseQty(t.qty, spec, ct)
  IN IF Err \in {price, qty} THEN Rejected ELSE Trade(side, price, qty, t.timed)

Known(t) == t.side \in {"buy", "sell"}

\* m: the buyer is the maker, so the taker sells.
BinanceTrade(t, spec) ==
  IF ~t.timed \/ ~Known(t) THEN Rejected ELSE Scaled(Taker(t.side), t, spec, NoContract)
BybitTrade(t, spec) ==
  IF ~t.timed \/ ~Known(t) THEN Rejected ELSE Scaled(Taker(t.side), t, spec, NoContract)
BitgetTrade(t, spec) ==
  IF ~t.timed \/ ~Known(t) THEN Rejected ELSE Scaled(Taker(t.side), t, spec, NoContract)
OkxTrade(t, spec, ct) ==
  IF ~t.timed \/ ~Known(t) THEN Rejected ELSE Scaled(Taker(t.side), t, spec, ct)
\* num_str: futures send numbers, spot markets strings.
NumStr(t, perp) ==
  [t EXCEPT !.price = num_or_str(@, perp), !.qty = num_or_str(@, perp)]
KucoinTrade(t, spec, perp, ct) ==
  IF ~Known(t) \/ Absent \in {t.price, t.qty} \/ ~t.timed THEN Rejected
  ELSE Scaled(Taker(t.side), NumStr(t, perp), spec, ct)

\* A deal without a price never leaves the protobuf decoder, one without a
\* quantity fails the message.
MexcSpotTrade(t, spec) ==
  IF t.price = Absent \/ ~Known(t) THEN PassedOver ELSE Scaled(Taker(t.side), t, spec, NoContract)
MexcFuturesTrade(t, spec, ct) ==
  IF ~Known(t) \/ Absent \in {t.price, t.qty} THEN PassedOver
  ELSE Scaled(Taker(t.side), NumStr(t, TRUE), spec, ct)
HyperliquidTrade(t, spec) ==
  IF ~Known(t) \/ Absent \in {t.price, t.qty} THEN PassedOver
  ELSE Scaled(Taker(t.side), t, spec, NoContract)

\* The flag m is true for a taker that sells a perpetual, and for one that buys on
\* the spot market; a deal without it reads as false.
BingxFlag(t, perp) == t.side = (IF perp THEN "sell" ELSE "buy")
BingxSide(m, perp) == IF (IF perp THEN m ELSE ~m) THEN Ask ELSE Bid
BingxTrade(t, spec, perp) ==
  IF Absent \in {t.price, t.qty} THEN PassedOver
  ELSE Scaled(BingxSide(BingxFlag(t, perp), perp), t, spec, NoContract)

\* A contract size is only for perpetuals; MEXC has a parser for each market.
Deal(v, t, spec, perp, ct) ==
  LET size == IF perp THEN ct ELSE NoContract
  IN CASE v \in {"binance", "aster"} -> BinanceTrade(t, spec)
       [] v = "bybit" -> BybitTrade(t, spec)
       [] v = "bitget" -> BitgetTrade(t, spec)
       [] v = "okx" -> OkxTrade(t, spec, size)
       [] v = "kucoin" -> KucoinTrade(t, spec, perp, size)
       [] v = "mexc" /\ ~perp -> MexcSpotTrade(t, spec)
       [] v = "mexc" /\ perp -> MexcFuturesTrade(t, spec, ct)
       [] v = "hyperliquid" -> HyperliquidTrade(t, spec)
       [] v = "bingx" -> BingxTrade(t, spec, perp)

\* The venues whose messages hold one deal.
OneDeal == {"binance", "aster", "kucoin"}

\* Hyperliquid and BingX refuse a message none of whose deals was usable.
ParseMessage(v, msg, spec, perp, ct) ==
  LET deals == [i \in DOMAIN msg |-> Deal(v, msg[i], spec, perp, ct)]
      trades == SelectSeq(deals, LAMBDA d : d.out = "trade")
      failed == \/ \E i \in DOMAIN deals : deals[i].out = "fails"
                \/ v \in {"hyperliquid", "bingx"} /\ trades = <<>>
  IN [ok |-> ~failed, trades |-> IF failed THEN <<>> ELSE trades]
=============================================================================
