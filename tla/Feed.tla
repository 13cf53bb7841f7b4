--------------------------------- MODULE Feed ---------------------------------
(***************************************************************************)
(* One exchange's adapter at work: discovery turns the venue's instrument  *)
(* list into specifications, the trade parser reads messages with the      *)
(* specification its route holds, and both sides meet in the process-wide  *)
(* table of contract sizes (CT_MAP in scale.rs).  The perpetual and the    *)
(* spot market of a venue run side by side, each with its supervisor, and  *)
(* the table is keyed by the symbol alone.  The venue may change its list  *)
(* at any time; a supervisor keeps the specification it first saw until    *)
(* the symbol leaves the list.                                             *)
(***************************************************************************)
EXTENDS Adapters, FiniteSets

CONSTANTS Venues,          \* the venues to consider, one per behaviour
          Listings(_),     \* the entries the venue may list for an instrument
          Messages,        \* the trade messages it may send
          MaxRelists       \* bound on the venue's changes to its list

\* The same name on both markets, and a second perpetual.
Instruments == {<<"perp", "a">>, <<"spot", "a">>, <<"perp", "b">>}
Perp(k) == k[1] = "perp"
Of(m) == {k \in Instruments : k[1] = m}

VARIABLES venue,      \* which exchange this is
          listed,     \* the venue's current entry for each instrument
          held,       \* the route of each instrument: its specification, or none, with
                      \* (history) the entry it was built from and the one last read
          ctMap,      \* CT_MAP: symbol -> contract size
          relists

vars == <<venue, listed, held, ctMap, relists>>

NotHeld == [on |-> FALSE, spec |-> NoSpec]

TypeOK ==
  /\ venue \in Venues
  /\ \A k \in Instruments : listed[k] \in Listings(k) /\ held[k].on \in BOOLEAN
  /\ \A k \in Instruments : ~held[k].on => held[k] = NotHeld
  /\ DOMAIN ctMap \subseteq {"a", "b"}

Init ==
  /\ venue \in Venues
  /\ listed \in {f \in [Instruments -> UNION {Listings(k) : k \in Instruments}] :
                   \A k \in Instruments : f[k] \in Listings(k)}
  /\ held = [k \in Instruments |-> NotHeld]
  /\ ctMap = <<>>
  /\ relists = 0

-----------------------------------------------------------------------------
Verdict(k) == Instrument(venue, listed[k], Perp(k))
Fetched(m) == \A k \in Of(m) : Verdict(k).verdict # "fails"

\* Faulty variant: a contract size is filed for both markets.
RegistersBoth(k) == venue \in Contracted /\ Verdict(k).verdict = "kept"
\* Faulty variant: it is filed for the market that has none.
RegistersSpot(k) == venue \in Contracted /\ ~Perp(k) /\ Verdict(k).verdict = "kept"
\* set_ct runs in the parse of the list, for every perpetual it keeps.
Registers(k) == venue \in Contracted /\ Perp(k) /\ Verdict(k).verdict = "kept"

\* fetch_symbols and the supervisor's reconciliation of one market.  A list that
\* fails leaves everything as it was until the next cycle.
Discover(m) ==
  /\ Fetched(m)
  /\ held' = [k \in Instruments |->
       IF k \notin Of(m) THEN held[k]
       ELSE IF Verdict(k).verdict # "kept" THEN NotHeld
       ELSE IF held[k].on THEN [held[k] EXCEPT !.seen = listed[k]]
       ELSE [on |-> TRUE, spec |-> Verdict(k).spec, entry |-> listed[k], seen |-> listed[k]]]
  /\ LET new == {k \in Of(m) : Registers(k)}
     IN ctMap' = [s \in DOMAIN ctMap \cup {k[2] : k \in new} |->
          IF \E k \in new : k[2] = s
          THEN RegisteredCt(venue, listed[CHOOSE k \in new : k[2] = s]) ELSE ctMap[s]]
  /\ UNCHANGED <<venue, listed, relists>>

\* Absent from the table: no conversion.
get_ct(s) == IF s \in DOMAIN ctMap THEN ctMap[s] ELSE NoContract

\* What the session gets from a message it has routed to the instrument.  The
\* parser keeps no state of its own: it reads the route and the table.
Parsed(k, msg) == ParseMessage(venue, msg, held[k].spec, Perp(k), get_ct(k[2]))

\* The venue changes an instrument.
Relist(k, e) ==
  /\ relists < MaxRelists
  /\ e # listed[k]
  /\ relists' = relists + 1
  /\ listed' = [listed EXCEPT ![k] = e]
  /\ UNCHANGED <<venue, held, ctMap>>

\* The process starts again: routes and table are in memory only.
Restart ==
  /\ \E k \in Instruments : held[k].on
  /\ held' = [k \in Instruments |-> NotHeld]
  /\ ctMap' = <<>>
  /\ UNCHANGED <<venue, listed, relists>>

Next ==
  \/ \E m \in {"perp", "spot"} : Discover(m)
  \/ \E k \in Instruments : \E e \in Listings(k) : Relist(k, e)
  \/ Restart

Spec == Init /\ [][Next]_vars

-----------------------------------------------------------------------------
\* The size a deal is really in: contracts at the venues that trade them.
TrueSize(k, e) == IF venue \in Contracted /\ Perp(k) THEN OrElse(e.ct, One) ELSE One

OnVenueGrid(t, e) ==
  /\ Known(t) /\ t.timed /\ t.price.ok /\ t.qty.ok
  /\ OnGrid(t.price, e.tick) /\ OnGrid(t.qty, e.lot)

\* The number of contracts, and the price, fit their integers.
Fits(t, spec) == Err \notin {parse_scaled(t.price, spec.price_scale),
                             parse_scaled(t.qty, spec.qty_scale)}

WholeContracts(k, e) == venue \notin Contracted \/ ~Perp(k) \/ CountSignificant(e.lot) = 0

RecordedExactly(k, t, r, spec, e) ==
  /\ r.side = Taker(t.side) /\ r.timed
  /\ IsExactly(r.price, spec.price_scale, t.price, One)
  /\ IsExactly(r.qty, spec.qty_scale, t.qty, TrueSize(k, e))

\* The last discovery read the entry the venue still has.
UpToDate(k) == held[k].on /\ held[k].seen = listed[k]

\* Numbers that reach the parsers as JSON numbers are not so small that they are
\* written with an exponent.
Plain(k, e, msg) ==
  /\ venue = "kucoin" /\ Perp(k) => \A d \in {e.lot, e.ct} : ~HasExponent(d)
  /\ venue \in {"kucoin", "mexc"} /\ Perp(k) =>
       \A i \in DOMAIN msg : ~HasExponent(msg[i].price) /\ ~HasExponent(msg[i].qty)

\* The venue may send the message, and every deal of it lies on the entry's grid and
\* fits the integers.
OnEntry(k, msg, e) ==
  /\ Len(msg) = 1 \/ venue \notin OneDeal
  /\ e.tick.ok /\ e.lot.ok /\ e.ct.ok /\ Numerator(e.ct) > 0
  /\ \A i \in DOMAIN msg : OnVenueGrid(msg[i], e) /\ Fits(msg[i], held[k].spec)

Judged(k, msg) ==
  UpToDate(k) /\ held[k].entry = listed[k] /\ OnEntry(k, msg, listed[k]) /\ Plain(k, listed[k], msg)

AllRecorded(k, msg) ==
  /\ Parsed(k, msg).ok
  /\ Len(Parsed(k, msg).trades) = Len(msg)
  /\ \A i \in DOMAIN msg :
       RecordedExactly(k, msg[i], Parsed(k, msg).trades[i], held[k].spec, listed[k])

\* A message whose deals lie on the venue's price and quantity grid is recorded
\* deal by deal with the taker's side, the exact price and the exact quantity in
\* the base asset, on both markets of every venue: the scales count_decimals_trimmed
\* derives and the padding and cutting of parse_scaled lose nothing, and whatever
\* the discoveries of both markets wrote to the shared table of contract sizes, in
\* any order and over relistings and restarts, it holds the size of this symbol's
\* perpetual.  The conditions: contracts trade whole; the route was built from the
\* entry the last discovery read, which is still the venue's; the deals fit i64; and
\* no number of KuCoin's or MEXC's futures is written with an exponent.
TradesExact ==
  \A k \in Instruments, msg \in Messages :
    Judged(k, msg) /\ WholeContracts(k, listed[k]) => AllRecorded(k, msg)

\* "server qty matches terminal-local at the int64 level": the same for every lot,
\* fractions of a contract included (instruments_info.rs of exchange-okx).
ContractQtyExact ==
  \A k \in Instruments, msg \in Messages : Judged(k, msg) => AllRecorded(k, msg)

\* TradesExact for a route older than the entry: the route keeps the scales it
\* started with, while the table has the new contract size.
RelistedExact ==
  \A k \in Instruments, msg \in Messages :
    UpToDate(k) /\ OnEntry(k, msg, listed[k]) /\ Plain(k, listed[k], msg)
      /\ WholeContracts(k, listed[k]) => AllRecorded(k, msg)

\* TradesExact for numbers of any size: "server prices/qty match byte-for-byte"
\* (scale.rs of exchange-kucoin).
SmallNumbersExact ==
  \A k \in Instruments, msg \in Messages :
    UpToDate(k) /\ held[k].entry = listed[k] /\ OnEntry(k, msg, listed[k])
      /\ WholeContracts(k, listed[k]) => AllRecorded(k, msg)

\* The bucket step of a running aggregator (the specification's tick_size) is never
\* zero and divides the venue's tick: no division by zero, and no two prices of the
\* venue's grid share a bucket.
BucketsFollowTicks ==
  \A k \in Instruments : held[k].on =>
    LET spec == held[k].spec
        tick == parse_scaled(held[k].entry.tick, spec.price_scale)
    IN /\ spec.tick_size > 0 /\ spec.step_size > 0
       /\ held[k].entry.tick.ok =>
            /\ IsExactly(tick, spec.price_scale, held[k].entry.tick, One)
            /\ tick % spec.tick_size = 0

\* Wherever a perpetual that trades in contracts has a route, the table knows its
\* contract size: the parser never falls back to a contract of one unit.
ContractSizeKnown ==
  \A k \in Instruments : held[k].on /\ Perp(k) /\ venue \in Contracted => k[2] \in DOMAIN ctMap

\* One unusable entry never costs another instrument its route: outside Binance,
\* whose list fails as a whole, each instrument of the market is followed after a
\* discovery exactly if its own entry is usable.
DiscoveryIsolates ==
  [][\A m \in {"perp", "spot"} : venue # "binance" =>
       /\ Fetched(m)
       /\ Discover(m) => \A k \in Of(m) : held'[k].on <=> Verdict(k).verdict = "kept"]_vars
=============================================================================
