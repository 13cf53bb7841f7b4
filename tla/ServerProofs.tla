------------------------------ MODULE ServerProofs ------------------------------
(***************************************************************************)
(* What a start makes of a configuration: every stream can be reached, and *)
(* the retention the file asks for is the one in force.  And what the      *)
(* history endpoint answers: an answer sent as immutable is final, and a   *)
(* range of settled windows is answered as an aggregator of the requested  *)
(* interval would have.  For every set of configurations, environments,    *)
(* trades and requests, any DDL failures and any number of starts.         *)
(***************************************************************************)
EXTENDS Server, SequenceTheorems, FiniteSetTheorems, FunctionTheorems, TLAPS

-----------------------------------------------------------------------------
(* Names.                                                                  *)

\* The section an exchange belongs to.
Owner ==
  [BinanceF |-> binance_perp, Binance |-> binance_spot, BybitF |-> bybit_perp,
   Bybit |-> bybit_spot, OkxF |-> okx_perp, Okx |-> okx_spot,
   BitgetF |-> bitget_perp, Bitget |-> bitget_spot, AsterF |-> aster_perp,
   Aster |-> aster_spot, KucoinF |-> kucoin_perp, Kucoin |-> kucoin_spot,
   MexcF |-> mexc_perp, Mexc |-> mexc_spot, HyperliquidF |-> hyperliquid_perp,
   BingxF |-> bingx_perp, Bingx |-> bingx_spot]

\* No two sections feed the same exchange.
LEMMA OwnerOfSection == \A s \in Sections : s = Owner[s.exchange]
  BY DEF Owner, Sections, Section, binance_perp, binance_spot, bybit_perp,
         bybit_spot, okx_perp, okx_spot, bitget_perp, bitget_spot, aster_perp,
         aster_spot, kucoin_perp, kucoin_spot, mexc_perp, mexc_spot,
         hyperliquid_perp, bingx_perp, bingx_spot

\* Names are parsed back to the exchange and the market they were made from.
LEMMA NamesParse ==
  \A s \in Sections :
    /\ wire_id[s.exchange] \in DOMAIN parse_exchange
    /\ parse_exchange[wire_id[s.exchange]] = s.exchange
    /\ market_type_wire[s.market] \in DOMAIN parse_market_type
    /\ parse_market_type[market_type_wire[s.market]] = s.market
  BY DEF wire_id, parse_exchange, market_type_wire, parse_market_type,
         Sections, Section, binance_perp, binance_spot, bybit_perp, bybit_spot,
         okx_perp, okx_spot, bitget_perp, bitget_spot, aster_perp, aster_spot,
         kucoin_perp, kucoin_spot, mexc_perp, mexc_spot, hyperliquid_perp,
         bingx_perp, bingx_spot

\* A subscription under the names of a section finds its stream.
LEMMA SubscriptionArrives ==
  ASSUME NEW s \in Sections, NEW tf, tf # 0
  PROVE  subscribe(wire_id[s.exchange], market_type_wire[s.market], tf)
           = {[exchange |-> s.exchange, market |-> s.market, interval |-> tf]}
<1> DEFINE x == wire_id[s.exchange]
           m == market_type_wire[s.market]
<1>1. /\ x \in DOMAIN parse_exchange /\ parse_exchange[x] = s.exchange
      /\ m \in DOMAIN parse_market_type /\ parse_market_type[m] = s.market
  BY NamesParse
<1> HIDE DEF x, m
<1>2. {x} \cap DOMAIN parse_exchange = {x} /\ {m} \cap DOMAIN parse_market_type = {m}
  BY <1>1
<1>3. subscribe(x, m, tf)
        = {[exchange |-> parse_exchange[e], market |-> parse_market_type[n],
            interval |-> IF tf = 0 THEN BaseTf ELSE tf] : e \in {x}, n \in {m}}
  BY <1>2 DEF subscribe
<1>4. subscribe(x, m, tf)
        = {[exchange |-> parse_exchange[x], market |-> parse_market_type[m],
            interval |-> tf]}
  BY <1>3
<1> QED BY <1>1, <1>4 DEF x, m

-----------------------------------------------------------------------------
(* The clauses made of a retention section.                                *)

\* The rules of a slice that a table is under.
RulesFor(r, tf, slice) == {o \in EffectiveRules(r, tf) : Slice(o) = slice}

\* Rules with the same slice and timeframe are the same entry of the file.
LEMMA OneEntry ==
  ASSUME NEW r, RetentionValid(r),
         NEW i \in DOMAIN r.overrides, NEW j \in DOMAIN r.overrides,
         Slice(r.overrides[i]) = Slice(r.overrides[j]),
         r.overrides[i].interval_seconds = r.overrides[j].interval_seconds
  PROVE  i = j
  BY DEF RetentionValid, IsInjective

\* The `effective' map holds one rule per slice.
LEMMA OneRule ==
  ASSUME NEW r, RetentionValid(r), NEW tf,
         NEW o \in EffectiveRules(r, tf), NEW p \in EffectiveRules(r, tf),
         Slice(o) = Slice(p)
  PROVE  o = p
<1> DEFINE Tf(k) == r.overrides[k].interval_seconds
           Beats(k, j) == \/ Tf(k) = Tf(j) /\ k < j
                          \/ Tf(k) = tf /\ Tf(j) = AnyTf
<1>1. PICK i \in Applicable(r, tf) :
        /\ o = r.overrides[i]
        /\ \A k \in Applicable(r, tf) :
             Slice(r.overrides[k]) = Slice(r.overrides[i]) => ~Beats(k, i)
  BY DEF EffectiveRules
<1>2. PICK j \in Applicable(r, tf) :
        /\ p = r.overrides[j]
        /\ \A k \in Applicable(r, tf) :
             Slice(r.overrides[k]) = Slice(r.overrides[j]) => ~Beats(k, j)
  BY DEF EffectiveRules
<1>3. Tf(i) \in {AnyTf, tf} /\ Tf(j) \in {AnyTf, tf}
  BY DEF Applicable
<1>4. ~Beats(i, j) /\ ~Beats(j, i)
  BY <1>1, <1>2
<1>5. Tf(i) = Tf(j)
  BY <1>3, <1>4
<1>6. i \in DOMAIN r.overrides /\ j \in DOMAIN r.overrides
  BY DEF Applicable
<1>7. i = j
  BY <1>1, <1>2, <1>5, <1>6, OneEntry
<1> QED BY <1>1, <1>2, <1>7

\* It is the rule DaysFor looks for: one that names the table, else a general one,
\* and none only where the default applies.
LEMMA RuleChosen ==
  ASSUME NEW r, RetentionValid(r), DOMAIN r.overrides \subseteq Nat,
         NEW tf, tf # AnyTf, NEW slice
  PROVE  DaysFor(r, tf, slice)
           = IF RulesFor(r, tf, slice) = {} THEN r.default_days
             ELSE (CHOOSE o \in RulesFor(r, tf, slice) : TRUE).days
<1> DEFINE Of(t) == {o \in Range(r.overrides) : Slice(o) = slice /\ o.interval_seconds = t}
           R == RulesFor(r, tf, slice)
           Tf(k) == r.overrides[k].interval_seconds
           Beats(k, j) == \/ Tf(k) = Tf(j) /\ k < j
                          \/ Tf(k) = tf /\ Tf(j) = AnyTf
<1>1. ASSUME NEW i \in DOMAIN r.overrides, Slice(r.overrides[i]) = slice,
             Tf(i) = tf \/ (Tf(i) = AnyTf /\ Of(tf) = {})
      PROVE  r.overrides[i] \in R
  <2>1. i \in Applicable(r, tf)
    BY <1>1 DEF Applicable
  <2>2. ASSUME NEW k \in Applicable(r, tf), Slice(r.overrides[k]) = slice, Beats(k, i)
        PROVE  FALSE
    <3>1. k \in DOMAIN r.overrides /\ k \in Nat
      BY DEF Applicable
    <3>2. CASE Tf(k) = Tf(i) /\ k < i
      <4>1. k = i
        BY <1>1, <2>2, <3>1, <3>2, OneEntry
      <4> QED BY <3>1, <3>2, <4>1
    <3>3. CASE Tf(k) = tf /\ Tf(i) = AnyTf
      <4>1. r.overrides[k] \in Of(tf)
        BY <2>2, <3>1, <3>3 DEF Range
      <4> QED BY <1>1, <3>3, <4>1
    <3> QED BY <2>2, <3>2, <3>3
  <2>3. r.overrides[i] \in EffectiveRules(r, tf)
    BY <1>1, <2>1, <2>2 DEF EffectiveRules
  <2> QED BY <1>1, <2>3 DEF RulesFor
<1>2. \A o \in R : o \in Of(tf) \/ o \in Of(AnyTf)
  BY DEF RulesFor, EffectiveRules, Applicable, Range
<1>3. \A o, p \in R : o = p
  BY OneRule DEF RulesFor
<1>4. Of(tf) \subseteq R
  BY <1>1 DEF Range
<1>5. Of(tf) = {} => Of(AnyTf) \subseteq R
  BY <1>1 DEF Range
<1>6. DaysFor(r, tf, slice)
        = IF Of(tf) # {} THEN (CHOOSE o \in Of(tf) : TRUE).days
          ELSE IF Of(AnyTf) # {} THEN (CHOOSE o \in Of(AnyTf) : TRUE).days
          ELSE r.default_days
  BY Zenon DEF DaysFor
<1> HIDE DEF Of, R
<1>7. CASE Of(tf) # {}
  <2>1. Of(tf) = R
    BY <1>3, <1>4, <1>7
  <2> QED BY <1>6, <1>7, <2>1 DEF R
<1>8. CASE Of(tf) = {} /\ Of(AnyTf) # {}
  <2>1. Of(AnyTf) = R
    BY <1>3, <1>5, <1>8
  <2> QED BY <1>6, <1>8, <2>1 DEF R
<1>9. CASE Of(tf) = {} /\ Of(AnyTf) = {}
  <2>1. R = {}
    BY <1>2, <1>9
  <2> QED BY <1>6, <1>9, <2>1 DEF R
<1> QED BY <1>7, <1>8, <1>9

\* The rows a clause is about: those of the slices it lists, or all but those.
LEMMA ClauseCovers ==
  ASSUME NEW action, NEW days, NEW S, NEW slice
  PROVE  /\ Covers(Clause(action, days, S, FALSE), slice) <=> slice \in S
         /\ Covers(Clause(action, days, S, TRUE), slice) <=> slice \notin S
<1>1. /\ Clause(action, days, S, FALSE).slices = S
      /\ Clause(action, days, S, TRUE).slices = S
  BY DEF Clause
<1>2. /\ Clause(action, days, S, FALSE).rest = FALSE
      /\ Clause(action, days, S, TRUE).rest = TRUE
  BY DEF Clause
<1> QED BY <1>1, <1>2 DEF Covers

\* The clauses of a table that delete rows of a slice, and what they are expected to
\* be: the one of the slice's rule, and the one of the default.
Deletions(r, tf, slice) ==
  {c \in ttl_clause_for(r, tf) : c.action = "delete" /\ Covers(c, slice)}

OwnDeletion(r, tf, slice) ==
  {Clause("delete", o.days, {slice}, FALSE) :
     o \in {p \in RulesFor(r, tf, slice) : p.days > 0}}

DefaultDeletion(r, tf, slice) ==
  IF RulesFor(r, tf, slice) = {} /\ r.default_days # 0
  THEN {Clause("delete", r.default_days, {Slice(o) : o \in EffectiveRules(r, tf)}, TRUE)}
  ELSE {}

\* The deletions a slice is under: that of its rule if it has one and the rule is
\* not to keep it for ever, that of the default if it has none.
LEMMA DeletionsOf ==
  ASSUME NEW r, NEW tf, NEW slice
  PROVE  Deletions(r, tf, slice)
           = OwnDeletion(r, tf, slice) \cup DefaultDeletion(r, tf, slice)
<1> DEFINE R == EffectiveRules(r, tf)
           own == {Clause("delete", o.days, {Slice(o)}, FALSE) : o \in {p \in R : p.days > 0}}
           named == {Slice(o) : o \in R}
           rest == Clause("delete", r.default_days, named, TRUE)
           Deletes(c) == c.action = "delete" /\ Covers(c, slice)
<1>1. ttl_clause_for(r, tf) = own \cup DefaultClauses(r, named)
  BY Zenon DEF ttl_clause_for
<1>2. {c \in own : Deletes(c)}
        = {Clause("delete", o.days, {slice}, FALSE) :
             o \in {p \in RulesFor(r, tf, slice) : p.days > 0}}
  <2>1. \A o \in R : Deletes(Clause("delete", o.days, {Slice(o)}, FALSE))
                      <=> Slice(o) = slice
    <3> TAKE o \in R
    <3>1. Clause("delete", o.days, {Slice(o)}, FALSE).action = "delete"
      BY DEF Clause
    <3>2. Covers(Clause("delete", o.days, {Slice(o)}, FALSE), slice)
            <=> slice \in {Slice(o)}
      BY ClauseCovers
    <3> QED BY <3>1, <3>2
  <2> HIDE DEF Deletes
  <2> QED BY <2>1 DEF RulesFor
<1>3. {c \in DefaultClauses(r, named) : Deletes(c)}
        = IF RulesFor(r, tf, slice) = {} /\ r.default_days # 0 THEN {rest} ELSE {}
  <2>1. RulesFor(r, tf, slice) = {} <=> slice \notin named
    BY DEF RulesFor
  <2>2. rest.action = "delete" /\ (Covers(rest, slice) <=> slice \notin named)
    <3>1. rest.action = "delete"
      BY DEF Clause
    <3> HIDE DEF named
    <3> QED BY <3>1, ClauseCovers
  <2>3. \A d : Clause("cold", d, named, TRUE).action # "delete"
    BY DEF Clause
  <2> HIDE DEF named, rest
  <2>4. CASE r.default_days = 0
    BY <2>4 DEF DefaultClauses
  <2>5. CASE r.default_days # 0
    <3>1. /\ rest \in DefaultClauses(r, named)
          /\ \A c \in DefaultClauses(r, named) :
               c = rest \/ c = Clause("cold", r.move_to_cold_days, named, TRUE)
      BY <2>5 DEF DefaultClauses, rest
    <3>2. \A c \in DefaultClauses(r, named) : Deletes(c) <=> (c = rest /\ slice \notin named)
      BY <2>2, <2>3, <3>1
    <3> HIDE DEF Deletes
    <3> QED BY <2>1, <2>5, <3>1, <3>2
  <2> QED BY <2>4, <2>5
<1>4. {c \in ttl_clause_for(r, tf) : Deletes(c)}
        = {c \in own : Deletes(c)} \cup {c \in DefaultClauses(r, named) : Deletes(c)}
  <2> HIDE DEF own, named, Deletes
  <2> QED BY <1>1
<1>5. QED
  <2> HIDE DEF own
  <2> QED BY <1>2, <1>3, <1>4 DEF Deletions, OwnDeletion, DefaultDeletion

\* The least of one number.
LEMMA MinOfOne == \A d \in Nat : Min({d}) = d
<1> SUFFICES ASSUME NEW d \in Nat PROVE Min({d}) = d
  OBVIOUS
<1>1. \E x \in {d} : \A y \in {d} : x <= y
  OBVIOUS
<1> QED BY <1>1 DEF Min

\* Under the clauses of a valid retention section every slice of a table is deleted
\* at the age its rule gives, or the default if it has none.
LEMMA ClausesImplementRules ==
  ASSUME NEW r, RetentionValid(r), DOMAIN r.overrides \subseteq Nat,
         r.default_days \in Nat, \A o \in Range(r.overrides) : o.days \in Nat,
         NEW tf, tf # AnyTf, NEW slice
  PROVE  DeleteAge(ttl_clause_for(r, tf), slice) = DaysFor(r, tf, slice)
<1> DEFINE R == RulesFor(r, tf, slice)
           D == Deletions(r, tf, slice)
           days == {c.days : c \in D}
<1>1. DeleteAge(ttl_clause_for(r, tf), slice) = IF days = {} THEN 0 ELSE Min(days)
  BY Zenon DEF DeleteAge, Deletions
<1>2. D = OwnDeletion(r, tf, slice) \cup DefaultDeletion(r, tf, slice)
  BY DeletionsOf
<1>3. \A d, S, b : Clause("delete", d, S, b).days = d
  BY DEF Clause
<1>4. \A o \in R : o.days \in Nat
  BY DEF RulesFor, EffectiveRules, Applicable, Range
<1>5. \A o, p \in R : o = p
  BY OneRule DEF RulesFor
<1>6. DaysFor(r, tf, slice)
        = IF R = {} THEN r.default_days ELSE (CHOOSE o \in R : TRUE).days
  BY RuleChosen
<1> HIDE DEF D, R
<1>7. CASE R = {}
  <2>1. days = IF r.default_days # 0 THEN {r.default_days} ELSE {}
    <3> DEFINE c == Clause("delete", r.default_days,
                           {Slice(o) : o \in EffectiveRules(r, tf)}, TRUE)
    <3>1. c.days = r.default_days
      BY <1>3
    <3>2. /\ OwnDeletion(r, tf, slice) = {}
          /\ DefaultDeletion(r, tf, slice) = IF r.default_days # 0 THEN {c} ELSE {}
      BY <1>7 DEF OwnDeletion, DefaultDeletion, R
    <3> HIDE DEF c
    <3>3. D = IF r.default_days # 0 THEN {c} ELSE {}
      BY <1>2, <3>2
    <3> QED BY <3>1, <3>3
  <2> HIDE DEF days
  <2> QED BY <1>1, <1>6, <1>7, <2>1, MinOfOne
<1>8. CASE R # {}
  <2>1. PICK o \in R : R = {o}
    BY <1>5, <1>8
  <2>2. DaysFor(r, tf, slice) = o.days
    BY <1>6, <2>1
  <2>3. o.days \in Nat
    BY <1>4
  <2>4. days = IF o.days > 0 THEN {o.days} ELSE {}
    <3>1. {p \in R : p.days > 0} = IF o.days > 0 THEN {o} ELSE {}
      BY <2>1
    <3> DEFINE c == Clause("delete", o.days, {slice}, FALSE)
    <3>2. /\ OwnDeletion(r, tf, slice) = IF o.days > 0 THEN {c} ELSE {}
          /\ DefaultDeletion(r, tf, slice) = {}
      BY <1>8, <3>1 DEF OwnDeletion, DefaultDeletion, R
    <3>3. c.days = o.days
      BY <1>3
    <3> HIDE DEF c
    <3>4. D = IF o.days > 0 THEN {c} ELSE {}
      BY <1>2, <3>2
    <3> QED BY <3>3, <3>4
  <2> HIDE DEF days
  <2> QED BY <1>1, <2>2, <2>3, <2>4, MinOfOne
<1> QED BY <1>7, <1>8

-----------------------------------------------------------------------------
(* The server.  What runs was started from a configuration that passed the *)
(* checks, and on a settled table for which it has clauses these are the   *)
(* ones in force.                                                          *)

StartedFrom(c) ==
  /\ cfg.retention = c.retention /\ cfg.timeframes_secs = c.timeframes_secs
  /\ validate_timeframes(c) /\ RetentionValid(c.retention)
  /\ applied # {} => c.retention.apply_on_start
  /\ applied \subseteq Range(c.timeframes_secs)
  /\ \A tf \in applied :
       LET clauses == ttl_clause_for(c.retention, tf)
       IN  clauses # {} => ttl[tf] = clauses

Inv ==
  /\ DOMAIN ttl = SupportedIntervals
  /\ up => \E c \in Configs : StartedFrom(c)

\* Start: the clauses written are those of the new file.
LEMMA StartStep ==
  ASSUME Inv, NEW c \in Configs, NEW env \in Env, NEW ok \in Ddl, Start(c, env, ok)
  PROVE  Inv'
<1> DEFINE tfs == Range(c.timeframes_secs)
           Clauses(tf) == ttl_clause_for(c.retention, tf)
           written == {tf \in tfs \cap ok : c.retention.apply_on_start /\ Clauses(tf) # {}}
<1>1. /\ validate_timeframes(c) /\ RetentionValid(c.retention)
      /\ cfg' = [c EXCEPT !.auth = apply_env(c.auth, env)]
      /\ ttl' = [tf \in DOMAIN ttl |-> IF tf \in written THEN Clauses(tf) ELSE ttl[tf]]
      /\ applied' = IF c.retention.apply_on_start
                      THEN {tf \in tfs : tf \in ok \/ Clauses(tf) = {}} ELSE {}
  BY Zenon DEF Start
<1>2. cfg'.retention = c.retention /\ cfg'.timeframes_secs = c.timeframes_secs
  BY <1>1, ConfigsAssumption
<1>3. ok \subseteq SupportedIntervals
  BY ConfigsAssumption
<1> HIDE DEF Clauses, tfs
<1>4. DOMAIN ttl' = SupportedIntervals
  BY <1>1 DEF Inv
<1>5. /\ applied' # {} => c.retention.apply_on_start
      /\ applied' \subseteq tfs
  BY <1>1
<1>6. \A tf \in applied' : Clauses(tf) # {} => ttl'[tf] = Clauses(tf)
  <2> TAKE tf \in applied'
  <2> HAVE Clauses(tf) # {}
  <2>1. tf \in written
    BY <1>1
  <2>2. tf \in DOMAIN ttl
    BY <1>3, <2>1 DEF Inv
  <2> QED BY <1>1, <2>1, <2>2
<1>7. StartedFrom(c)'
  BY <1>1, <1>2, <1>5, <1>6 DEF StartedFrom, Clauses, tfs
<1> QED BY <1>4, <1>7 DEF Inv

\* No other action touches the retention of a running server.
LEMMA RestStep ==
  ASSUME Inv, UNCHANGED ttl, UNCHANGED <<up, cfg, applied>> \/ ~up'
  PROVE  Inv'
  BY DEF Inv, StartedFrom

\* Each action of the server and its surroundings preserves the invariant.
LEMMA NextInv == Inv /\ [Next]_vars => Inv'
<1> SUFFICES ASSUME Inv, [Next]_vars PROVE Inv'
  OBVIOUS
<1>1. ASSUME NEW c \in Configs, NEW env \in Env, NEW ok \in Ddl, Start(c, env, ok)
      PROVE  Inv'
  BY <1>1, StartStep
<1>2. CASE Exit
  BY <1>2, RestStep DEF Exit
<1>3. ASSUME NEW print \in Prints, NEW ts \in 0 .. MaxTs, Trade(print, ts)
      PROVE  Inv'
  BY <1>3, RestStep DEF Trade, process
<1>4. ASSUME NEW shared \in BOOLEAN, Delta(shared)
      PROVE  Inv'
  BY <1>4, RestStep DEF Delta, process
<1>5. CASE Elapse
  BY <1>5, RestStep DEF Elapse, table, process
<1>6. CASE Expire
  BY <1>6, RestStep DEF Expire, process
<1>7. ASSUME NEW q \in Ranges, NEW token \in Tokens, Fetch(q, token)
      PROVE  Inv'
  BY <1>7, RestStep DEF Fetch, table, process
<1>8. ASSUME NEW ok \in BOOLEAN, Respond(ok)
      PROVE  Inv'
  BY <1>8, RestStep DEF Respond, table, process
<1>9. CASE UNCHANGED vars
  BY <1>9, RestStep DEF vars, table, process
<1> QED
  BY <1>1, <1>2, <1>3, <1>4, <1>5, <1>6, <1>7, <1>8, <1>9 DEF Next

\* A running server was started from a configuration that passed every check.
THEOREM Invariance == Spec => []Inv
<1>1. Init => Inv
  BY DEF Init, Inv
<1> QED BY <1>1, NextInv, PTL DEF Spec

\* Every stream a supervisor publishes has one publisher, and is what a subscription
\* under its names and timeframe is given (main, parse_exchange, subscribe).
THEOREM StreamsReachable == Spec => []EveryStreamReachable
<1>1. Inv => EveryStreamReachable
  <2> SUFFICES ASSUME Inv, up, NEW s \in Supervised(cfg)
               PROVE  /\ \A r \in Supervised(cfg) :
                           <<r.exchange, r.market>> = <<s.exchange, s.market>> => r = s
                      /\ \A tf \in Range(cfg.timeframes_secs) :
                           subscribe(wire_id[s.exchange], market_type_wire[s.market], tf)
                             = {[exchange |-> s.exchange, market |-> s.market, interval |-> tf]}
    BY DEF EveryStreamReachable
  <2>1. Supervised(cfg) \subseteq Sections
    BY DEF Supervised
  <2>2. ASSUME NEW r \in Supervised(cfg), r.exchange = s.exchange
        PROVE  r = s
    BY <2>1, <2>2, OwnerOfSection
  <2>3. \A tf \in Range(cfg.timeframes_secs) : tf # 0
    <3>1. \A tf \in Range(cfg.timeframes_secs) : tf >= MinTf
      BY DEF Inv, StartedFrom, validate_timeframes
    <3> QED BY <3>1, TimeframeAssumption
  <2> QED BY <2>1, <2>2, <2>3, SubscriptionArrives
<1> QED BY <1>1, Invariance, PTL

\* On a settled table that the configuration has any clause for, rows of each slice
\* are deleted at the age of its rule, whatever was in force before.
RetentionWhereRuled ==
  up => \A tf \in applied, s \in Sections :
          ttl_clause_for(cfg.retention, tf) # {} =>
            LET slice == <<wire_id[s.exchange], market_column[s.market]>>
            IN  DeleteAge(ttl[tf], slice) = DaysFor(cfg.retention, tf, slice)

\* A start with new rules replaces the old ones, wherever there is something to
\* write (main, ttl_clause_for).
THEOREM RulesTakeEffect == Spec => []RetentionWhereRuled
<1>1. Inv => RetentionWhereRuled
  <2> SUFFICES ASSUME Inv, up, NEW tf \in applied, NEW slice,
                      ttl_clause_for(cfg.retention, tf) # {}
               PROVE  DeleteAge(ttl[tf], slice) = DaysFor(cfg.retention, tf, slice)
    BY DEF RetentionWhereRuled
  <2>1. PICK c \in Configs : StartedFrom(c)
    BY DEF Inv
  <2>2. cfg.retention = c.retention /\ ttl[tf] = ttl_clause_for(c.retention, tf)
    BY <2>1 DEF StartedFrom
  <2>3. tf # AnyTf
    <3>1. tf >= MinTf
      BY <2>1 DEF StartedFrom, validate_timeframes
    <3> QED BY <3>1, TimeframeAssumption DEF AnyTf
  <2>4. /\ RetentionValid(c.retention) /\ DOMAIN c.retention.overrides \subseteq Nat
        /\ c.retention.default_days \in Nat
        /\ \A o \in Range(c.retention.overrides) : o.days \in Nat
    BY <2>1, ConfigsAssumption DEF StartedFrom
  <2> QED BY <2>2, <2>3, <2>4, ClausesImplementRules
<1> QED BY <1>1, Invariance, PTL

\* Every configuration that applies its retention deletes something from each of
\* its tables.
EveryTableRuled ==
  \A c \in Configs : c.retention.apply_on_start =>
    \A tf \in Range(c.timeframes_secs) : ttl_clause_for(c.retention, tf) # {}

\* As long as no configuration switches the deletion off for a whole table, the
\* retention of the last file is the one in force.  Without that condition it is
\* not: main leaves the TTL of a table alone for which there are no clauses.
THEOREM RetentionOfLastFile ==
  ASSUME EveryTableRuled
  PROVE  Spec => []RetentionInForce
<1>1. Inv /\ RetentionWhereRuled => RetentionInForce
  <2> SUFFICES ASSUME Inv, RetentionWhereRuled, up, NEW tf \in applied
               PROVE  ttl_clause_for(cfg.retention, tf) # {}
    BY DEF RetentionWhereRuled, RetentionInForce
  <2>1. PICK c \in Configs : StartedFrom(c)
    BY DEF Inv
  <2> QED BY <2>1 DEF StartedFrom, EveryTableRuled
<1> QED BY <1>1, Invariance, RulesTakeEffect, PTL

-----------------------------------------------------------------------------
(* The maxima and minima of ClickHouse.                                    *)

\* maxIf does not see values that go, if none of them is above one that stays.
LEMMA MaxIfKept ==
  ASSUME NEW S \in SUBSET Nat, NEW T \in SUBSET S, NEW h \in T, h > 0,
         \A x \in S \ T : x <= h
  PROVE  MaxIf(T) = MaxIf(S)
<1> DEFINE P == {x \in S : x > 0}
           Q == {x \in T : x > 0}
<1>1. P # {} /\ Q # {}
  OBVIOUS
<1>2. P \subseteq Nat /\ Q \subseteq Nat /\ Q \subseteq P /\ h \in Q /\ \A x \in P \ Q : x <= h
  OBVIOUS
<1>3. MaxIf(S) = Max(P) /\ MaxIf(T) = Max(Q)
  BY <1>1 DEF MaxIf
<1> HIDE DEF P, Q
<1>4. ASSUME NEW x \in P, \A y \in P : x >= y
      PROVE  x \in Q /\ \A y \in Q : x >= y
  <2>1. x \in Nat /\ h \in Nat /\ x >= h
    BY <1>2, <1>4
  <2>2. CASE x \notin Q
    <3>1. x = h
      BY <1>2, <2>1, <2>2
    <3> QED BY <1>2, <2>2, <3>1
  <2> QED BY <1>2, <1>4, <2>2
<1>5. ASSUME NEW x \in Q, \A y \in Q : x >= y
      PROVE  x \in P /\ \A y \in P : x >= y
  <2>1. x \in Nat /\ h \in Nat /\ x >= h
    BY <1>2, <1>5
  <2>2. ASSUME NEW y \in P PROVE x >= y
    <3>1. CASE y \in Q
      BY <1>5, <3>1
    <3>2. CASE y \notin Q
      BY <1>2, <2>1, <3>2
    <3> QED BY <3>1, <3>2
  <2> QED BY <1>2, <2>2
<1>6. \A x : (x \in P /\ \A y \in P : x >= y) <=> (x \in Q /\ \A y \in Q : x >= y)
  BY <1>4, <1>5, Zenon
<1>7. Max(P) = Max(Q)
  BY <1>6, Zenon DEF Max
<1> QED BY <1>3, <1>7

\* The same for minIf and values that are not below one that stays.
LEMMA MinIfKept ==
  ASSUME NEW S \in SUBSET Nat, NEW T \in SUBSET S, NEW h \in T, h > 0,
         \A x \in S \ T : x >= h
  PROVE  MinIf(T) = MinIf(S)
<1> DEFINE P == {x \in S : x > 0}
           Q == {x \in T : x > 0}
<1>1. P # {} /\ Q # {}
  OBVIOUS
<1>2. P \subseteq Nat /\ Q \subseteq Nat /\ Q \subseteq P /\ h \in Q /\ \A x \in P \ Q : x >= h
  OBVIOUS
<1>3. MinIf(S) = Min(P) /\ MinIf(T) = Min(Q)
  BY <1>1 DEF MinIf
<1> HIDE DEF P, Q
<1>4. ASSUME NEW x \in P, \A y \in P : x =< y
      PROVE  x \in Q /\ \A y \in Q : x =< y
  <2>1. x \in Nat /\ h \in Nat /\ x =< h
    BY <1>2, <1>4
  <2>2. CASE x \notin Q
    <3>1. x = h
      BY <1>2, <2>1, <2>2
    <3> QED BY <1>2, <2>2, <3>1
  <2> QED BY <1>2, <1>4, <2>2
<1>5. ASSUME NEW x \in Q, \A y \in Q : x =< y
      PROVE  x \in P /\ \A y \in P : x =< y
  <2>1. x \in Nat /\ h \in Nat /\ x =< h
    BY <1>2, <1>5
  <2>2. ASSUME NEW y \in P PROVE x =< y
    <3>1. CASE y \in Q
      BY <1>5, <3>1
    <3>2. CASE y \notin Q
      BY <1>2, <2>1, <3>2
    <3> QED BY <3>1, <3>2
  <2> QED BY <1>2, <2>2
<1>6. \A x : (x \in P /\ \A y \in P : x =< y) <=> (x \in Q /\ \A y \in Q : x =< y)
  BY <1>4, <1>5, Zenon
<1>7. Min(P) = Min(Q)
  BY <1>6, Zenon DEF Min
<1> QED BY <1>3, <1>7

-----------------------------------------------------------------------------
(* An answer depends on the rows below the end of its range only, and not   *)
(* on which of the rows of a window say what its OHLC was.                  *)

\* The rows of a window.
Of(R, w) == {k \in DOMAIN R : k[1] = w}

\* One OHLC repeats another; its close may be settled among the other's.
OhlcKept(x, y) ==
  x.open = y.open /\ x.high = y.high /\ x.low = y.low /\ x.close \subseteq y.close

\* Rows S, later than R: below `to' the same buckets, and windows of the same OHLC.
RowsKept(S, R, to) ==
  /\ {k \in DOMAIN S : k[1] < to} = {k \in DOMAIN R : k[1] < to}
  /\ \A k \in DOMAIN R : k[1] < to =>
       /\ S[k].bid_qty = R[k].bid_qty /\ S[k].ask_qty = R[k].ask_qty
       /\ S[k].trades = R[k].trades
  /\ \A k \in DOMAIN R : k[1] < to =>
       OhlcKept(SubBar(S, Of(S, k[1])), SubBar(R, Of(R, k[1])))

\* The WHERE of a query selects the same rows again.
LEMMA FilterKept ==
  ASSUME NEW S, NEW R, NEW q, RowsKept(S, R, q.to)
  PROVE  Filter(S, q) = Filter(R, q)
<1>1. \A k : k \in DOMAIN S /\ k[1] < q.to <=> k \in DOMAIN R /\ k[1] < q.to
  BY DEF RowsKept
<1> QED BY <1>1 DEF Filter

\* It selects windows whole, whatever the ends of the range.
LEMMA WholeWindow ==
  ASSUME NEW R, NEW q, NEW k \in Filter(R, q)
  PROVE  {j \in Filter(R, q) : j[1] = k[1]} = Of(R, k[1])
  BY DEF Filter, Of

\* The answer of the base interval is kept.
LEMMA DirectKept ==
  ASSUME NEW S, NEW R, NEW q, RowsKept(S, R, q.to)
  PROVE  SameButClose(Direct(S, q), Direct(R, q))
<1> DEFINE K == Filter(R, q)
<1>1. Filter(S, q) = K
  BY FilterKept
<1>2. \A k \in K : k \in DOMAIN R /\ k[1] < q.to
  BY DEF Filter
<1>3. ASSUME NEW b \in K
      PROVE  OhlcKept(SubBar(S, {k \in K : k[1] = b[1]}), SubBar(R, {k \in K : k[1] = b[1]}))
  <2>1. {k \in K : k[1] = b[1]} = Of(R, b[1])
    BY WholeWindow
  <2>2. {k \in K : k[1] = b[1]} = Of(S, b[1])
    BY <1>1, WholeWindow
  <2>3. OhlcKept(SubBar(S, Of(S, b[1])), SubBar(R, Of(R, b[1])))
    BY <1>2 DEF RowsKept
  <2> QED BY <2>1, <2>2, <2>3
<1>4. /\ Direct(R, q) = [b \in K |-> [bid_qty |-> R[b].bid_qty, ask_qty |-> R[b].ask_qty,
                           trades |-> R[b].trades, ohlc |-> SubBar(R, {k \in K : k[1] = b[1]})]]
      /\ Direct(S, q) = [b \in K |-> [bid_qty |-> S[b].bid_qty, ask_qty |-> S[b].ask_qty,
                           trades |-> S[b].trades, ohlc |-> SubBar(S, {k \in K : k[1] = b[1]})]]
  BY <1>1 DEF Direct
<1>5. \A b \in K : S[b].bid_qty = R[b].bid_qty /\ S[b].ask_qty = R[b].ask_qty
                   /\ S[b].trades = R[b].trades
  BY <1>2 DEF RowsKept
<1> HIDE DEF K
<1> QED BY <1>3, <1>4, <1>5 DEF SameButClose, OhlcKept

\* The OHLC of a rolled window is kept if that of its sub-windows is.
LEMMA RolledKept ==
  ASSUME NEW S, NEW R, NEW K,
         \A k \in K : OhlcKept(SubBar(S, {j \in K : j[1] = k[1]}),
                               SubBar(R, {j \in K : j[1] = k[1]}))
  PROVE  OhlcKept(RolledBar(S, K), RolledBar(R, K))
<1> DEFINE subs == {k[1] : k \in K}
           Part(w) == {k \in K : k[1] = w}
           New(w) == SubBar(S, Part(w))
           Old(w) == SubBar(R, Part(w))
           NewHigh == {New(w).high : w \in subs}
           OldHigh == {Old(w).high : w \in subs}
           NewLow == {New(w).low : w \in subs}
           OldLow == {Old(w).low : w \in subs}
<1>1. ASSUME NEW w PROVE OhlcKept(New(w), Old(w))
  <2>1. CASE w \in subs
    BY <2>1
  <2>2. CASE w \notin subs
    <3>1. Part(w) = {}
      BY <2>2
    <3>2. SubBar(S, {}) = SubBar(R, {})
      BY DEF SubBar
    <3> QED BY <3>1, <3>2 DEF OhlcKept
  <2> QED BY <2>1, <2>2
<1>2. /\ RolledBar(S, K) = [open |-> New(Min(subs)).open, close |-> New(Max(subs)).close,
                            high |-> MaxIf(NewHigh),
                            low |-> MinIf(NewLow)]
      /\ RolledBar(R, K) = [open |-> Old(Min(subs)).open, close |-> Old(Max(subs)).close,
                            high |-> MaxIf(OldHigh),
                            low |-> MinIf(OldLow)]
  BY DEF RolledBar
<1> HIDE DEF New, Old, subs
<1>3. OhlcKept(New(Min(subs)), Old(Min(subs))) /\ OhlcKept(New(Max(subs)), Old(Max(subs)))
  BY <1>1
<1>4. \A w : New(w).high = Old(w).high /\ New(w).low = Old(w).low
  BY <1>1 DEF OhlcKept
<1>5. /\ NewHigh = OldHigh
      /\ NewLow = OldLow
  BY <1>4
<1> HIDE DEF NewHigh, OldHigh, NewLow, OldLow
<1>6. /\ RolledBar(S, K).open = RolledBar(R, K).open
      /\ RolledBar(S, K).close \subseteq RolledBar(R, K).close
  BY <1>2, <1>3 DEF OhlcKept
<1>7. /\ RolledBar(S, K).high = RolledBar(R, K).high
      /\ RolledBar(S, K).low = RolledBar(R, K).low
  BY <1>2, <1>5
<1> QED BY <1>6, <1>7 DEF OhlcKept

\* The answer of a longer interval is kept.
LEMMA RollupKept ==
  ASSUME NEW S, NEW R, NEW q, RowsKept(S, R, q.to)
  PROVE  SameButClose(Rollup(S, q), Rollup(R, q))
<1> DEFINE K == Filter(R, q)
           Rw(k) == StartOfInterval(k[1], q.interval_seconds)
           Bucket(b) == {k \in K : Rw(k) = b[1] /\ k[2] = b[2]}
           Whole(b) == {k \in K : Rw(k) = b[1]}
           Answer(T, b) == [bid_qty |-> Sum([k \in Bucket(b) |-> T[k].bid_qty]),
                            ask_qty |-> Sum([k \in Bucket(b) |-> T[k].ask_qty]),
                            trades  |-> Sum([k \in Bucket(b) |-> T[k].trades]),
                            ohlc    |-> RolledBar(T, Whole(b))]
<1>1. Filter(S, q) = K
  BY FilterKept
<1>2. \A k \in K : k \in DOMAIN R /\ k[1] < q.to
  BY DEF Filter
<1>3. ASSUME NEW b PROVE OhlcKept(RolledBar(S, Whole(b)), RolledBar(R, Whole(b)))
  <2>1. ASSUME NEW k \in Whole(b)
        PROVE  OhlcKept(SubBar(S, {j \in Whole(b) : j[1] = k[1]}),
                        SubBar(R, {j \in Whole(b) : j[1] = k[1]}))
    <3>1. {j \in Whole(b) : j[1] = k[1]} = {j \in K : j[1] = k[1]}
      OBVIOUS
    <3>2. {j \in K : j[1] = k[1]} = Of(R, k[1])
      BY WholeWindow
    <3>3. {j \in K : j[1] = k[1]} = Of(S, k[1])
      BY <1>1, WholeWindow
    <3>4. OhlcKept(SubBar(S, Of(S, k[1])), SubBar(R, Of(R, k[1])))
      BY <1>2 DEF RowsKept
    <3> QED BY <3>1, <3>2, <3>3, <3>4
  <2> HIDE DEF Whole
  <2> QED BY <2>1, RolledKept
<1>4. ASSUME NEW b
      PROVE  /\ [k \in Bucket(b) |-> S[k].bid_qty] = [k \in Bucket(b) |-> R[k].bid_qty]
             /\ [k \in Bucket(b) |-> S[k].ask_qty] = [k \in Bucket(b) |-> R[k].ask_qty]
             /\ [k \in Bucket(b) |-> S[k].trades] = [k \in Bucket(b) |-> R[k].trades]
  <2>1. \A k \in Bucket(b) : S[k].bid_qty = R[k].bid_qty /\ S[k].ask_qty = R[k].ask_qty
                             /\ S[k].trades = R[k].trades
    BY <1>2 DEF RowsKept
  <2> HIDE DEF Bucket
  <2> QED BY <2>1
<1>5. /\ Rollup(R, q) = [b \in {<<Rw(k), k[2]>> : k \in K} |-> Answer(R, b)]
      /\ Rollup(S, q) = [b \in {<<Rw(k), k[2]>> : k \in K} |-> Answer(S, b)]
  BY <1>1 DEF Rollup
<1> DEFINE D == {<<Rw(k), k[2]>> : k \in K}
<1>6. ASSUME NEW b
      PROVE  /\ Answer(S, b).bid_qty = Answer(R, b).bid_qty
             /\ Answer(S, b).ask_qty = Answer(R, b).ask_qty
             /\ Answer(S, b).trades = Answer(R, b).trades
             /\ OhlcKept(Answer(S, b).ohlc, Answer(R, b).ohlc)
  <2> HIDE DEF K, Rw, Bucket, Whole
  <2> QED BY <1>3, <1>4
<1>7. /\ Rollup(R, q) = [b \in D |-> Answer(R, b)]
      /\ Rollup(S, q) = [b \in D |-> Answer(S, b)]
  BY <1>5
<1> HIDE DEF D, Answer
<1> QED BY <1>6, <1>7 DEF SameButClose, OhlcKept

\* The cap cuts both answers at the same bucket.
LEMMA ParsedKept ==
  ASSUME NEW f, NEW g, SameButClose(f, g)
  PROVE  SameButClose(Parsed(f), Parsed(g))
<1> DEFINE Before(b) == {c \in DOMAIN g : \/ c[1] < b[1]
                                          \/ c[1] = b[1] /\ c[2] < b[2]}
           D == {c \in DOMAIN g : Cardinality(Before(c)) < MaxBars}
<1>1. DOMAIN f = DOMAIN g
  BY DEF SameButClose
<1>2. Parsed(f) = [b \in D |-> f[b]] /\ Parsed(g) = [b \in D |-> g[b]]
  BY <1>1 DEF Parsed
<1>3. D \subseteq DOMAIN f
  BY <1>1
<1> HIDE DEF D
<1> QED BY <1>2, <1>3 DEF SameButClose

\* The endpoint repeats its answer as long as the rows below its end are kept.
LEMMA RangeKept ==
  ASSUME NEW S, NEW R, NEW q, RowsKept(S, R, q.to)
  PROVE  SameButClose(cluster_range(S, q), cluster_range(R, q))
<1>1. SameButClose(build_range_sql(S, q), build_range_sql(R, q))
  BY DirectKept, RollupKept DEF build_range_sql
<1> QED BY <1>1, ParsedKept DEF cluster_range

\* Settling the close twice is settling it.
LEMMA SameTransitive ==
  ASSUME NEW f, NEW g, NEW h, SameButClose(f, g), SameButClose(g, h)
  PROVE  SameButClose(f, h)
<1>1. DOMAIN f = DOMAIN g /\ DOMAIN g = DOMAIN h
  BY DEF SameButClose
<1> QED BY <1>1 DEF SameButClose

-----------------------------------------------------------------------------
(* What is stored when a window changes or closes.                          *)

Price == Nat \ {0}
Ohlc == [open : Price, close : Price, high : Price, low : Price]
Cell == [bid_qty : Nat, ask_qty : Nat, trades : Nat]
Row == [bid_qty : Nat, ask_qty : Nat, trades : Nat, newest : BOOLEAN,
        open : Price, close : Price, high : Price, low : Price]

\* The types of what is stored, and of the open window.
TableOK == \A k \in DOMAIN rows : k[1] \in Nat /\ rows[k] \in Row

OpenBar(b) ==
  /\ b = [window |-> b.window, cells |-> b.cells, ohlc |-> b.ohlc, dirty |-> b.dirty]
  /\ b.window \in Nat /\ b.ohlc \in Ohlc
  /\ b.dirty \subseteq DOMAIN b.cells
  /\ \A p \in DOMAIN b.cells : b.cells[p] \in Cell

\* A row that is not written again only stops being the newest of its window.
LEMMA StoredOld ==
  ASSUME TableOK, NEW b, NEW P, NEW shared,
         NEW k \in DOMAIN rows, k \notin {b.window} \X P
  PROVE  LET s == Stored(b, P, shared)[k]
         IN  /\ s \in Row
             /\ s.bid_qty = rows[k].bid_qty /\ s.ask_qty = rows[k].ask_qty
             /\ s.trades = rows[k].trades /\ s.open = rows[k].open
             /\ s.close = rows[k].close /\ s.high = rows[k].high /\ s.low = rows[k].low
             /\ s.newest <=> rows[k].newest /\ (shared \/ k[1] # b.window)
<1>1. Stored(b, P, shared)[k] = [rows[k] EXCEPT !.newest = @ /\ (shared \/ k[1] # b.window)]
  BY DEF Stored
<1>2. rows[k] \in Row
  BY DEF TableOK
<1>3. (rows[k].newest /\ (shared \/ k[1] # b.window)) \in BOOLEAN
  OBVIOUS
<1> QED BY <1>1, <1>2, <1>3 DEF Row

\* A row that is written carries its bucket and the OHLC of the moment.
LEMMA StoredNew ==
  ASSUME NEW b, NEW P, NEW shared, NEW p \in P
  PROVE  Stored(b, P, shared)[<<b.window, p>>]
           = [bid_qty |-> b.cells[p].bid_qty, ask_qty |-> b.cells[p].ask_qty,
              trades |-> b.cells[p].trades, newest |-> TRUE,
              open |-> b.ohlc.open, close |-> b.ohlc.close,
              high |-> b.ohlc.high, low |-> b.ohlc.low]
  BY DEF Stored

\* Storing buckets of an open window keeps the table well-typed.
LEMMA StoredOK ==
  ASSUME TableOK, NEW b, OpenBar(b), NEW P \in SUBSET DOMAIN b.cells, NEW shared
  PROVE  \A k \in DOMAIN Stored(b, P, shared) : k[1] \in Nat /\ Stored(b, P, shared)[k] \in Row
<1> TAKE k \in DOMAIN Stored(b, P, shared)
<1>1. CASE k \in {b.window} \X P
  <2>1. PICK p \in P : k = <<b.window, p>>
    BY <1>1
  <2>2. b.ohlc \in Ohlc /\ b.cells[p] \in Cell /\ b.window \in Nat
    BY DEF OpenBar
  <2>3. Stored(b, P, shared)[k]
          = [bid_qty |-> b.cells[p].bid_qty, ask_qty |-> b.cells[p].ask_qty,
             trades |-> b.cells[p].trades, newest |-> TRUE,
             open |-> b.ohlc.open, close |-> b.ohlc.close,
             high |-> b.ohlc.high, low |-> b.ohlc.low]
    BY <2>1, StoredNew
  <2>4. Stored(b, P, shared)[k] \in Row
    BY <2>2, <2>3 DEF Ohlc, Cell, Row
  <2> QED BY <2>1, <2>2, <2>4
<1>2. CASE k \notin {b.window} \X P
  <2>1. k \in DOMAIN rows
    BY <1>2 DEF Stored
  <2>2. Stored(b, P, shared)[k] \in Row
    BY <1>2, <2>1, StoredOld
  <2> QED BY <2>1, <2>2 DEF TableOK
<1> QED BY <1>1, <1>2

\* Rows that agree give a window the same OHLC.
LEMMA SubBarSame ==
  ASSUME NEW S, NEW R, NEW K,
         \A k \in K : /\ S[k].open = R[k].open /\ S[k].close = R[k].close
                      /\ S[k].high = R[k].high /\ S[k].low = R[k].low
                      /\ S[k].newest <=> R[k].newest
  PROVE  SubBar(S, K) = SubBar(R, K)
<1>1. /\ {S[k].open : k \in K} = {R[k].open : k \in K}
      /\ {S[k].high : k \in K} = {R[k].high : k \in K}
      /\ {S[k].low : k \in K} = {R[k].low : k \in K}
  OBVIOUS
<1>2. {j \in K : S[j].newest} = {j \in K : R[j].newest}
  OBVIOUS
<1>3. {S[k].close : k \in {j \in K : S[j].newest}} = {R[k].close : k \in {j \in K : R[j].newest}}
  BY <1>2
<1> QED BY <1>1, <1>3, Zenon DEF SubBar

\* Rows that stay are kept.
LEMMA SameRowsKept ==
  ASSUME NEW R, NEW to
  PROVE  RowsKept(R, R, to)
  BY DEF RowsKept, OhlcKept

\* Storing a window from `to' on keeps the rows below it.
LEMMA LaterWindowKept ==
  ASSUME TableOK, NEW b, OpenBar(b), NEW P, NEW shared,
         NEW to \in Int, b.window >= to
  PROVE  RowsKept(Stored(b, P, shared), rows, to)
<1> DEFINE S == Stored(b, P, shared)
           New == {b.window} \X P
<1>1. b.window \in Nat
  BY DEF OpenBar
<1>2. ASSUME NEW k, k[1] < to PROVE k \notin New
  BY <1>1, <1>2
<1>3. DOMAIN S = DOMAIN rows \cup New
  BY DEF Stored
<1>4. ASSUME NEW k \in DOMAIN rows, k[1] < to
      PROVE  /\ S[k].bid_qty = rows[k].bid_qty /\ S[k].ask_qty = rows[k].ask_qty
             /\ S[k].trades = rows[k].trades /\ S[k].open = rows[k].open
             /\ S[k].close = rows[k].close /\ S[k].high = rows[k].high
             /\ S[k].low = rows[k].low /\ (S[k].newest <=> rows[k].newest)
  <2>1. k \notin New
    BY <1>2, <1>4
  <2>2. k[1] # b.window
    BY <1>1, <1>4
  <2> QED BY <2>1, <2>2, StoredOld
<1> HIDE DEF S, New
<1>5. {k \in DOMAIN S : k[1] < to} = {k \in DOMAIN rows : k[1] < to}
  BY <1>2, <1>3
<1>6. ASSUME NEW k \in DOMAIN rows, k[1] < to
      PROVE  OhlcKept(SubBar(S, Of(S, k[1])), SubBar(rows, Of(rows, k[1])))
  <2>1. Of(S, k[1]) = Of(rows, k[1])
    BY <1>2, <1>3, <1>6 DEF Of
  <2>2. \A j \in Of(rows, k[1]) : j \in DOMAIN rows /\ j[1] < to
    BY <1>6 DEF Of
  <2> DEFINE K == Of(rows, k[1])
  <2>3. \A j \in K : /\ S[j].open = rows[j].open /\ S[j].close = rows[j].close
                     /\ S[j].high = rows[j].high /\ S[j].low = rows[j].low
                     /\ S[j].newest <=> rows[j].newest
    BY <1>4, <2>2
  <2> HIDE DEF K
  <2>4. SubBar(S, K) = SubBar(rows, K)
    BY <2>3, SubBarSame
  <2> QED BY <2>1, <2>4 DEF OhlcKept, K
<1> QED BY <1>4, <1>5, <1>6 DEF RowsKept, S

\* A bucket that is not dirty is stored as it is; the OHLC of its row may be of
\* an earlier moment, and so has the same open and no wider a range.
CleanStored(b) ==
  \A p \in DOMAIN b.cells \ b.dirty :
    LET k == <<b.window, p>>
    IN  /\ k \in DOMAIN rows
        /\ rows[k].bid_qty = b.cells[p].bid_qty
        /\ rows[k].ask_qty = b.cells[p].ask_qty
        /\ rows[k].trades = b.cells[p].trades
        /\ rows[k].open = b.ohlc.open
        /\ rows[k].high <= b.ohlc.high /\ rows[k].low >= b.ohlc.low

\* When nothing is dirty, the newest rows carry the OHLC of the open window.
LatestStored(b) ==
  b # NoBar /\ b.dirty = {} =>
    \E p \in DOMAIN b.cells :
      LET r == rows[<<b.window, p>>]
      IN  /\ r.newest /\ r.close = b.ohlc.close
          /\ r.high = b.ohlc.high /\ r.low = b.ohlc.low

\* Storing a whole window that has nothing dirty writes many rows again and
\* changes no answer, apart from the choice of the close.
LEMMA CloseOfCleanBar ==
  ASSUME TableOK, NEW b, OpenBar(b), b # NoBar, b.dirty = {},
         CleanStored(b), LatestStored(b), NEW to
  PROVE  RowsKept(Stored(b, DOMAIN b.cells, FALSE), rows, to)
<1> DEFINE P == DOMAIN b.cells
           shared == FALSE
           S == Stored(b, P, shared)
           New == {b.window} \X P
<1>1. /\ b.window \in Nat /\ b.ohlc.high \in Price /\ b.ohlc.low \in Price
  BY DEF OpenBar, Ohlc
<1>2. ASSUME NEW k \in New
      PROVE  /\ k \in DOMAIN rows /\ k[1] = b.window
             /\ S[k].bid_qty = rows[k].bid_qty /\ S[k].ask_qty = rows[k].ask_qty
             /\ S[k].trades = rows[k].trades /\ S[k].open = rows[k].open
             /\ S[k].close = b.ohlc.close /\ S[k].newest = TRUE
             /\ S[k].high = b.ohlc.high /\ rows[k].high <= b.ohlc.high
             /\ S[k].low = b.ohlc.low /\ rows[k].low >= b.ohlc.low
  <2>1. PICK p \in P : k = <<b.window, p>>
    OBVIOUS
  <2>2. /\ k \in DOMAIN rows
        /\ rows[k].bid_qty = b.cells[p].bid_qty
        /\ rows[k].ask_qty = b.cells[p].ask_qty
        /\ rows[k].trades = b.cells[p].trades
        /\ rows[k].open = b.ohlc.open
        /\ rows[k].high <= b.ohlc.high /\ rows[k].low >= b.ohlc.low
    BY <2>1 DEF CleanStored
  <2>3. S[k] = [bid_qty |-> b.cells[p].bid_qty, ask_qty |-> b.cells[p].ask_qty,
                trades |-> b.cells[p].trades, newest |-> TRUE,
                open |-> b.ohlc.open, close |-> b.ohlc.close,
                high |-> b.ohlc.high, low |-> b.ohlc.low]
    <3> HIDE DEF P, shared
    <3> QED BY <2>1, StoredNew
  <2> HIDE DEF S
  <2> QED BY <2>1, <2>2, <2>3
<1>3. DOMAIN S = DOMAIN rows
  <2>1. New \subseteq DOMAIN rows
    BY <1>2
  <2> QED BY <2>1 DEF Stored
<1>4. ASSUME NEW k \in DOMAIN rows, k \notin New
      PROVE  /\ S[k].bid_qty = rows[k].bid_qty /\ S[k].ask_qty = rows[k].ask_qty
             /\ S[k].trades = rows[k].trades /\ S[k].open = rows[k].open
             /\ S[k].close = rows[k].close /\ S[k].high = rows[k].high
             /\ S[k].low = rows[k].low
             /\ S[k].newest <=> rows[k].newest /\ k[1] # b.window
  <2> HIDE DEF P, shared
  <2>1. /\ S[k].bid_qty = rows[k].bid_qty /\ S[k].ask_qty = rows[k].ask_qty
        /\ S[k].trades = rows[k].trades /\ S[k].open = rows[k].open
        /\ S[k].close = rows[k].close /\ S[k].high = rows[k].high
        /\ S[k].low = rows[k].low
        /\ S[k].newest <=> rows[k].newest /\ (shared \/ k[1] # b.window)
    BY <1>4, StoredOld
  <2> QED BY <2>1 DEF shared
<1>5. PICK p \in DOMAIN b.cells :
        /\ rows[<<b.window, p>>].newest /\ rows[<<b.window, p>>].close = b.ohlc.close
        /\ rows[<<b.window, p>>].high = b.ohlc.high /\ rows[<<b.window, p>>].low = b.ohlc.low
  BY DEF LatestStored
<1> DEFINE top == <<b.window, p>>
<1>6. top \in New /\ top[1] = b.window
  OBVIOUS
<1>7. \A k \in DOMAIN rows : rows[k].high \in Price /\ rows[k].low \in Price
  BY DEF TableOK, Row
<1> HIDE DEF S, New
<1>8. ASSUME NEW w \in Nat
      PROVE  OhlcKept(SubBar(S, Of(S, w)), SubBar(rows, Of(rows, w)))
  <2> DEFINE K == Of(rows, w)
  <2>1. Of(S, w) = K
    BY <1>3 DEF Of
  <2>2. \A k \in K : k \in DOMAIN rows /\ k[1] = w
    BY DEF Of
  <2>3. CASE w # b.window
    <3>1. \A k \in K : k \notin New /\ k[1] # b.window
      BY <1>2, <2>2, <2>3
    <3>2. \A k \in K : /\ S[k].open = rows[k].open /\ S[k].close = rows[k].close
                       /\ S[k].high = rows[k].high /\ S[k].low = rows[k].low
                       /\ S[k].newest <=> rows[k].newest
      BY <1>4, <2>2, <3>1
    <3> HIDE DEF K
    <3>3. SubBar(S, K) = SubBar(rows, K)
      BY <3>2, SubBarSame
    <3> QED BY <2>1, <3>3 DEF OhlcKept, K
  <2>4. CASE w = b.window
    <3>1. top \in K
      BY <1>2, <1>6, <2>4 DEF Of
    <3> DEFINE High(T) == {T[k].high : k \in K}
               Low(T) == {T[k].low : k \in K}
               Close(T) == {T[k].close : k \in {j \in K : T[j].newest}}
    <3>2. {S[k].open : k \in K} = {rows[k].open : k \in K}
      <4>1. ASSUME NEW k \in K PROVE S[k].open = rows[k].open
        BY <1>2, <1>4, <2>2
      <4> HIDE DEF K
      <4> QED BY <4>1
    <3>3. /\ S[top].high = b.ohlc.high /\ rows[top].high = b.ohlc.high
          /\ S[top].low = b.ohlc.low /\ rows[top].low = b.ohlc.low
          /\ rows[top].newest /\ rows[top].close = b.ohlc.close
      BY <1>2, <1>5, <1>6
    <3> HIDE DEF K, top
    <3>4. MaxIf(High(S)) = MaxIf(High(rows))
      <4>1. b.ohlc.high \in High(S) /\ b.ohlc.high \in High(rows)
        BY <3>1, <3>3
      <4>2. High(rows) \in SUBSET Nat
        BY <1>7, <2>2 DEF Price
      <4>3. ASSUME NEW k \in K PROVE S[k].high \in High(rows)
        BY <1>2, <1>4, <2>2, <4>1
      <4>4. ASSUME NEW k \in K, rows[k].high \notin High(S) PROVE rows[k].high <= b.ohlc.high
        <5>1. k \in New
          BY <1>4, <2>2, <4>4
        <5> QED BY <1>2, <5>1
      <4>5. High(S) \in SUBSET High(rows) /\ \A x \in High(rows) \ High(S) : x <= b.ohlc.high
        BY <4>3, <4>4
      <4>6. b.ohlc.high > 0
        BY <1>1 DEF Price
      <4> HIDE DEF High
      <4> QED BY <4>1, <4>2, <4>5, <4>6, MaxIfKept
    <3>5. MinIf(Low(S)) = MinIf(Low(rows))
      <4>1. b.ohlc.low \in Low(S) /\ b.ohlc.low \in Low(rows)
        BY <3>1, <3>3
      <4>2. Low(rows) \in SUBSET Nat
        BY <1>7, <2>2 DEF Price
      <4>3. ASSUME NEW k \in K PROVE S[k].low \in Low(rows)
        BY <1>2, <1>4, <2>2, <4>1
      <4>4. ASSUME NEW k \in K, rows[k].low \notin Low(S) PROVE rows[k].low >= b.ohlc.low
        <5>1. k \in New
          BY <1>4, <2>2, <4>4
        <5> QED BY <1>2, <5>1
      <4>5. Low(S) \in SUBSET Low(rows) /\ \A x \in Low(rows) \ Low(S) : x >= b.ohlc.low
        BY <4>3, <4>4
      <4>6. b.ohlc.low > 0
        BY <1>1 DEF Price
      <4> HIDE DEF Low
      <4> QED BY <4>1, <4>2, <4>5, <4>6, MinIfKept
    <3>6. Close(S) \subseteq Close(rows)
      <4>1. b.ohlc.close \in Close(rows)
        BY <3>1, <3>3
      <4>2. ASSUME NEW k \in K, S[k].newest PROVE S[k].close = b.ohlc.close
        BY <1>2, <1>4, <2>2, <2>4, <4>2
      <4> QED BY <4>1, <4>2
    <3>7. /\ SubBar(S, K).open = SubBar(rows, K).open
          /\ SubBar(S, K).close \subseteq SubBar(rows, K).close
      BY <3>2, <3>6 DEF SubBar
    <3>8. /\ SubBar(S, K).high = SubBar(rows, K).high
          /\ SubBar(S, K).low = SubBar(rows, K).low
      BY <3>4, <3>5 DEF SubBar
    <3> QED BY <2>1, <3>7, <3>8 DEF OhlcKept, K
  <2> QED BY <2>3, <2>4
<1>9. \A k \in DOMAIN rows : S[k].bid_qty = rows[k].bid_qty
                             /\ S[k].ask_qty = rows[k].ask_qty /\ S[k].trades = rows[k].trades
  BY <1>2, <1>4
<1>10. \A k \in DOMAIN rows : k[1] \in Nat
  BY DEF TableOK
<1> QED BY <1>3, <1>8, <1>9, <1>10 DEF RowsKept, S

\* toStartOfInterval goes back by less than an interval.
LEMMA WindowStart ==
  ASSUME NEW ts \in Nat, NEW n \in Nat \ {0}
  PROVE  /\ StartOfInterval(ts, n) \in Nat
         /\ StartOfInterval(ts, n) <= ts /\ ts < StartOfInterval(ts, n) + n
<1>1. ts \div n \in Nat
  OBVIOUS
<1>2. (ts \div n) * n <= ts /\ ts < (ts \div n) * n + n
  OBVIOUS
<1>3. (ts \div n) * n \in Nat
  BY <1>1
<1> QED BY <1>2, <1>3 DEF StartOfInterval

\* The larger and the smaller of two prices are prices.
LEMMA LargerOf ==
  ASSUME NEW x \in Price, NEW y \in Price
  PROVE  Max({x, y}) \in Price /\ Max({x, y}) >= x /\ Max({x, y}) >= y
<1>1. \E z \in {x, y} : \A u \in {x, y} : z >= u
  BY DEF Price
<1>2. Max({x, y}) \in {x, y} /\ \A u \in {x, y} : Max({x, y}) >= u
  BY <1>1 DEF Max
<1> QED BY <1>2

\* See LargerOf.
LEMMA SmallerOf ==
  ASSUME NEW x \in Price, NEW y \in Price
  PROVE  Min({x, y}) \in Price /\ Min({x, y}) <= x /\ Min({x, y}) <= y
<1>1. \E z \in {x, y} : \A u \in {x, y} : z <= u
  BY DEF Price
<1>2. Min({x, y}) \in {x, y} /\ \A u \in {x, y} : Min({x, y}) <= u
  BY <1>1 DEF Min
<1> QED BY <1>2

-----------------------------------------------------------------------------
(* Immutable answers.  A trade, and a delta, may still change a window that *)
(* began up to MaxLag + BaseTf - 1 ago: an answer is asked for, and kept,    *)
(* only when its range ended before that.                                   *)

\* Answer x, read from rows that have become r by time t, is still right.
Lasting(x, r, t, e) ==
  x # Nothing =>
    /\ x.q \in Ranges
    /\ x.q.to + MaxLag + BaseTf - 1 <= t
    /\ e = {} => SameButClose(cluster_range(r, x.q), x.body)

\* The inductive invariant.  What is dirty is recent (the deadline of a delta),
\* and what is not is stored, so that closing a window late changes nothing.
RangeInv ==
  /\ now \in Nat
  /\ TableOK
  /\ bar = NoBar \/ OpenBar(bar)
  /\ bar.dirty # {} => now - bar.window <= MaxLag + BaseTf - 1
  /\ expired = {} => CleanStored(bar) /\ LatestStored(bar)
  /\ Lasting(fetch, rows, now, expired) /\ Lasting(kept, rows, now, expired)

\* An answer lasts through a step that keeps the rows below its end.
LEMMA LastingKept ==
  ASSUME NEW x, NEW r, NEW s, NEW t \in Nat, NEW u \in Nat, t <= u, NEW e,
         Lasting(x, r, t, e), x # Nothing /\ e = {} => RowsKept(s, r, x.q.to)
  PROVE  Lasting(x, s, u, e)
<1> SUFFICES ASSUME x # Nothing
             PROVE  /\ x.q \in Ranges
                    /\ x.q.to + MaxLag + BaseTf - 1 <= u
                    /\ e = {} => SameButClose(cluster_range(s, x.q), x.body)
  BY DEF Lasting
<1>1. x.q \in Ranges /\ x.q.to + MaxLag + BaseTf - 1 <= t
  BY DEF Lasting
<1>2. x.q.to + MaxLag + BaseTf - 1 <= u
  BY <1>1, ServerAssumption, TimeframeAssumption
<1>3. ASSUME e = {} PROVE SameButClose(cluster_range(s, x.q), x.body)
  <2>1. SameButClose(cluster_range(s, x.q), cluster_range(r, x.q))
    BY <1>3, RangeKept
  <2>2. SameButClose(cluster_range(r, x.q), x.body)
    BY <1>3 DEF Lasting
  <2> QED BY <2>1, <2>2, SameTransitive
<1> QED BY <1>1, <1>2, <1>3

\* Booking a trade dirties its bucket, leaves the others and widens the range.
LEMMA BookedOpen ==
  ASSUME NEW b, b = NoBar \/ OpenBar(b), NEW t, t.window \in Nat, t.price \in Price
  PROVE  LET c == Booked(b, t)
         IN  /\ OpenBar(c) /\ c.window = t.window
             /\ c.dirty = b.dirty \cup {t.price}
             /\ DOMAIN c.cells = DOMAIN b.cells \cup {t.price}
             /\ \A p \in DOMAIN b.cells : p # t.price => c.cells[p] = b.cells[p]
             /\ b # NoBar => /\ c.ohlc.open = b.ohlc.open
                             /\ c.ohlc.high >= b.ohlc.high
                             /\ c.ohlc.low <= b.ohlc.low
<1> DEFINE c == Booked(b, t)
           o == b.ohlc
           D == DOMAIN b.cells
           k == CellOf(b, t.price)
           new == [bid_qty |-> k.bid_qty + IF t.side = "Bid" THEN 1 ELSE 0,
                   ask_qty |-> k.ask_qty + IF t.side = "Ask" THEN 1 ELSE 0,
                   trades |-> k.trades + 1]
           cells == [p \in D \cup {t.price} |-> IF p # t.price THEN b.cells[p] ELSE new]
           first == [open |-> t.price, close |-> t.price, high |-> t.price, low |-> t.price]
           next == [open |-> o.open, close |-> t.price,
                    high |-> Max({o.high, t.price}), low |-> Min({o.low, t.price})]
           ohlc == IF b = NoBar THEN first ELSE next
<1>1. c = [window |-> t.window, cells |-> cells, ohlc |-> ohlc, dirty |-> b.dirty \cup {t.price}]
  BY Zenon DEF Booked
<1>2. /\ \A p \in D : b.cells[p] \in Cell
      /\ b.dirty \subseteq D
  BY DEF NoBar, OpenBar
<1>3. k \in Cell
  BY <1>2 DEF CellOf, NoCell, Cell
<1>4. new \in Cell
  <2> HIDE DEF k
  <2> QED BY <1>3 DEF Cell
<1>5. \A p \in D \cup {t.price} : cells[p] \in Cell
  <2> HIDE DEF new
  <2> QED BY <1>2, <1>4
<1>6. /\ ohlc \in Ohlc
      /\ b # NoBar => ohlc.open = o.open /\ ohlc.high >= o.high /\ ohlc.low <= o.low
  <2>1. CASE b = NoBar
    BY <2>1 DEF Ohlc
  <2>2. CASE b # NoBar
    <3>1. o \in Ohlc
      BY <2>2 DEF OpenBar
    <3>2. o.open \in Price /\ o.high \in Price /\ o.low \in Price
      BY <3>1 DEF Ohlc
    <3> HIDE DEF o
    <3>3. /\ Max({o.high, t.price}) \in Price /\ Max({o.high, t.price}) >= o.high
          /\ Min({o.low, t.price}) \in Price /\ Min({o.low, t.price}) <= o.low
      BY <3>2, LargerOf, SmallerOf
    <3> QED BY <2>2, <3>2, <3>3 DEF Ohlc
  <2> QED BY <2>1, <2>2
<1>7. /\ DOMAIN cells = D \cup {t.price}
      /\ \A p \in D : p # t.price => cells[p] = b.cells[p]
  OBVIOUS
<1> HIDE DEF c, cells, ohlc
<1>8. OpenBar(c)
  BY <1>1, <1>2, <1>5, <1>6, <1>7 DEF OpenBar
<1>9. /\ c.window = t.window /\ c.dirty = b.dirty \cup {t.price}
      /\ DOMAIN c.cells = D \cup {t.price}
      /\ \A p \in D : p # t.price => c.cells[p] = b.cells[p]
  BY <1>1, <1>7
<1>10. b # NoBar => c.ohlc.open = o.open /\ c.ohlc.high >= o.high /\ c.ohlc.low <= o.low
  BY <1>1, <1>6
<1> QED BY <1>8, <1>9, <1>10 DEF c

\* A first start over an empty table.
LEMMA RangeInit == Init => RangeInv
<1> SUFFICES ASSUME Init PROVE RangeInv
  OBVIOUS
<1>1. now \in Nat /\ TableOK
  BY DEF Init, TableOK
<1>2. /\ bar = NoBar /\ bar.dirty = {} /\ DOMAIN bar.cells = {}
  BY DEF Init, NoBar
<1>3. CleanStored(bar) /\ LatestStored(bar)
  BY <1>2 DEF CleanStored, LatestStored
<1>4. Lasting(fetch, rows, now, expired) /\ Lasting(kept, rows, now, expired)
  BY DEF Init, Lasting
<1> QED BY <1>1, <1>2, <1>3, <1>4 DEF RangeInv

\* Answers under way and kept survive a step that keeps the rows of their range.
LEMMA AnswersKept ==
  ASSUME RangeInv, UNCHANGED <<fetch, kept, expired>>, now' \in Nat, now <= now',
         \A q \in Ranges : q.to + MaxLag + BaseTf - 1 <= now /\ expired = {}
                             => RowsKept(rows', rows, q.to)
  PROVE  Lasting(fetch, rows, now, expired)' /\ Lasting(kept, rows, now, expired)'
<1>1. ASSUME NEW x, Lasting(x, rows, now, expired)
      PROVE  Lasting(x, rows', now', expired)
  <2>1. x # Nothing /\ expired = {} => RowsKept(rows', rows, x.q.to)
    BY <1>1 DEF Lasting
  <2> QED BY <1>1, <2>1, LastingKept DEF RangeInv
<1>2. Lasting(fetch, rows', now', expired) /\ Lasting(kept, rows', now', expired)
  BY <1>1 DEF RangeInv
<1> QED BY <1>2

\* Trade: it opens, or adds to, a window that no lasting answer reaches; the one it
\* closes is either as recent or has nothing dirty.
LEMMA TradeRange ==
  ASSUME RangeInv, NEW print \in Prints, NEW ts \in 0 .. MaxTs, Trade(print, ts)
  PROVE  RangeInv'
<1> DEFINE t == [window |-> StartOfInterval(ts, BaseTf), price |-> print.price,
                 side |-> print.side]
           from == IF t.window = bar.window THEN bar ELSE NoBar
<1>1. /\ ts \in 0 .. now /\ now - ts <= MaxLag
      /\ t.window >= bar.window
      /\ bar' = Booked(from, t)
      /\ rows' = IF bar # NoBar /\ t.window > bar.window
                   THEN Stored(bar, DOMAIN bar.cells, FALSE) ELSE rows
      /\ UNCHANGED <<expired, fetch, kept, now>>
  BY Zenon DEF Trade, client
<1>2. now \in Nat /\ ts \in Nat /\ BaseTf \in Nat \ {0} /\ MaxLag \in Nat
  BY <1>1, TimeframeAssumption, ServerAssumption DEF RangeInv
<1>3. /\ t.window \in Nat /\ t.window <= ts /\ ts < t.window + BaseTf
      /\ t.price \in Price
  <2>1. t.window = StartOfInterval(ts, BaseTf) /\ t.price = print.price
    OBVIOUS
  <2>2. print.price \in Price
    BY ServerAssumption DEF Price
  <2> HIDE DEF t
  <2> QED BY <1>2, <2>1, <2>2, WindowStart
<1> HIDE DEF t
<1>4. from = NoBar \/ OpenBar(from)
  BY DEF RangeInv
<1> HIDE DEF from
<1>5. /\ OpenBar(bar') /\ bar'.window = t.window
      /\ bar'.dirty = from.dirty \cup {t.price}
      /\ DOMAIN bar'.cells = DOMAIN from.cells \cup {t.price}
      /\ \A p \in DOMAIN from.cells : p # t.price => bar'.cells[p] = from.cells[p]
      /\ from # NoBar => /\ bar'.ohlc.open = from.ohlc.open
                         /\ bar'.ohlc.high >= from.ohlc.high
                         /\ bar'.ohlc.low <= from.ohlc.low
  BY <1>1, <1>3, <1>4, BookedOpen
<1>6. now - t.window <= MaxLag + BaseTf - 1
  BY <1>1, <1>2, <1>3
<1>7. TableOK'
  <2>1. CASE bar # NoBar /\ t.window > bar.window
    <3>1. OpenBar(bar)
      BY <2>1 DEF RangeInv
    <3> DEFINE shared == FALSE
    <3>2. rows' = Stored(bar, DOMAIN bar.cells, shared)
      BY <1>1, <2>1
    <3> HIDE DEF shared
    <3>3. \A k \in DOMAIN rows' : k[1] \in Nat /\ rows'[k] \in Row
      BY <3>1, <3>2, StoredOK DEF RangeInv
    <3> QED BY <3>3 DEF TableOK
  <2>2. CASE ~(bar # NoBar /\ t.window > bar.window)
    BY <1>1, <2>2 DEF RangeInv, TableOK
  <2> QED BY <2>1, <2>2
<1>8. ASSUME expired = {} PROVE CleanStored(bar)'
  <2>1. ASSUME NEW p \in DOMAIN bar'.cells \ bar'.dirty
        PROVE  /\ from = bar /\ bar # NoBar /\ rows' = rows /\ bar'.window = bar.window
               /\ p \in DOMAIN bar.cells \ bar.dirty /\ bar'.cells[p] = bar.cells[p]
    <3>1. p \in DOMAIN from.cells \ from.dirty /\ p # t.price
      BY <1>5
    <3>2. from # NoBar
      BY <3>1 DEF NoBar
    <3>3. from = bar /\ t.window = bar.window
      BY <3>2 DEF from
    <3>4. ~(t.window > bar.window)
      BY <1>3, <3>3
    <3>5. rows' = rows
      BY <1>1, <3>4, Zenon
    <3> QED BY <1>5, <3>1, <3>2, <3>3, <3>5
  <2>2. ASSUME NEW p \in DOMAIN bar'.cells \ bar'.dirty
        PROVE  LET k == <<bar'.window, p>>
               IN  /\ k \in DOMAIN rows'
                   /\ rows'[k].bid_qty = bar'.cells[p].bid_qty
                   /\ rows'[k].ask_qty = bar'.cells[p].ask_qty
                   /\ rows'[k].trades = bar'.cells[p].trades
                   /\ rows'[k].open = bar'.ohlc.open
                   /\ rows'[k].high <= bar'.ohlc.high /\ rows'[k].low >= bar'.ohlc.low
    <3> DEFINE k == <<bar.window, p>>
    <3>1. /\ from = bar /\ bar # NoBar /\ rows' = rows /\ bar'.window = bar.window
          /\ p \in DOMAIN bar.cells \ bar.dirty /\ bar'.cells[p] = bar.cells[p]
      BY <2>1
    <3>2. /\ k \in DOMAIN rows
          /\ rows[k].bid_qty = bar.cells[p].bid_qty
          /\ rows[k].ask_qty = bar.cells[p].ask_qty
          /\ rows[k].trades = bar.cells[p].trades
          /\ rows[k].open = bar.ohlc.open
          /\ rows[k].high <= bar.ohlc.high /\ rows[k].low >= bar.ohlc.low
      BY <1>8, <3>1 DEF RangeInv, CleanStored
    <3>3. /\ bar'.ohlc.open = bar.ohlc.open
          /\ bar'.ohlc.high >= bar.ohlc.high /\ bar'.ohlc.low <= bar.ohlc.low
      BY <1>5, <3>1
    <3>4. /\ bar'.ohlc.high \in Nat /\ bar'.ohlc.low \in Nat
          /\ bar.ohlc.high \in Nat /\ bar.ohlc.low \in Nat
      <4>1. OpenBar(bar)
        BY <3>1 DEF RangeInv
      <4>2. bar.ohlc \in Ohlc /\ bar'.ohlc \in Ohlc
        BY <1>5, <4>1 DEF OpenBar
      <4> QED BY <4>2 DEF Ohlc, Price
    <3>5. rows[k].high \in Nat /\ rows[k].low \in Nat
      BY <3>2 DEF RangeInv, TableOK, Row, Price
    <3> HIDE DEF k
    <3>6. rows[k].high <= bar'.ohlc.high /\ rows[k].low >= bar'.ohlc.low
      BY <3>2, <3>3, <3>4, <3>5
    <3> QED BY <3>1, <3>2, <3>3, <3>6 DEF k
  <2> QED BY <2>2, Zenon DEF CleanStored
<1>9. LatestStored(bar)'
  BY <1>5 DEF LatestStored
<1>10. ASSUME NEW q \in Ranges, q.to + MaxLag + BaseTf - 1 <= now, expired = {}
       PROVE  RowsKept(rows', rows, q.to)
  <2>1. CASE bar # NoBar /\ t.window > bar.window
    <3> DEFINE shared == FALSE
               P == DOMAIN bar.cells
    <3>1. rows' = Stored(bar, P, shared)
      BY <1>1, <2>1
    <3>2. OpenBar(bar) /\ TableOK /\ CleanStored(bar) /\ LatestStored(bar)
      BY <1>10, <2>1 DEF RangeInv
    <3>3. CASE bar.dirty = {}
      BY <2>1, <3>1, <3>2, <3>3, CloseOfCleanBar
    <3>4. CASE bar.dirty # {}
      <4>1. now - bar.window <= MaxLag + BaseTf - 1
        BY <3>4 DEF RangeInv
      <4>2. bar.window \in Nat /\ q.to \in Int
        BY <3>2, ServerAssumption DEF OpenBar
      <4>3. bar.window >= q.to
        BY <1>2, <1>10, <4>1, <4>2
      <4> HIDE DEF P, shared
      <4> QED BY <3>1, <3>2, <4>2, <4>3, LaterWindowKept
    <3> QED BY <3>3, <3>4
  <2>2. CASE ~(bar # NoBar /\ t.window > bar.window)
    BY <1>1, <2>2, SameRowsKept
  <2> QED BY <2>1, <2>2
<1>11. Lasting(fetch, rows, now, expired)' /\ Lasting(kept, rows, now, expired)'
  <2>1. UNCHANGED <<fetch, kept, expired>> /\ now' \in Nat /\ now <= now'
    BY <1>1, <1>2
  <2> QED BY <1>10, <2>1, AnswersKept
<1>12. /\ now' \in Nat /\ (bar = NoBar \/ OpenBar(bar))'
       /\ (bar.dirty # {} => now - bar.window <= MaxLag + BaseTf - 1)'
  BY <1>1, <1>2, <1>5, <1>6
<1>13. (expired = {} => CleanStored(bar) /\ LatestStored(bar))'
  BY <1>1, <1>8, <1>9
<1> QED BY <1>7, <1>11, <1>12, <1>13 DEF RangeInv

\* Delta: the dirty buckets are of a window that no lasting answer reaches.
LEMMA DeltaRange ==
  ASSUME RangeInv, NEW shared \in BOOLEAN, Delta(shared)
  PROVE  RangeInv'
<1> DEFINE P == bar.dirty
<1>1. /\ P # {} /\ rows' = Stored(bar, P, shared)
      /\ bar' = [bar EXCEPT !.dirty = {}]
      /\ UNCHANGED <<expired, fetch, kept, now>>
  BY DEF Delta, client
<1>2. bar # NoBar /\ OpenBar(bar)
  BY <1>1 DEF RangeInv, NoBar
<1>3. /\ bar' = [window |-> bar.window, cells |-> bar.cells, ohlc |-> bar.ohlc, dirty |-> {}]
      /\ OpenBar(bar')
  BY <1>1, <1>2 DEF OpenBar
<1>4. P \subseteq DOMAIN bar.cells /\ TableOK /\ now \in Nat
  BY <1>2 DEF OpenBar, RangeInv
<1>5. now - bar.window <= MaxLag + BaseTf - 1
  BY <1>1 DEF RangeInv
<1>6. ASSUME NEW q \in Ranges, q.to + MaxLag + BaseTf - 1 <= now
      PROVE  RowsKept(rows', rows, q.to)
  <2>1. bar.window \in Nat /\ q.to \in Int
    BY <1>2, ServerAssumption DEF OpenBar
  <2>2. bar.window >= q.to
    BY <1>4, <1>5, <1>6, <2>1, ServerAssumption, TimeframeAssumption
  <2> HIDE DEF P
  <2> QED BY <1>1, <1>2, <1>4, <2>1, <2>2, LaterWindowKept
<1> HIDE DEF P
<1>7. TableOK'
  <2>1. \A k \in DOMAIN rows' : k[1] \in Nat /\ rows'[k] \in Row
    BY <1>1, <1>2, <1>4, StoredOK
  <2> QED BY <2>1 DEF TableOK
<1>8. ASSUME NEW p \in P
      PROVE  LET k == <<bar.window, p>>
             IN  /\ k \in DOMAIN rows'
                 /\ rows'[k].bid_qty = bar.cells[p].bid_qty
                 /\ rows'[k].ask_qty = bar.cells[p].ask_qty
                 /\ rows'[k].trades = bar.cells[p].trades
                 /\ rows'[k].newest /\ rows'[k].open = bar.ohlc.open
                 /\ rows'[k].close = bar.ohlc.close
                 /\ rows'[k].high = bar.ohlc.high /\ rows'[k].low = bar.ohlc.low
  <2> DEFINE k == <<bar.window, p>>
  <2>1. k \in DOMAIN rows'
    BY <1>1 DEF Stored
  <2>2. rows'[k] = [bid_qty |-> bar.cells[p].bid_qty, ask_qty |-> bar.cells[p].ask_qty,
                    trades |-> bar.cells[p].trades, newest |-> TRUE,
                    open |-> bar.ohlc.open, close |-> bar.ohlc.close,
                    high |-> bar.ohlc.high, low |-> bar.ohlc.low]
    BY <1>1, StoredNew
  <2> HIDE DEF k
  <2>3. /\ rows'[k].bid_qty = bar.cells[p].bid_qty
        /\ rows'[k].ask_qty = bar.cells[p].ask_qty
        /\ rows'[k].trades = bar.cells[p].trades
        /\ rows'[k].newest /\ rows'[k].open = bar.ohlc.open
        /\ rows'[k].close = bar.ohlc.close
        /\ rows'[k].high = bar.ohlc.high /\ rows'[k].low = bar.ohlc.low
    BY <2>2
  <2> QED BY <2>1, <2>3 DEF k
<1>9. ASSUME expired = {}, NEW p \in DOMAIN bar.cells
      PROVE  LET k == <<bar.window, p>>
             IN  /\ k \in DOMAIN rows'
                 /\ rows'[k].bid_qty = bar.cells[p].bid_qty
                 /\ rows'[k].ask_qty = bar.cells[p].ask_qty
                 /\ rows'[k].trades = bar.cells[p].trades
                 /\ rows'[k].open = bar.ohlc.open
                 /\ rows'[k].high <= bar.ohlc.high /\ rows'[k].low >= bar.ohlc.low
  <2> DEFINE k == <<bar.window, p>>
  <2>1. CASE p \in P
    <3>1. bar.ohlc.high \in Nat /\ bar.ohlc.low \in Nat
      BY <1>2 DEF OpenBar, Ohlc, Price
    <3> QED BY <1>8, <2>1, <3>1
  <2>2. CASE p \notin P
    <3>1. /\ k \in DOMAIN rows
          /\ rows[k].bid_qty = bar.cells[p].bid_qty
          /\ rows[k].ask_qty = bar.cells[p].ask_qty
          /\ rows[k].trades = bar.cells[p].trades
          /\ rows[k].open = bar.ohlc.open
          /\ rows[k].high <= bar.ohlc.high /\ rows[k].low >= bar.ohlc.low
      BY <1>9, <2>2 DEF RangeInv, CleanStored, P
    <3>2. k \notin {bar.window} \X P
      BY <2>2
    <3>3. k \in DOMAIN rows'
      BY <1>1, <3>1 DEF Stored
    <3> HIDE DEF k
    <3>4. /\ rows'[k].bid_qty = rows[k].bid_qty /\ rows'[k].ask_qty = rows[k].ask_qty
          /\ rows'[k].trades = rows[k].trades /\ rows'[k].open = rows[k].open
          /\ rows'[k].high = rows[k].high /\ rows'[k].low = rows[k].low
      BY <1>1, <1>4, <3>1, <3>2, StoredOld
    <3> QED BY <3>1, <3>3, <3>4 DEF k
  <2> QED BY <2>1, <2>2
<1>10. ASSUME expired = {} PROVE CleanStored(bar)'
  BY <1>3, <1>9, <1>10 DEF CleanStored
<1>11. LatestStored(bar)'
  <2>1. PICK p \in P : TRUE
    BY <1>1
  <2>2. /\ rows'[<<bar.window, p>>].newest /\ rows'[<<bar.window, p>>].close = bar.ohlc.close
        /\ rows'[<<bar.window, p>>].high = bar.ohlc.high
        /\ rows'[<<bar.window, p>>].low = bar.ohlc.low
    BY <1>8
  <2> QED BY <1>3, <1>4, <2>2 DEF LatestStored
<1>12. Lasting(fetch, rows, now, expired)' /\ Lasting(kept, rows, now, expired)'
  <2>1. UNCHANGED <<fetch, kept, expired>> /\ now' \in Nat /\ now <= now'
    BY <1>1, <1>4
  <2> QED BY <1>6, <2>1, AnswersKept
<1>13. /\ now' \in Nat /\ (bar = NoBar \/ OpenBar(bar))'
       /\ (bar.dirty # {} => now - bar.window <= MaxLag + BaseTf - 1)'
  BY <1>1, <1>3, <1>4
<1>14. (expired = {} => CleanStored(bar) /\ LatestStored(bar))'
  BY <1>1, <1>10, <1>11
<1> QED BY <1>7, <1>12, <1>13, <1>14 DEF RangeInv

\* Fetch: the range ended two intervals before the answer can arrive, which is
\* longer than a trade can take to its row.
LEMMA FetchRange ==
  ASSUME RangeInv, NEW q \in Ranges, NEW token \in Tokens, Fetch(q, token)
  PROVE  RangeInv'
<1> DEFINE x == [q |-> q, body |-> cluster_range(rows, q), at |-> now]
<1>1. /\ Immutable(q, now + MaxFetch)
      /\ fetch' = x /\ UNCHANGED <<table, kept, now, bar>>
  BY DEF Fetch
<1>2. q.to + MaxLag + BaseTf - 1 <= now
  BY <1>1, ServerAssumption, TimeframeAssumption DEF Immutable, RangeInv
<1>3. SameButClose(cluster_range(rows, q), cluster_range(rows, q))
  BY DEF SameButClose
<1>4. x.q = q /\ x.body = cluster_range(rows, q)
  OBVIOUS
<1> HIDE DEF x
<1>5. Lasting(x, rows, now, expired)
  BY <1>2, <1>3, <1>4 DEF Lasting
<1> QED BY <1>1, <1>5 DEF RangeInv, TableOK, CleanStored, LatestStored, table

\* Respond: what is kept was read before.
LEMMA RespondRange ==
  ASSUME RangeInv, NEW ok \in BOOLEAN, Respond(ok)
  PROVE  RangeInv'
<1>1. /\ fetch' = Nothing /\ kept' \in {fetch, kept} /\ UNCHANGED <<table, now, bar>>
  BY DEF Respond
<1>2. Lasting(Nothing, rows, now, expired)
  BY DEF Lasting
<1> QED BY <1>1, <1>2 DEF RangeInv, TableOK, CleanStored, LatestStored, table

\* Exit: the open window is gone and with it every promise about it.
LEMMA ExitRange == RangeInv /\ Exit => RangeInv'
<1> SUFFICES ASSUME RangeInv, Exit PROVE RangeInv'
  OBVIOUS
<1>1. /\ bar' = NoBar /\ fetch' = Nothing /\ UNCHANGED <<rows, expired, kept, now>>
  BY DEF Exit
<1>2. Lasting(Nothing, rows, now, expired)
  BY DEF Lasting
<1>3. bar'.dirty = {} /\ DOMAIN bar'.cells = {}
  BY <1>1 DEF NoBar
<1>4. CleanStored(bar)' /\ LatestStored(bar)'
  BY <1>1, <1>3 DEF CleanStored, LatestStored
<1> QED BY <1>1, <1>2, <1>3, <1>4 DEF RangeInv, TableOK

\* Elapse: a dirty window is stored before it is too old.
LEMMA ElapseRange == RangeInv /\ Elapse => RangeInv'
<1> SUFFICES ASSUME RangeInv, Elapse PROVE RangeInv'
  OBVIOUS
<1>1. /\ bar.dirty # {} => now - bar.window < MaxLag + BaseTf - 1
      /\ now' = now + 1 /\ UNCHANGED <<rows, expired, fetch, kept, bar>>
  BY DEF Elapse, table, client
<1>2. now \in Nat /\ now' \in Nat /\ now <= now'
  BY <1>1 DEF RangeInv
<1>3. (bar.dirty # {} => now - bar.window <= MaxLag + BaseTf - 1)'
  <2>1. bar.dirty # {} => bar.window \in Nat
    BY DEF RangeInv, OpenBar, NoBar
  <2> QED BY <1>1, <1>2, <2>1, ServerAssumption, TimeframeAssumption
<1>4. \A q \in Ranges : RowsKept(rows', rows, q.to)
  BY <1>1, SameRowsKept
<1>5. Lasting(fetch, rows, now, expired)' /\ Lasting(kept, rows, now, expired)'
  BY <1>1, <1>2, <1>4, AnswersKept
<1> QED BY <1>1, <1>2, <1>3, <1>5 DEF RangeInv, TableOK, CleanStored, LatestStored

\* Expire: from the first deletion on nothing is claimed.
LEMMA ExpireRange == RangeInv /\ Expire => RangeInv'
<1> SUFFICES ASSUME RangeInv, Expire PROVE RangeInv'
  OBVIOUS
<1>1. PICK old \in SUBSET DOMAIN rows :
        /\ old # {} /\ rows' = [k \in DOMAIN rows \ old |-> rows[k]]
        /\ expired' = expired \cup {k[1] : k \in old}
        /\ UNCHANGED <<client, now, bar>>
  BY DEF Expire
<1>2. expired' # {}
  BY <1>1
<1>3. TableOK'
  BY <1>1 DEF RangeInv, TableOK
<1> QED BY <1>1, <1>2, <1>3 DEF RangeInv, Lasting, client

\* A start, and a step that changes nothing here.
LEMMA QuietRange ==
  ASSUME RangeInv, UNCHANGED <<rows, expired, client, now, bar>>
  PROVE  RangeInv'
  BY DEF RangeInv, TableOK, CleanStored, LatestStored, client

\* Each action preserves the invariant.
LEMMA RangeNext == RangeInv /\ [Next]_vars => RangeInv'
<1> SUFFICES ASSUME RangeInv, [Next]_vars PROVE RangeInv'
  OBVIOUS
<1>1. ASSUME NEW c \in Configs, NEW env \in Env, NEW ok \in Ddl, Start(c, env, ok)
      PROVE  RangeInv'
  BY <1>1, QuietRange DEF Start
<1>2. ASSUME NEW print \in Prints, NEW ts \in 0 .. MaxTs, Trade(print, ts)
      PROVE  RangeInv'
  BY <1>2, TradeRange
<1>3. ASSUME NEW shared \in BOOLEAN, Delta(shared)
      PROVE  RangeInv'
  BY <1>3, DeltaRange
<1>4. ASSUME NEW q \in Ranges, NEW token \in Tokens, Fetch(q, token)
      PROVE  RangeInv'
  BY <1>4, FetchRange
<1>5. ASSUME NEW ok \in BOOLEAN, Respond(ok)
      PROVE  RangeInv'
  BY <1>5, RespondRange
<1>6. CASE UNCHANGED vars
  BY <1>6, QuietRange DEF vars, table
<1> QED
  BY <1>1, <1>2, <1>3, <1>4, <1>5, <1>6, ExitRange, ElapseRange, ExpireRange DEF Next

\* Rows of a window that is no longer dirty, and answers read from them, are final.
THEOREM RangeInvariance == Spec => []RangeInv
  BY RangeInit, RangeNext, PTL DEF Spec

\* Whatever trades, deltas, restarts and slow reads follow, an answer sent as
\* immutable for a day is the answer of every later request, until the TTL deletes
\* rows (cluster_range, Immutable).
THEOREM CachedFinal == Spec => []CachedRangeFinal
<1>1. RangeInv => CachedRangeFinal
  BY DEF RangeInv, Lasting, CachedRangeFinal
<1> QED BY <1>1, RangeInvariance, PTL

-----------------------------------------------------------------------------
(* The trades of a window, and what its cells and its OHLC are over them.  *)

\* A trade as it is booked.
Booking == [window : Nat, price : Price, side : {t.side : t \in Prints}]

\* The positions in the history h of the trades of a window, of one of its
\* prices, and of one side of that price.
Traded(h, w) == {i \in DOMAIN h : h[i].window = w}
TradedAt(h, w, p) == {i \in DOMAIN h : h[i].window = w /\ h[i].price = p}
Sided(h, w, p, s) == {i \in DOMAIN h : h[i].window = w /\ h[i].price = p /\ h[i].side = s}

\* The cell c of a price holds exactly the trades of its bucket.
CellIs(c, h, w, p) ==
  /\ c.bid_qty = Cardinality(Sided(h, w, p, "Bid"))
  /\ c.ask_qty = Cardinality(Sided(h, w, p, "Ask"))
  /\ c.trades = Cardinality(TradedAt(h, w, p))

\* o is the OHLC of the trades of a window: the first, the last, the highest and
\* the lowest price.
OhlcIs(o, h, w) ==
  /\ \E i \in Traded(h, w) : h[i].price = o.open /\ \A j \in Traded(h, w) : i <= j
  /\ \E i \in Traded(h, w) : h[i].price = o.close /\ \A j \in Traded(h, w) : j <= i
  /\ \E i \in Traded(h, w) : h[i].price = o.high
  /\ \E i \in Traded(h, w) : h[i].price = o.low
  /\ \A i \in Traded(h, w) : o.low <= h[i].price /\ h[i].price <= o.high

\* A history with one trade more.
LEMMA AppendFacts ==
  ASSUME NEW h \in Seq(Booking), NEW t \in Booking
  PROVE  /\ Append(h, t) \in Seq(Booking)
         /\ Len(h) \in Nat /\ Len(h) + 1 \notin DOMAIN h
         /\ DOMAIN h = 1..Len(h)
         /\ DOMAIN Append(h, t) = DOMAIN h \cup {Len(h) + 1}
         /\ \A i \in DOMAIN h : Append(h, t)[i] = h[i] /\ h[i] \in Booking /\ i <= Len(h)
         /\ Append(h, t)[Len(h) + 1] = t
<1>1. /\ Append(h, t) \in Seq(Booking) /\ Len(Append(h, t)) = Len(h) + 1
      /\ \A i \in 1..Len(h) : Append(h, t)[i] = h[i]
      /\ Append(h, t)[Len(h) + 1] = t
  BY AppendProperties
<1>2. Len(h) \in Nat /\ DOMAIN h = 1..Len(h) /\ DOMAIN Append(h, t) = 1..(Len(h) + 1)
  BY <1>1
<1>3. 1..(Len(h) + 1) = (1..Len(h)) \cup {Len(h) + 1} /\ Len(h) + 1 \notin 1..Len(h)
  BY <1>2
<1> QED BY <1>1, <1>2, <1>3

\* Sets of positions of h are finite.
LEMMA PositionsFinite ==
  ASSUME NEW h \in Seq(Booking), NEW S \in SUBSET DOMAIN h
  PROVE  IsFiniteSet(S) /\ Cardinality(S) \in Nat /\ S \in SUBSET Nat
<1>1. Len(h) \in Nat /\ DOMAIN h = 1..Len(h)
  OBVIOUS
<1>2. IsFiniteSet(1..Len(h))
  BY <1>1, FS_Interval
<1>3. IsFiniteSet(S)
  BY <1>1, <1>2, FS_Subset
<1> QED BY <1>1, <1>3, FS_CardinalityType

\* Counting the trade that is appended.
LEMMA OneMore ==
  ASSUME NEW h \in Seq(Booking), NEW S \in SUBSET DOMAIN h
  PROVE  Cardinality(S \cup {Len(h) + 1}) = Cardinality(S) + 1
<1>1. IsFiniteSet(S)
  BY PositionsFinite
<1>2. Len(h) + 1 \notin S
  <2>1. Len(h) \in Nat /\ DOMAIN h = 1..Len(h)
    OBVIOUS
  <2> QED BY <2>1
<1> DEFINE n == Len(h) + 1
<1> HIDE DEF n
<1>3. Cardinality(S \cup {n}) = IF n \in S THEN Cardinality(S) ELSE Cardinality(S) + 1
  BY <1>1, FS_AddElement
<1> QED BY <1>2, <1>3 DEF n

\* The trade appended joins the sets of its own window, price and side only.
LEMMA TradedAppend ==
  ASSUME NEW h \in Seq(Booking), NEW t \in Booking, NEW w, NEW p, NEW s
  PROVE  LET g == Append(h, t)
             n == Len(h) + 1
         IN  /\ Traded(g, w) = IF w = t.window THEN Traded(h, w) \cup {n} ELSE Traded(h, w)
             /\ TradedAt(g, w, p) = IF w = t.window /\ p = t.price
                                      THEN TradedAt(h, w, p) \cup {n} ELSE TradedAt(h, w, p)
             /\ Sided(g, w, p, s) = IF w = t.window /\ p = t.price /\ s = t.side
                                      THEN Sided(h, w, p, s) \cup {n} ELSE Sided(h, w, p, s)
<1> DEFINE g == Append(h, t)
           n == Len(h) + 1
<1>1. /\ DOMAIN g = DOMAIN h \cup {n} /\ n \notin DOMAIN h
      /\ \A i \in DOMAIN h : g[i] = h[i]
      /\ g[n] = t
  BY AppendFacts
<1> HIDE DEF g, n
<1>2. Traded(g, w) = IF w = t.window THEN Traded(h, w) \cup {n} ELSE Traded(h, w)
  BY <1>1 DEF Traded
<1>3. TradedAt(g, w, p) = IF w = t.window /\ p = t.price
                            THEN TradedAt(h, w, p) \cup {n} ELSE TradedAt(h, w, p)
  BY <1>1 DEF TradedAt
<1>4. Sided(g, w, p, s) = IF w = t.window /\ p = t.price /\ s = t.side
                            THEN Sided(h, w, p, s) \cup {n} ELSE Sided(h, w, p, s)
  BY <1>1 DEF Sided
<1> QED BY <1>2, <1>3, <1>4 DEF g, n

\* A trade of another bucket leaves a cell exact.
LEMMA CellSame ==
  ASSUME NEW h \in Seq(Booking), NEW t \in Booking, NEW w, NEW p,
         w # t.window \/ p # t.price, NEW c, CellIs(c, h, w, p)
  PROVE  CellIs(c, Append(h, t), w, p)
<1> DEFINE g == Append(h, t)
<1>1. /\ TradedAt(g, w, p) = TradedAt(h, w, p)
      /\ Sided(g, w, p, "Bid") = Sided(h, w, p, "Bid")
      /\ Sided(g, w, p, "Ask") = Sided(h, w, p, "Ask")
  BY TradedAppend
<1> QED BY <1>1 DEF CellIs

\* A trade of another window leaves an OHLC exact.
LEMMA OhlcSame ==
  ASSUME NEW h \in Seq(Booking), NEW t \in Booking, NEW w,
         w # t.window, NEW o, OhlcIs(o, h, w)
  PROVE  OhlcIs(o, Append(h, t), w)
<1> DEFINE g == Append(h, t)
<1>1. Traded(g, w) = Traded(h, w)
  BY TradedAppend
<1>2. \A i \in Traded(h, w) : g[i] = h[i]
  BY AppendFacts DEF Traded
<1> HIDE DEF g
<1> QED BY <1>1, <1>2 DEF OhlcIs, g

\* A trade that is the first of its bucket, or one more.
LEMMA CellAdd ==
  ASSUME NEW h \in Seq(Booking), NEW t \in Booking, NEW c, NEW d,
         CellIs(c, h, t.window, t.price),
         d = [bid_qty |-> c.bid_qty + IF t.side = "Bid" THEN 1 ELSE 0,
              ask_qty |-> c.ask_qty + IF t.side = "Ask" THEN 1 ELSE 0,
              trades |-> c.trades + 1]
  PROVE  CellIs(d, Append(h, t), t.window, t.price)
<1> DEFINE g == Append(h, t)
           w == t.window
           p == t.price
           n == Len(h) + 1
<1> HIDE DEF g, w, p, n
<1>1. TradedAt(g, w, p) = TradedAt(h, w, p) \cup {n}
  BY TradedAppend DEF g, w, p, n
<1>2. ASSUME NEW s
      PROVE  Cardinality(Sided(g, w, p, s))
               = Cardinality(Sided(h, w, p, s)) + IF t.side = s THEN 1 ELSE 0
  <2>1. Sided(h, w, p, s) \in SUBSET DOMAIN h
    BY DEF Sided
  <2>2. Cardinality(Sided(h, w, p, s) \cup {n}) = Cardinality(Sided(h, w, p, s)) + 1
    BY <2>1, OneMore DEF n
  <2>3. Sided(g, w, p, s) = IF s = t.side THEN Sided(h, w, p, s) \cup {n} ELSE Sided(h, w, p, s)
    BY TradedAppend DEF g, w, p, n
  <2>4. Cardinality(Sided(h, w, p, s)) \in Nat
    BY <2>1, PositionsFinite
  <2> QED BY <2>2, <2>3, <2>4
<1>3. Cardinality(TradedAt(g, w, p)) = Cardinality(TradedAt(h, w, p)) + 1
  <2>1. TradedAt(h, w, p) \in SUBSET DOMAIN h
    BY DEF TradedAt
  <2> QED BY <1>1, <2>1, OneMore DEF n
<1>4. /\ c.bid_qty = Cardinality(Sided(h, w, p, "Bid"))
      /\ c.ask_qty = Cardinality(Sided(h, w, p, "Ask"))
      /\ c.trades = Cardinality(TradedAt(h, w, p))
  BY DEF CellIs, w, p
<1>5. /\ d.bid_qty = Cardinality(Sided(g, w, p, "Bid"))
      /\ d.ask_qty = Cardinality(Sided(g, w, p, "Ask"))
      /\ d.trades = Cardinality(TradedAt(g, w, p))
  BY <1>2, <1>3, <1>4
<1> QED BY <1>5 DEF CellIs, g, w, p

\* The cell of a bucket without trades is empty.
LEMMA NoTradesNoCell ==
  ASSUME NEW h, NEW w, NEW p, TradedAt(h, w, p) = {}
  PROVE  CellIs(NoCell, h, w, p)
<1>1. Sided(h, w, p, "Bid") = {} /\ Sided(h, w, p, "Ask") = {}
  BY DEF Sided, TradedAt
<1> QED BY <1>1, FS_EmptySet DEF CellIs, NoCell

\* The first trade of a window is its OHLC.
LEMMA OhlcFirst ==
  ASSUME NEW h \in Seq(Booking), NEW t \in Booking, Traded(h, t.window) = {}, NEW o,
         o = [open |-> t.price, close |-> t.price, high |-> t.price, low |-> t.price]
  PROVE  OhlcIs(o, Append(h, t), t.window)
<1> DEFINE g == Append(h, t)
           n == Len(h) + 1
<1>1. Traded(g, t.window) = {n}
  BY TradedAppend
<1>2. g[n] = t /\ n \in Nat /\ t.price \in Nat
  BY AppendFacts DEF Booking, Price
<1>3. o.open = t.price /\ o.close = t.price /\ o.high = t.price /\ o.low = t.price
  OBVIOUS
<1> DEFINE w == t.window
<1> HIDE DEF g, n, w
<1>4. Traded(g, w) = {n}
  BY <1>1 DEF w
<1>5. OhlcIs(o, g, w)
  BY <1>2, <1>3, <1>4 DEF OhlcIs
<1> QED BY <1>5 DEF g, w

\* Booking a trade on an exact OHLC gives an exact OHLC.
LEMMA OhlcAdd ==
  ASSUME NEW h \in Seq(Booking), NEW t \in Booking, NEW o \in Ohlc, NEW u,
         OhlcIs(o, h, t.window),
         u = [open |-> o.open, close |-> t.price,
              high |-> Max({o.high, t.price}), low |-> Min({o.low, t.price})]
  PROVE  OhlcIs(u, Append(h, t), t.window)
<1> DEFINE g == Append(h, t)
           n == Len(h) + 1
           T == Traded(h, t.window)
           G == Traded(g, t.window)
<1>1. G = T \cup {n}
  BY TradedAppend
<1>2. /\ g[n] = t /\ n \in Nat /\ t.price \in Price
      /\ \A i \in T : g[i] = h[i] /\ i \in Nat /\ i <= n /\ h[i].price \in Nat
  <2>1. g[n] = t /\ Len(h) \in Nat /\ DOMAIN h = 1..Len(h)
    BY AppendFacts
  <2>2. \A i \in T : i \in DOMAIN h /\ g[i] = h[i] /\ h[i] \in Booking
    BY AppendFacts DEF Traded
  <2>3. n \in Nat /\ \A i \in T : i \in Nat /\ i <= n
    BY <2>1, <2>2
  <2>4. t.price \in Price /\ \A i \in T : h[i].price \in Nat
    BY <2>2 DEF Booking, Price
  <2> QED BY <2>1, <2>2, <2>3, <2>4
<1>3. o.high \in Price /\ o.low \in Price
  BY DEF Ohlc
<1> DEFINE hi == Max({o.high, t.price})
           lo == Min({o.low, t.price})
<1>4. /\ hi \in {o.high, t.price} /\ hi >= o.high /\ hi >= t.price
      /\ lo \in {o.low, t.price} /\ lo <= o.low /\ lo <= t.price
  <2>1. (\E z \in {o.high, t.price} : \A y \in {o.high, t.price} : z >= y)
    BY <1>2, <1>3 DEF Price
  <2>2. (\E z \in {o.low, t.price} : \A y \in {o.low, t.price} : z =< y)
    BY <1>2, <1>3 DEF Price
  <2>3. hi \in {o.high, t.price} /\ \A y \in {o.high, t.price} : hi >= y
    BY <2>1 DEF Max
  <2>4. lo \in {o.low, t.price} /\ \A y \in {o.low, t.price} : lo =< y
    BY <2>2 DEF Min
  <2> QED BY <2>3, <2>4
<1> HIDE DEF g, n, T, G, hi, lo
<1>5. u.open = o.open /\ u.close = t.price /\ u.high = hi /\ u.low = lo
  BY DEF hi, lo
<1>6. /\ \E i \in T : h[i].price = o.open /\ \A j \in T : i <= j
      /\ \E i \in T : h[i].price = o.high
      /\ \E i \in T : h[i].price = o.low
      /\ \A i \in T : o.low <= h[i].price /\ h[i].price <= o.high
  BY DEF OhlcIs, T
<1>7. \E i \in G : g[i].price = u.open /\ \A j \in G : i <= j
  BY <1>1, <1>2, <1>5, <1>6
<1>8. \E i \in G : g[i].price = u.close /\ \A j \in G : j <= i
  BY <1>1, <1>2, <1>5
<1>9. (\E i \in G : g[i].price = u.high) /\ (\E i \in G : g[i].price = u.low)
  BY <1>1, <1>2, <1>4, <1>5, <1>6
<1>10. \A i \in G : u.low <= g[i].price /\ g[i].price <= u.high
  <2>1. hi \in Nat /\ lo \in Nat /\ o.high \in Nat /\ o.low \in Nat
    BY <1>2, <1>3, <1>4 DEF Price
  <2> QED BY <1>1, <1>2, <1>4, <1>5, <1>6, <2>1
<1> QED BY <1>7, <1>8, <1>9, <1>10 DEF OhlcIs, G, g

\* w is the start of a base window.
Aligned(w) == StartOfInterval(w, BaseTf) = w

\* The window of a trade starts at a multiple of the timeframe.
LEMMA StartAligned ==
  ASSUME NEW ts \in Nat
  PROVE  Aligned(StartOfInterval(ts, BaseTf))
<1> DEFINE n == BaseTf
           x == ts \div n
<1>1. n \in Nat \ {0}
  BY TimeframeAssumption
<1> HIDE DEF n
<1>2. x \in Nat
  BY <1>1
<1> HIDE DEF x
<1>3. x * n \in Nat
  BY <1>1, <1>2
<1> DEFINE w == x * n
           y == w \div n
<1>4. y \in Nat
  BY <1>1, <1>3
<1>5. y * n <= w /\ w < y * n + n
  BY <1>1, <1>3
<1> HIDE DEF y
<1>6. x <= y
  <2> SUFFICES ASSUME x >= y + 1 PROVE FALSE
    BY <1>2, <1>4
  <2>1. PICK d \in Nat : x = y + 1 + d
    <3>1. x - y - 1 \in Nat /\ x = y + 1 + (x - y - 1)
      BY <1>2, <1>4
    <3> QED BY <3>1
  <2>2. x * n = y * n + n + d * n
    BY <1>1, <1>4, <2>1
  <2>3. d * n \in Nat /\ y * n \in Nat
    BY <1>1, <1>4, <2>1
  <2> QED BY <1>1, <1>5, <2>2, <2>3
<1>7. y <= x
  <2> SUFFICES ASSUME y >= x + 1 PROVE FALSE
    BY <1>2, <1>4
  <2>1. PICK d \in Nat : y = x + 1 + d
    <3>1. y - x - 1 \in Nat /\ y = x + 1 + (y - x - 1)
      BY <1>2, <1>4
    <3> QED BY <3>1
  <2>2. y * n = x * n + n + d * n
    BY <1>1, <1>2, <2>1
  <2>3. d * n \in Nat /\ x * n \in Nat
    BY <1>1, <1>2, <2>1
  <2> QED BY <1>1, <1>5, <2>2, <2>3
<1>8. y = x
  BY <1>2, <1>4, <1>6, <1>7
<1>9. StartOfInterval(w, n) = w
  BY <1>8 DEF StartOfInterval, y
<1> QED BY <1>9 DEF Aligned, StartOfInterval, x, n

\* The open window b is the footprint of its trades in h.
BarIs(b, h) ==
  /\ \A p \in DOMAIN b.cells : CellIs(b.cells[p], h, b.window, p)
  /\ \A i \in Traded(h, b.window) : h[i].price \in DOMAIN b.cells
  /\ OhlcIs(b.ohlc, h, b.window)

\* Booking keeps the open window the footprint of its trades, from the first on.
LEMMA BookedExact ==
  ASSUME NEW h \in Seq(Booking), NEW t \in Booking, NEW b,
         \/ b = NoBar /\ Traded(h, t.window) = {}
         \/ b # NoBar /\ OpenBar(b) /\ b.window = t.window /\ BarIs(b, h)
  PROVE  BarIs(Booked(b, t), Append(h, t))
<1> DEFINE c == Booked(b, t)
           g == Append(h, t)
           w == t.window
           k == CellOf(b, t.price)
           new == [bid_qty |-> k.bid_qty + IF t.side = "Bid" THEN 1 ELSE 0,
                   ask_qty |-> k.ask_qty + IF t.side = "Ask" THEN 1 ELSE 0,
                   trades |-> k.trades + 1]
           cells == [p \in DOMAIN b.cells \cup {t.price} |->
                       IF p # t.price THEN b.cells[p] ELSE new]
           o == b.ohlc
           first == [open |-> t.price, close |-> t.price, high |-> t.price, low |-> t.price]
           next == [open |-> o.open, close |-> t.price,
                    high |-> Max({o.high, t.price}), low |-> Min({o.low, t.price})]
           ohlc == IF b = NoBar THEN first ELSE next
<1>1. c = [window |-> w, cells |-> cells, ohlc |-> ohlc, dirty |-> b.dirty \cup {t.price}]
  BY Zenon DEF Booked
<1>2. c.window = w /\ c.cells = cells /\ c.ohlc = ohlc
  BY <1>1
<1>3. /\ \A p \in DOMAIN b.cells : CellIs(b.cells[p], h, w, p)
      /\ \A i \in Traded(h, w) : h[i].price \in DOMAIN b.cells
  <2>1. CASE b = NoBar /\ Traded(h, w) = {}
    BY <2>1 DEF NoBar
  <2>2. CASE b.window = w /\ BarIs(b, h)
    BY <2>2 DEF BarIs
  <2> QED BY <2>1, <2>2
<1>4. CellIs(k, h, w, t.price)
  <2>1. CASE t.price \in DOMAIN b.cells
    BY <1>3, <2>1 DEF CellOf
  <2>2. CASE t.price \notin DOMAIN b.cells
    <3>1. TradedAt(h, w, t.price) = {}
      BY <1>3, <2>2 DEF Traded, TradedAt
    <3>2. k = NoCell
      BY <2>2 DEF CellOf
    <3> QED BY <3>1, <3>2, NoTradesNoCell
  <2> QED BY <2>1, <2>2
<1>5. CellIs(new, g, w, t.price)
  <2> HIDE DEF k
  <2> QED BY <1>4, CellAdd
<1>6. \A p \in DOMAIN cells : CellIs(cells[p], g, w, p)
  <2> TAKE p \in DOMAIN cells
  <2>1. CASE p = t.price
    BY <1>5, <2>1
  <2>2. CASE p # t.price
    <3>1. p \in DOMAIN b.cells /\ cells[p] = b.cells[p]
      BY <2>2
    <3>2. CellIs(b.cells[p], h, w, p)
      BY <1>3, <3>1
    <3>3. CellIs(b.cells[p], g, w, p)
      BY <2>2, <3>2, CellSame
    <3> QED BY <3>1, <3>3
  <2> QED BY <2>1, <2>2
<1>7. \A i \in Traded(g, w) : g[i].price \in DOMAIN cells
  <2>1. DOMAIN cells = DOMAIN b.cells \cup {t.price}
    OBVIOUS
  <2>2. Traded(g, w) = Traded(h, w) \cup {Len(h) + 1}
    BY TradedAppend
  <2>3. g[Len(h) + 1] = t /\ \A i \in Traded(h, w) : g[i] = h[i]
    BY AppendFacts DEF Traded
  <2> HIDE DEF cells, g
  <2> QED BY <1>3, <2>1, <2>2, <2>3
<1>8. OhlcIs(ohlc, g, w)
  <2>1. CASE b = NoBar /\ Traded(h, w) = {}
    <3>1. ohlc = first
      BY <2>1
    <3> HIDE DEF ohlc
    <3>2. OhlcIs(ohlc, g, w)
      BY <2>1, <3>1, OhlcFirst
    <3> QED BY <3>2
  <2>2. CASE b # NoBar /\ OpenBar(b) /\ b.window = w /\ BarIs(b, h)
    <3>1. ohlc = next
      BY <2>2
    <3>2. o \in Ohlc /\ OhlcIs(o, h, w)
      BY <2>2 DEF OpenBar, BarIs
    <3> HIDE DEF ohlc, o
    <3>3. OhlcIs(ohlc, g, w)
      BY <3>1, <3>2, OhlcAdd
    <3> QED BY <3>3
  <2> QED BY <2>1, <2>2
<1> HIDE DEF c, cells, ohlc, g
<1>9. BarIs(c, g)
  BY <1>2, <1>6, <1>7, <1>8 DEF BarIs
<1> QED BY <1>9 DEF c, g

\* Only aligned windows are booked.
HistoryOK ==
  /\ accepted \in Seq(Booking)
  /\ \A i \in DOMAIN accepted : Aligned(accepted[i].window)

\* A bucket some trade was booked on.
HasTrade(k) == \E i \in DOMAIN accepted : k = <<accepted[i].window, accepted[i].price>>

\* No row, and no bucket of the open window, without a trade.
RowsBooked ==
  /\ \A k \in DOMAIN rows : HasTrade(k)
  /\ \A p \in DOMAIN bar.cells : HasTrade(<<bar.window, p>>)

\* A trade booked above the open window is torn, or too old for a trade of its
\* window to be taken again: no window is opened a second time after a restart
\* unless it is torn.
Behind ==
  \A i \in DOMAIN accepted :
    \/ accepted[i].window \in torn
    \/ accepted[i].window <= bar.window
    \/ accepted[i].window + BaseTf <= now - MaxLag

\* Trades are booked in the order of their windows, except after torn ones.
InOrder ==
  \A i, j \in DOMAIN accepted :
    i < j /\ accepted[i].window \notin torn => accepted[i].window <= accepted[j].window

\* The open window is exact unless a restart has torn it, and the rows deltas have
\* stored of it are of its buckets.
BarExact ==
  bar # NoBar /\ bar.window \notin torn =>
    /\ BarIs(bar, accepted)
    /\ \A k \in DOMAIN rows : k[1] = bar.window => k[2] \in DOMAIN bar.cells

\* The rows r of a window are those of its trades: every bucket has a row, and
\* every row has the bucket's sums, the window's final OHLC and the newest
\* ingested_at.
WindowExact(r, h, w) ==
  /\ \A i \in Traded(h, w) : <<w, h[i].price>> \in DOMAIN r
  /\ \A k \in DOMAIN r : k[1] = w =>
       CellIs(r[k], h, w, k[2]) /\ OhlcIs(r[k], h, w) /\ r[k].newest

\* Every window that has been traded, is not open, and was neither torn nor
\* expired is exact in ClickHouse.
RowsExact ==
  \A i \in DOMAIN accepted :
    LET w == accepted[i].window
    IN  w \notin torn \cup expired /\ w # bar.window => WindowExact(rows, accepted, w)

\* The inductive invariant: RowsExact needs the open window to be exact until it
\* is stored, and Behind and InOrder tell why a settled window is never opened again.
ExactInv == RangeInv /\ HistoryOK /\ RowsBooked /\ Behind /\ InOrder /\ BarExact /\ RowsExact

\* A trade of another window leaves the rows of a window exact.
LEMMA WindowSame ==
  ASSUME NEW h \in Seq(Booking), NEW t \in Booking, NEW w, w # t.window, NEW r,
         WindowExact(r, h, w)
  PROVE  WindowExact(r, Append(h, t), w)
<1> DEFINE g == Append(h, t)
<1>1. Traded(g, w) = Traded(h, w)
  BY TradedAppend
<1>2. \A i \in Traded(h, w) : g[i] = h[i]
  BY AppendFacts DEF Traded
<1>3. ASSUME NEW k \in DOMAIN r, k[1] = w
      PROVE  CellIs(r[k], g, w, k[2]) /\ OhlcIs(r[k], g, w) /\ r[k].newest
  <2>1. CellIs(r[k], h, w, k[2]) /\ OhlcIs(r[k], h, w) /\ r[k].newest
    BY <1>3 DEF WindowExact
  <2> QED BY <2>1, CellSame, OhlcSame
<1> HIDE DEF g
<1>4. \A i \in Traded(g, w) : <<w, g[i].price>> \in DOMAIN r
  BY <1>1, <1>2 DEF WindowExact
<1> QED BY <1>3, <1>4 DEF WindowExact, g

\* Storing a window leaves the rows of the others exact.
LEMMA OtherWindowExact ==
  ASSUME TableOK, NEW b, NEW P, NEW shared, NEW h, NEW w, w # b.window,
         WindowExact(rows, h, w)
  PROVE  WindowExact(Stored(b, P, shared), h, w)
<1> DEFINE S == Stored(b, P, shared)
           New == {b.window} \X P
<1>1. DOMAIN S = DOMAIN rows \cup New
  BY DEF Stored
<1>2. ASSUME NEW k \in DOMAIN S, k[1] = w
      PROVE  CellIs(S[k], h, w, k[2]) /\ OhlcIs(S[k], h, w) /\ S[k].newest
  <2>1. k \notin New
    BY <1>2
  <2>2. k \in DOMAIN rows
    BY <1>1, <2>1
  <2>3. /\ S[k].bid_qty = rows[k].bid_qty /\ S[k].ask_qty = rows[k].ask_qty
        /\ S[k].trades = rows[k].trades /\ S[k].open = rows[k].open
        /\ S[k].close = rows[k].close /\ S[k].high = rows[k].high /\ S[k].low = rows[k].low
        /\ S[k].newest <=> rows[k].newest /\ (shared \/ k[1] # b.window)
    BY <2>1, <2>2, StoredOld
  <2>4. CellIs(rows[k], h, w, k[2]) /\ OhlcIs(rows[k], h, w) /\ rows[k].newest
    BY <1>2, <2>2 DEF WindowExact
  <2> HIDE DEF S, New
  <2>5. CellIs(S[k], h, w, k[2])
    BY <2>3, <2>4 DEF CellIs
  <2>6. OhlcIs(S[k], h, w)
    BY <2>3, <2>4 DEF OhlcIs
  <2>7. S[k].newest
    BY <1>2, <2>3, <2>4
  <2> QED BY <2>5, <2>6, <2>7
<1> HIDE DEF S, New
<1>3. \A i \in Traded(h, w) : <<w, h[i].price>> \in DOMAIN S
  BY <1>1 DEF WindowExact
<1> QED BY <1>2, <1>3 DEF WindowExact, S

\* Storing an exact open window whole makes its rows exact, whatever deltas stored
\* of it before.
LEMMA CloseExact ==
  ASSUME TableOK, NEW b, OpenBar(b), NEW h, BarIs(b, h), NEW shared,
         \A k \in DOMAIN rows : k[1] = b.window => k[2] \in DOMAIN b.cells,
         \A k \in DOMAIN rows : k = <<k[1], k[2]>>
  PROVE  WindowExact(Stored(b, DOMAIN b.cells, shared), h, b.window)
<1> DEFINE P == DOMAIN b.cells
           S == Stored(b, P, shared)
           New == {b.window} \X P
           w == b.window
<1>1. DOMAIN S = DOMAIN rows \cup New
  BY DEF Stored
<1>2. ASSUME NEW k \in DOMAIN S, k[1] = w
      PROVE  CellIs(S[k], h, w, k[2]) /\ OhlcIs(S[k], h, w) /\ S[k].newest
  <2>1. k[2] \in P /\ k = <<w, k[2]>>
    BY <1>1, <1>2
  <2> DEFINE p == k[2]
  <2>2. S[k] = [bid_qty |-> b.cells[p].bid_qty, ask_qty |-> b.cells[p].ask_qty,
                trades |-> b.cells[p].trades, newest |-> TRUE,
                open |-> b.ohlc.open, close |-> b.ohlc.close,
                high |-> b.ohlc.high, low |-> b.ohlc.low]
    <3> HIDE DEF P, p
    <3>1. p \in P /\ k = <<b.window, p>>
      BY <2>1 DEF p
    <3> QED BY <3>1, StoredNew
  <2>3. CellIs(b.cells[p], h, w, p) /\ OhlcIs(b.ohlc, h, w)
    BY <2>1 DEF BarIs
  <2> HIDE DEF S, p, w
  <2>4. /\ S[k].bid_qty = b.cells[p].bid_qty /\ S[k].ask_qty = b.cells[p].ask_qty
        /\ S[k].trades = b.cells[p].trades /\ S[k].newest
        /\ S[k].open = b.ohlc.open /\ S[k].close = b.ohlc.close
        /\ S[k].high = b.ohlc.high /\ S[k].low = b.ohlc.low
    BY <2>2
  <2>5. CellIs(S[k], h, w, p)
    BY <2>3, <2>4 DEF CellIs
  <2>6. OhlcIs(S[k], h, w)
    BY <2>3, <2>4 DEF OhlcIs
  <2> QED BY <2>4, <2>5, <2>6 DEF p
<1>3. \A i \in Traded(h, w) : <<w, h[i].price>> \in DOMAIN S
  BY <1>1 DEF BarIs
<1> HIDE DEF S, w
<1>4. WindowExact(S, h, w)
  BY <1>2, <1>3 DEF WindowExact
<1> QED BY <1>4 DEF S, w

\* Nothing is booked or stored at first.
LEMMA ExactInit == Init => ExactInv
<1> SUFFICES ASSUME Init PROVE ExactInv
  OBVIOUS
<1>1. RangeInv
  BY RangeInit
<1>2. /\ accepted = <<>> /\ DOMAIN accepted = {} /\ bar = NoBar
      /\ DOMAIN rows = {} /\ DOMAIN bar.cells = {}
  BY DEF Init, NoBar
<1>3. HistoryOK /\ RowsBooked /\ Behind /\ InOrder /\ BarExact /\ RowsExact
  BY <1>2 DEF HistoryOK, RowsBooked, Behind, InOrder, BarExact, RowsExact
<1> QED BY <1>1, <1>3 DEF ExactInv

\* Rows are keyed by window and price.
LEMMA RowsPairs ==
  ASSUME RowsBooked
  PROVE  \A k \in DOMAIN rows : k = <<k[1], k[2]>>
  BY DEF RowsBooked, HasTrade

\* A trade is booked on the open window, or opens a later one and stores the
\* open one whole.
LEMMA TradeExact ==
  ASSUME ExactInv, NEW print \in Prints, NEW ts \in 0 .. MaxTs, Trade(print, ts)
  PROVE  ExactInv'
<1> DEFINE t == [window |-> StartOfInterval(ts, BaseTf), price |-> print.price,
                 side |-> print.side]
           from == IF t.window = bar.window THEN bar ELSE NoBar
           n == Len(accepted) + 1
           w0 == bar.window
<1>1. /\ ts \in 0 .. now /\ now - ts <= MaxLag
      /\ t.window >= bar.window
      /\ bar' = Booked(from, t)
      /\ rows' = IF bar # NoBar /\ t.window > bar.window
                   THEN Stored(bar, DOMAIN bar.cells, FALSE) ELSE rows
      /\ accepted' = Append(accepted, t)
      /\ UNCHANGED <<expired, torn, now>>
  BY Zenon DEF Trade
<1>2. /\ now \in Nat /\ ts \in Nat /\ BaseTf \in Nat \ {0} /\ MaxLag \in Nat
      /\ TableOK /\ (bar = NoBar \/ OpenBar(bar))
  BY <1>1, TimeframeAssumption, ServerAssumption DEF ExactInv, RangeInv
<1>3. /\ t \in Booking /\ t.window \in Nat /\ Aligned(t.window)
      /\ t.price \in Price /\ ts < t.window + BaseTf
  <2>1. t.window = StartOfInterval(ts, BaseTf) /\ t.price = print.price /\ t.side = print.side
    OBVIOUS
  <2>2. print.price \in Price
    BY ServerAssumption DEF Price
  <2>3. StartOfInterval(ts, BaseTf) \in Nat /\ ts < StartOfInterval(ts, BaseTf) + BaseTf
    BY <1>2, WindowStart
  <2>4. Aligned(StartOfInterval(ts, BaseTf))
    BY <1>2, StartAligned
  <2>5. t \in Booking
    BY <2>2, <2>3 DEF Booking
  <2> HIDE DEF t
  <2> QED BY <2>1, <2>2, <2>3, <2>4, <2>5
<1> HIDE DEF t
<1>4. /\ accepted \in Seq(Booking) /\ accepted' \in Seq(Booking)
      /\ Len(accepted) \in Nat /\ n \notin DOMAIN accepted
      /\ DOMAIN accepted' = DOMAIN accepted \cup {n}
      /\ \A i \in DOMAIN accepted :
           /\ accepted'[i] = accepted[i] /\ accepted[i] \in Booking /\ i <= Len(accepted)
           /\ accepted[i].window \in Nat /\ i \in Nat
      /\ accepted'[n] = t
  <2>1. accepted \in Seq(Booking)
    BY DEF ExactInv, HistoryOK
  <2>2. /\ accepted' \in Seq(Booking)
        /\ Len(accepted) \in Nat /\ n \notin DOMAIN accepted
        /\ DOMAIN accepted = 1..Len(accepted)
        /\ DOMAIN accepted' = DOMAIN accepted \cup {n}
        /\ \A i \in DOMAIN accepted :
             accepted'[i] = accepted[i] /\ accepted[i] \in Booking /\ i <= Len(accepted)
        /\ accepted'[n] = t
    BY <1>1, <1>3, <2>1, AppendFacts
  <2>3. \A i \in DOMAIN accepted : i \in Nat
    BY <2>2
  <2>4. \A i \in DOMAIN accepted : accepted[i].window \in Nat
    BY <2>2 DEF Booking
  <2> HIDE DEF n
  <2> QED BY <2>1, <2>2, <2>3, <2>4
<1> HIDE DEF n
<1>5. /\ bar'.window = t.window
      /\ DOMAIN bar'.cells = DOMAIN from.cells \cup {t.price}
  <2>1. from = NoBar \/ OpenBar(from)
    BY <1>2
  <2> HIDE DEF from
  <2> QED BY <1>1, <1>3, <2>1, BookedOpen
<1>6. bar.window \in Int /\ (bar # NoBar => bar.window \in Nat) /\ (bar = NoBar => bar.window = -1)
  BY <1>2 DEF OpenBar, NoBar
<1>7. ASSUME NEW i \in DOMAIN accepted, accepted[i].window + BaseTf <= now - MaxLag
      PROVE  accepted[i].window < t.window
  BY <1>1, <1>2, <1>3, <1>4, <1>7
<1>8. ASSUME t.window # bar.window, t.window \notin torn
      PROVE  Traded(accepted, t.window) = {}
  <2> SUFFICES ASSUME NEW i \in DOMAIN accepted, accepted[i].window = t.window
               PROVE  FALSE
    BY DEF Traded
  <2>1. accepted[i].window <= bar.window \/ accepted[i].window + BaseTf <= now - MaxLag
    BY <1>8 DEF ExactInv, Behind
  <2>2. ~(accepted[i].window <= bar.window)
    BY <1>1, <1>3, <1>6, <1>8
  <2> QED BY <1>3, <1>7, <2>1, <2>2
<1>9. ASSUME NEW k, HasTrade(k) PROVE HasTrade(k)'
  BY <1>4, <1>9 DEF HasTrade
<1>10. RowsBooked'
  <2>1. ASSUME NEW k \in DOMAIN rows' PROVE HasTrade(k)'
    <3>1. HasTrade(k)
      <4>1. CASE k \in DOMAIN rows
        BY <4>1 DEF ExactInv, RowsBooked
      <4>2. CASE k \notin DOMAIN rows
        <5>1. PICK p \in DOMAIN bar.cells : k = <<bar.window, p>>
          BY <1>1, <4>2 DEF Stored
        <5> QED BY <5>1 DEF ExactInv, RowsBooked
      <4> QED BY <4>1, <4>2
    <3> QED BY <1>9, <3>1
  <2>2. ASSUME NEW p \in DOMAIN bar'.cells PROVE HasTrade(<<bar.window, p>>)'
    <3>1. CASE p = t.price
      BY <1>4, <1>5, <3>1 DEF HasTrade
    <3>2. CASE p # t.price
      <4>1. p \in DOMAIN from.cells
        BY <1>5, <3>2
      <4>2. from = bar /\ t.window = bar.window
        BY <4>1 DEF NoBar
      <4>3. HasTrade(<<bar.window, p>>)
        BY <4>1, <4>2 DEF ExactInv, RowsBooked
      <4>4. bar'.window = bar.window
        BY <1>5, <4>2
      <4> QED BY <1>9, <4>3, <4>4
    <3> QED BY <3>1, <3>2
  <2> QED BY <2>1, <2>2 DEF RowsBooked
<1>11. HistoryOK'
  BY <1>3, <1>4 DEF ExactInv, HistoryOK
<1>12. Behind'
  <2> SUFFICES ASSUME NEW i \in DOMAIN accepted'
               PROVE  \/ accepted'[i].window \in torn
                      \/ accepted'[i].window <= bar'.window
                      \/ accepted'[i].window + BaseTf <= now - MaxLag
    BY <1>1 DEF Behind
  <2>1. CASE i = n
    BY <1>3, <1>4, <1>5, <2>1
  <2>2. CASE i # n
    <3>1. i \in DOMAIN accepted /\ accepted'[i] = accepted[i] /\ accepted[i].window \in Nat
      BY <1>4, <2>2
    <3>2. \/ accepted[i].window \in torn
          \/ accepted[i].window <= bar.window
          \/ accepted[i].window + BaseTf <= now - MaxLag
      BY <3>1 DEF ExactInv, Behind
    <3> QED BY <1>1, <1>3, <1>5, <1>6, <3>1, <3>2
  <2> QED BY <2>1, <2>2
<1>13. InOrder'
  <2> SUFFICES ASSUME NEW i \in DOMAIN accepted', NEW j \in DOMAIN accepted', i < j,
                      accepted'[i].window \notin torn
               PROVE  accepted'[i].window <= accepted'[j].window
    BY <1>1 DEF InOrder
  <2>1. i # n
    BY <1>4 DEF n
  <2>2. i \in DOMAIN accepted /\ accepted'[i] = accepted[i] /\ accepted[i].window \in Nat
    BY <1>4, <2>1
  <2>3. CASE j = n
    <3>1. \/ accepted[i].window <= bar.window
          \/ accepted[i].window + BaseTf <= now - MaxLag
      BY <2>2 DEF ExactInv, Behind
    <3>2. accepted'[j].window = t.window
      BY <1>4, <2>3
    <3>3. CASE accepted[i].window <= bar.window
      BY <1>1, <1>3, <1>6, <2>2, <3>2, <3>3
    <3>4. CASE accepted[i].window + BaseTf <= now - MaxLag
      BY <1>3, <1>7, <2>2, <3>2, <3>4
    <3> QED BY <3>1, <3>3, <3>4
  <2>4. CASE j # n
    <3>1. j \in DOMAIN accepted /\ accepted'[j] = accepted[j]
      BY <1>4, <2>4
    <3> QED BY <2>2, <3>1 DEF ExactInv, InOrder
  <2> QED BY <2>3, <2>4
<1>14. BarExact'
  <2> SUFFICES ASSUME t.window \notin torn
               PROVE  /\ BarIs(bar', accepted')
                      /\ \A k \in DOMAIN rows' : k[1] = t.window => k[2] \in DOMAIN bar'.cells
    BY <1>1, <1>5 DEF BarExact
  <2>1. CASE t.window = bar.window
    <3>1. bar # NoBar /\ from = bar
      BY <1>3, <1>6, <2>1
    <3>2. BarIs(bar, accepted) /\ OpenBar(bar)
          /\ \A k \in DOMAIN rows : k[1] = bar.window => k[2] \in DOMAIN bar.cells
      BY <1>2, <2>1, <3>1 DEF ExactInv, BarExact
    <3>3. BarIs(bar', accepted')
      <4>1. BarIs(Booked(bar, t), Append(accepted, t))
        BY <1>3, <1>4, <2>1, <3>1, <3>2, BookedExact
      <4> QED BY <1>1, <3>1, <4>1
    <3>4. ~(t.window > bar.window)
      BY <1>3, <2>1
    <3>5. rows' = rows
      BY <1>1, <3>4, Zenon
    <3> QED BY <1>5, <2>1, <3>1, <3>2, <3>3, <3>5
  <2>2. CASE t.window # bar.window
    <3>1. from = NoBar /\ Traded(accepted, t.window) = {}
      BY <1>8, <2>2
    <3>2. BarIs(bar', accepted')
      <4>1. BarIs(Booked(NoBar, t), Append(accepted, t))
        BY <1>3, <1>4, <3>1, BookedExact
      <4> QED BY <1>1, <3>1, <4>1
    <3>3. ASSUME NEW k \in DOMAIN rows', k[1] = t.window PROVE FALSE
      <4>1. k \in DOMAIN rows
        BY <1>1, <2>2, <3>3 DEF Stored
      <4>2. HasTrade(k)
        BY <4>1 DEF ExactInv, RowsBooked
      <4> QED BY <3>1, <3>3, <4>2 DEF HasTrade, Traded
    <3> QED BY <3>2, <3>3
  <2> QED BY <2>1, <2>2
<1>15. RowsExact'
  <2> SUFFICES ASSUME NEW i \in DOMAIN accepted', accepted'[i].window \notin torn \cup expired,
                      accepted'[i].window # t.window
               PROVE  WindowExact(rows', accepted', accepted'[i].window)
    BY <1>1, <1>5 DEF RowsExact
  <2> DEFINE w == accepted[i].window
  <2>1. i \in DOMAIN accepted /\ accepted'[i] = accepted[i] /\ w \in Nat
    BY <1>4
  <2>2. w \notin torn \cup expired /\ w # t.window
    BY <2>1
  <2>3. WindowExact(rows', accepted, w)
    <3> DEFINE shared == FALSE
               P == DOMAIN bar.cells
    <3>1. CASE w # bar.window
      <4>1. WindowExact(rows, accepted, w)
        BY <2>1, <2>2, <3>1 DEF ExactInv, RowsExact
      <4>2. rows' = rows \/ rows' = Stored(bar, P, shared)
        BY <1>1, Zenon
      <4> HIDE DEF P, shared, w
      <4>3. WindowExact(Stored(bar, P, shared), accepted, w)
        BY <1>2, <3>1, <4>1, OtherWindowExact
      <4> QED BY <4>1, <4>2, <4>3
    <3>2. CASE w = bar.window
      <4>1. bar # NoBar /\ OpenBar(bar)
        BY <1>2, <1>6, <2>1, <3>2
      <4>2. /\ BarIs(bar, accepted)
            /\ \A k \in DOMAIN rows : k[1] = bar.window => k[2] \in DOMAIN bar.cells
        BY <2>2, <3>2, <4>1 DEF ExactInv, BarExact
      <4>3. t.window > bar.window
        BY <1>1, <1>3, <1>6, <2>2, <3>2
      <4>4. rows' = Stored(bar, DOMAIN bar.cells, shared)
        BY <1>1, <4>1, <4>3, Zenon
      <4>5. \A k \in DOMAIN rows : k = <<k[1], k[2]>>
        BY RowsPairs DEF ExactInv
      <4> HIDE DEF shared, w
      <4>6. WindowExact(Stored(bar, DOMAIN bar.cells, shared), accepted, bar.window)
        BY <1>2, <4>1, <4>2, <4>5, CloseExact
      <4> QED BY <3>2, <4>4, <4>6
    <3> QED BY <3>1, <3>2
  <2> HIDE DEF w
  <2>4. WindowExact(rows', Append(accepted, t), w)
    BY <1>3, <1>4, <2>2, <2>3, WindowSame
  <2> QED BY <1>1, <2>1, <2>4 DEF w
<1>16. RangeInv'
  BY TradeRange DEF ExactInv
<1> QED BY <1>10, <1>11, <1>12, <1>13, <1>14, <1>15, <1>16 DEF ExactInv

\* Delta: it touches the rows of the open window only.
LEMMA DeltaExact ==
  ASSUME ExactInv, NEW shared \in BOOLEAN, Delta(shared)
  PROVE  ExactInv'
<1> DEFINE P == bar.dirty
<1>1. /\ P # {} /\ rows' = Stored(bar, P, shared)
      /\ bar' = [bar EXCEPT !.dirty = {}]
      /\ UNCHANGED <<torn, expired, now, accepted>>
  BY DEF Delta
<1>2. TableOK /\ bar # NoBar /\ OpenBar(bar)
  BY <1>1 DEF ExactInv, RangeInv, NoBar
<1>3. /\ bar'.window = bar.window /\ bar'.cells = bar.cells /\ bar'.ohlc = bar.ohlc
      /\ P \subseteq DOMAIN bar.cells
  BY <1>1, <1>2 DEF OpenBar
<1>4. ASSUME NEW k \in DOMAIN rows', k \notin DOMAIN rows
      PROVE  \E p \in DOMAIN bar.cells : k = <<bar.window, p>>
  BY <1>1, <1>3, <1>4 DEF Stored
<1> HIDE DEF P
<1>5. RowsBooked'
  <2>1. ASSUME NEW k \in DOMAIN rows' PROVE HasTrade(k)
    BY <1>4 DEF ExactInv, RowsBooked
  <2>2. ASSUME NEW k, HasTrade(k) PROVE HasTrade(k)'
    BY <1>1, <2>2 DEF HasTrade
  <2> QED BY <1>3, <2>1, <2>2 DEF ExactInv, RowsBooked
<1>6. HistoryOK' /\ Behind' /\ InOrder'
  BY <1>1, <1>3 DEF ExactInv, HistoryOK, Behind, InOrder
<1>7. BarExact'
  <2> SUFFICES ASSUME bar.window \notin torn
               PROVE  /\ BarIs(bar', accepted)
                      /\ \A k \in DOMAIN rows' : k[1] = bar.window => k[2] \in DOMAIN bar.cells
    BY <1>1, <1>3 DEF BarExact
  <2>1. /\ BarIs(bar, accepted)
        /\ \A k \in DOMAIN rows : k[1] = bar.window => k[2] \in DOMAIN bar.cells
    BY <1>2 DEF ExactInv, BarExact
  <2>2. BarIs(bar', accepted)
    BY <1>3, <2>1 DEF BarIs
  <2> QED BY <1>4, <2>1, <2>2
<1>8. RowsExact'
  <2> SUFFICES ASSUME NEW i \in DOMAIN accepted, accepted[i].window \notin torn \cup expired,
                      accepted[i].window # bar.window
               PROVE  WindowExact(rows', accepted, accepted[i].window)
    BY <1>1, <1>3 DEF RowsExact
  <2> DEFINE w == accepted[i].window
  <2>1. WindowExact(rows, accepted, w)
    BY DEF ExactInv, RowsExact
  <2> HIDE DEF w
  <2> QED BY <1>1, <1>2, <2>1, OtherWindowExact DEF w
<1>9. RangeInv'
  BY DeltaRange DEF ExactInv
<1> QED BY <1>5, <1>6, <1>7, <1>8, <1>9 DEF ExactInv

\* Exit: what is not settled is torn.
LEMMA ExitExact == ExactInv /\ Exit => ExactInv'
<1> SUFFICES ASSUME ExactInv, Exit PROVE ExactInv'
  OBVIOUS
<1>1. /\ bar' = NoBar /\ UNCHANGED <<rows, expired, now, accepted>>
      /\ torn' = torn \cup {t.window : t \in {u \in Range(accepted) :
                    u.window = bar.window \/ u.window + BaseTf > now - MaxLag}}
  BY DEF Exit
<1>2. /\ accepted \in Seq(Booking) /\ now \in Nat /\ MaxLag \in Nat /\ BaseTf \in Nat
      /\ \A i \in DOMAIN accepted : accepted[i].window \in Nat
  <2>1. accepted \in Seq(Booking)
    BY DEF ExactInv, HistoryOK
  <2>2. \A i \in DOMAIN accepted : accepted[i] \in Booking
    BY <2>1
  <2> QED BY <2>1, <2>2, ServerAssumption, TimeframeAssumption DEF ExactInv, RangeInv, Booking
<1>3. ASSUME NEW i \in DOMAIN accepted, accepted[i].window \notin torn'
      PROVE  /\ accepted[i].window \notin torn /\ accepted[i].window # bar.window
             /\ accepted[i].window + BaseTf <= now - MaxLag
  <2>1. accepted[i] \in Range(accepted)
    BY DEF Range
  <2>2. ~(accepted[i].window = bar.window \/ accepted[i].window + BaseTf > now - MaxLag)
    BY <1>1, <1>3, <2>1
  <2> QED BY <1>1, <1>2, <1>3, <2>2
<1>4. bar'.window = -1 /\ DOMAIN bar'.cells = {}
  BY <1>1 DEF NoBar
<1>5. HistoryOK' /\ RowsBooked'
  BY <1>1, <1>4 DEF ExactInv, HistoryOK, RowsBooked, HasTrade
<1>6. Behind' /\ InOrder'
  BY <1>1, <1>3 DEF ExactInv, Behind, InOrder
<1>7. BarExact'
  BY <1>1 DEF BarExact
<1>8. RowsExact'
  BY <1>1, <1>3 DEF ExactInv, RowsExact
<1>9. RangeInv'
  BY ExitRange DEF ExactInv
<1> QED BY <1>5, <1>6, <1>7, <1>8, <1>9 DEF ExactInv

\* Expire: windows that lose rows are expired.
LEMMA ExpireExact == ExactInv /\ Expire => ExactInv'
<1> SUFFICES ASSUME ExactInv, Expire PROVE ExactInv'
  OBVIOUS
<1>1. PICK old \in SUBSET DOMAIN rows :
        /\ rows' = [k \in DOMAIN rows \ old |-> rows[k]]
        /\ expired' = expired \cup {k[1] : k \in old}
        /\ UNCHANGED <<torn, now, bar, accepted>>
  BY DEF Expire
<1>2. DOMAIN rows' \subseteq DOMAIN rows /\ \A k \in DOMAIN rows' : rows'[k] = rows[k]
  BY <1>1
<1>3. HistoryOK' /\ RowsBooked' /\ Behind' /\ InOrder'
  BY <1>1, <1>2 DEF ExactInv, HistoryOK, RowsBooked, HasTrade, Behind, InOrder
<1>4. BarExact'
  BY <1>1, <1>2 DEF ExactInv, BarExact
<1>5. RowsExact'
  <2> SUFFICES ASSUME NEW i \in DOMAIN accepted, accepted[i].window \notin torn \cup expired',
                      accepted[i].window # bar.window
               PROVE  WindowExact(rows', accepted, accepted[i].window)
    BY <1>1 DEF RowsExact
  <2> DEFINE w == accepted[i].window
  <2>1. WindowExact(rows, accepted, w)
    BY <1>1 DEF ExactInv, RowsExact
  <2>2. ASSUME NEW k \in DOMAIN rows, k[1] = w PROVE k \in DOMAIN rows'
    BY <1>1, <2>2
  <2> HIDE DEF w
  <2>3. ASSUME NEW j \in Traded(accepted, w) PROVE <<w, accepted[j].price>> \in DOMAIN rows'
    <3> DEFINE k == <<w, accepted[j].price>>
    <3>1. k \in DOMAIN rows /\ k[1] = w
      BY <2>1 DEF WindowExact
    <3> HIDE DEF k
    <3>2. k \in DOMAIN rows'
      BY <2>2, <3>1
    <3> QED BY <3>2 DEF k
  <2>4. ASSUME NEW k \in DOMAIN rows', k[1] = w
        PROVE  /\ CellIs(rows'[k], accepted, w, k[2]) /\ OhlcIs(rows'[k], accepted, w)
               /\ rows'[k].newest
    BY <1>2, <2>1, <2>4 DEF WindowExact
  <2> QED BY <2>3, <2>4 DEF WindowExact, w
<1>6. RangeInv'
  BY ExpireRange DEF ExactInv
<1> QED BY <1>3, <1>4, <1>5, <1>6 DEF ExactInv

\* Everything else leaves trades and rows alone.
LEMMA QuietExact ==
  ASSUME ExactInv, RangeInv', UNCHANGED <<rows, torn, expired, bar, accepted>>, now <= now'
  PROVE  ExactInv'
<1>1. HistoryOK' /\ RowsBooked' /\ InOrder' /\ BarExact' /\ RowsExact'
  BY DEF ExactInv, HistoryOK, RowsBooked, HasTrade, InOrder, BarExact, RowsExact
<1>2. Behind'
  <2>1. /\ now \in Nat /\ now' \in Nat /\ MaxLag \in Nat /\ BaseTf \in Nat
    BY ServerAssumption, TimeframeAssumption DEF ExactInv, RangeInv
  <2>2. \A i \in DOMAIN accepted : accepted[i].window \in Nat
    <3>1. accepted \in Seq(Booking)
      BY DEF ExactInv, HistoryOK
    <3>2. \A i \in DOMAIN accepted : accepted[i] \in Booking
      BY <3>1
    <3> QED BY <3>2 DEF Booking
  <2> QED BY <2>1, <2>2 DEF ExactInv, Behind
<1> QED BY <1>1, <1>2 DEF ExactInv

\* Every step preserves the invariant.
LEMMA ExactNext == ExactInv /\ [Next]_vars => ExactInv'
<1> SUFFICES ASSUME ExactInv, [Next]_vars PROVE ExactInv'
  OBVIOUS
<1>1. RangeInv' /\ now \in Nat
  BY RangeNext DEF ExactInv, RangeInv
<1>2. ASSUME NEW c \in Configs, NEW env \in Env, NEW ok \in Ddl, Start(c, env, ok)
      PROVE  ExactInv'
  BY <1>1, <1>2, QuietExact DEF Start
<1>3. ASSUME NEW print \in Prints, NEW ts \in 0 .. MaxTs, Trade(print, ts)
      PROVE  ExactInv'
  BY <1>3, TradeExact
<1>4. ASSUME NEW shared \in BOOLEAN, Delta(shared)
      PROVE  ExactInv'
  BY <1>4, DeltaExact
<1>5. CASE Elapse
  BY <1>1, <1>5, QuietExact DEF Elapse, table
<1>6. ASSUME NEW q \in Ranges, NEW token \in Tokens, Fetch(q, token)
      PROVE  ExactInv'
  BY <1>1, <1>6, QuietExact DEF Fetch, table
<1>7. ASSUME NEW ok \in BOOLEAN, Respond(ok)
      PROVE  ExactInv'
  BY <1>1, <1>7, QuietExact DEF Respond, table
<1>8. CASE UNCHANGED vars
  BY <1>1, <1>8, QuietExact DEF vars, table
<1> QED
  BY <1>2, <1>3, <1>4, <1>5, <1>6, <1>7, <1>8, ExitExact, ExpireExact DEF Next

\* Each footprint that has left memory is in ClickHouse exactly as traded: for
\* every window closed by a later trade, not torn by the end of a process and not
\* expired, each bucket's sums are those of its trades and each row carries the
\* window's final OHLC (the INSERTs of Trade and Delta, over restarts and TTL).
THEOREM ExactInvariance == Spec => []ExactInv
  BY ExactInit, ExactNext, PTL DEF Spec

-----------------------------------------------------------------------------
(* Least and greatest elements, sums over buckets, and the cap on an answer.*)

\* Every non-empty set of naturals has a least element.
LEMMA LeastNatural ==
  ASSUME NEW S \in SUBSET Nat, S # {}
  PROVE  \E x \in S : \A y \in S : x <= y
<1>1. PICK x \in S : \A y \in S : ~(<<y, x>> \in OpToRel(<, Nat))
  BY NatLessThanWellFounded, WFMin
<1>2. \A y \in S : ~(y < x)
  BY <1>1 DEF OpToRel
<1>3. QED
  BY <1>2

\* A bounded one has a greatest: its least upper bound.
LEMMA GreatestNatural ==
  ASSUME NEW S \in SUBSET Nat, S # {}, NEW m \in Nat, \A y \in S : y <= m
  PROVE  \E x \in S : \A y \in S : y <= x
<1> DEFINE B == {b \in Nat : \A y \in S : y <= b}
<1>1. B \in SUBSET Nat /\ B # {}
  OBVIOUS
<1>2. PICK b \in B : \A c \in B : b <= c
  BY <1>1, LeastNatural
<1>3. b \in S
  <2> SUFFICES ASSUME b \notin S PROVE FALSE
    OBVIOUS
  <2>1. \A y \in S : y < b
    BY <1>2
  <2>2. b - 1 \in Nat /\ \A y \in S : y <= b - 1
    <3>1. b \in Nat /\ \A y \in S : y \in Nat
      OBVIOUS
    <3>2. PICK y \in S : TRUE
      OBVIOUS
    <3>3. y \in Nat /\ y < b
      BY <2>1, <3>1
    <3>4. QED
      BY <2>1, <3>1, <3>3
  <2>3. b - 1 \in B
    BY <2>2
  <2>4. QED
    BY <1>2, <2>3
<1>4. QED
  BY <1>2, <1>3

\* Max and Min are the greatest and the least element where there are such.
LEMMA MaxIs ==
  ASSUME NEW S \in SUBSET Nat, NEW m \in S, \A y \in S : y <= m
  PROVE  Max(S) = m
<1>1. Max(S) \in S /\ \A y \in S : y <= Max(S)
  BY DEF Max
<1> DEFINE x == Max(S)
<1>2. x \in Nat /\ m \in Nat /\ x <= m /\ m <= x
  BY <1>1
<1> HIDE DEF x
<1>3. x = m
  BY <1>2
<1>4. QED
  BY <1>3 DEF x

\* The same for the least.
LEMMA MinIs ==
  ASSUME NEW S \in SUBSET Nat, NEW m \in S, \A y \in S : m <= y
  PROVE  Min(S) = m
<1>1. Min(S) \in S /\ \A y \in S : Min(S) <= y
  BY DEF Min
<1> DEFINE x == Min(S)
<1>2. x \in Nat /\ m \in Nat /\ x <= m /\ m <= x
  BY <1>1
<1> HIDE DEF x
<1>3. x = m
  BY <1>2
<1>4. QED
  BY <1>3 DEF x

\* A subset that reaches as high as the set has the same maximum.
LEMMA MaxCofinal ==
  ASSUME NEW S \in SUBSET Nat, NEW T \in SUBSET S,
         \A x \in S : \E y \in T : x <= y
  PROVE  Max(T) = Max(S)
<1>1. ASSUME NEW x \in S, \A y \in S : x >= y
      PROVE  x \in T /\ \A y \in T : x >= y
  <2>1. PICK y \in T : x <= y
    OBVIOUS
  <2>2. x = y
    BY <1>1, <2>1
  <2> QED BY <1>1, <2>2
<1>2. ASSUME NEW x \in T, \A y \in T : x >= y
      PROVE  x \in S /\ \A y \in S : x >= y
  <2>1. ASSUME NEW y \in S PROVE x >= y
    <3>1. PICK z \in T : y <= z
      OBVIOUS
    <3>2. x >= z /\ x \in Nat /\ y \in Nat /\ z \in Nat
      BY <1>2
    <3> QED BY <3>1, <3>2
  <2> QED BY <2>1
<1>3. \A x : (x \in T /\ \A y \in T : x >= y) <=> (x \in S /\ \A y \in S : x >= y)
  BY <1>1, <1>2, Zenon
<1> QED BY <1>3, Zenon DEF Max

\* A subset that reaches as low as the set has the same minimum.
LEMMA MinCofinal ==
  ASSUME NEW S \in SUBSET Nat, NEW T \in SUBSET S,
         \A x \in S : \E y \in T : y <= x
  PROVE  Min(T) = Min(S)
<1>1. ASSUME NEW x \in S, \A y \in S : x =< y
      PROVE  x \in T /\ \A y \in T : x =< y
  <2>1. PICK y \in T : y <= x
    OBVIOUS
  <2>2. x = y
    BY <1>1, <2>1
  <2> QED BY <1>1, <2>2
<1>2. ASSUME NEW x \in T, \A y \in T : x =< y
      PROVE  x \in S /\ \A y \in S : x =< y
  <2>1. ASSUME NEW y \in S PROVE x =< y
    <3>1. PICK z \in T : z <= y
      OBVIOUS
    <3>2. x =< z /\ x \in Nat /\ y \in Nat /\ z \in Nat
      BY <1>2
    <3> QED BY <3>1, <3>2
  <2> QED BY <2>1
<1>3. \A x : (x \in T /\ \A y \in T : x =< y) <=> (x \in S /\ \A y \in S : x =< y)
  BY <1>1, <1>2, Zenon
<1> QED BY <1>3, Zenon DEF Min

\* Over prices, maxIf and minIf are the maximum and the minimum.
LEMMA MaxIfPositive ==
  ASSUME NEW S \in SUBSET Price, S # {}
  PROVE  MaxIf(S) = Max(S) /\ MinIf(S) = Min(S)
<1>1. \A x \in S : x \in Nat /\ x > 0
  BY DEF Price
<1>2. {x \in S : x > 0} = S
  BY <1>1
<1> QED BY <1>2 DEF MaxIf, MinIf

\* f splits U into parts, and the column c counts them.
Splits(f, U, c) ==
  /\ \A k \in DOMAIN c : f[k] \subseteq U /\ c[k] = Cardinality(f[k])
  /\ \A x \in U : \E k \in DOMAIN c : x \in f[k]
  /\ \A j, k \in DOMAIN c : j # k => f[j] \cap f[k] = {}

\* The sum of a column that counts the parts of a set counts the set.
LEMMA SumOfParts ==
  ASSUME NEW f, NEW U, IsFiniteSet(U), NEW c, Splits(f, U, c)
  PROVE  Sum(c) = Cardinality(U)
<1> DEFINE K == DOMAIN c
<1> USE DEF Splits
<1> DEFINE V == UNION {{k} \X (1..c[k]) : k \in K}
           g == [k \in K |-> CHOOSE e : e \in Bijection(1..c[k], f[k])]
           F == [v \in V |-> g[v[1]][v[2]]]
<1>1. ASSUME NEW k \in K
      PROVE  /\ c[k] = Cardinality(f[k]) /\ c[k] \in Nat
             /\ g[k] \in Bijection(1..c[k], f[k])
  <2>1. f[k] \in SUBSET U
    OBVIOUS
  <2>2. IsFiniteSet(f[k])
    BY <2>1, FS_Subset
  <2>3. Cardinality(f[k]) \in Nat /\ ExistsBijection(1..Cardinality(f[k]), f[k])
    BY <2>2, FS_CardinalityType
  <2>4. c[k] = Cardinality(f[k])
    OBVIOUS
  <2>5. Bijection(1..c[k], f[k]) # {}
    BY <2>3, <2>4 DEF ExistsBijection
  <2>6. g[k] = CHOOSE e : e \in Bijection(1..c[k], f[k])
    OBVIOUS
  <2> QED BY <2>3, <2>4, <2>5, <2>6
<1>2. \A v : v \in V <=> \E k \in K : \E i \in 1..c[k] : v = <<k, i>>
  OBVIOUS
<1>3. \A v \in V : F[v] = g[v[1]][v[2]]
  OBVIOUS
<1>4. DOMAIN F = V
  OBVIOUS
<1>5. F = [v \in V |-> F[v]]
  OBVIOUS
<1> HIDE DEF V, g, F
<1>6. ASSUME NEW k \in K
      PROVE  /\ \A i \in 1..c[k] : g[k][i] \in f[k]
             /\ \A i, j \in 1..c[k] : g[k][i] = g[k][j] => i = j
             /\ \A x \in f[k] : \E i \in 1..c[k] : g[k][i] = x
  BY <1>1 DEF Bijection, Injection, Surjection, IsInjective
<1>7. F \in [V -> U]
  <2>1. ASSUME NEW v \in V PROVE F[v] \in U
    BY <1>2, <1>3, <1>6
  <2> QED BY <1>4, <1>5, <2>1
<1>8. ASSUME NEW u \in V, NEW v \in V, F[u] = F[v] PROVE u = v
  <2>1. PICK j \in K : \E a \in 1..c[j] : u = <<j, a>>
    BY <1>2
  <2>2. PICK k \in K : \E b \in 1..c[k] : v = <<k, b>>
    BY <1>2
  <2>3. PICK a \in 1..c[j] : u = <<j, a>>
    BY <2>1
  <2>4. PICK b \in 1..c[k] : v = <<k, b>>
    BY <2>2
  <2>5. F[u] = g[j][a] /\ F[v] = g[k][b]
    BY <1>3, <2>3, <2>4
  <2>6. g[j][a] \in f[j] /\ g[k][b] \in f[k]
    BY <1>6
  <2>7. j = k
    <3>1. g[k][b] \in f[j] \cap f[k]
      BY <1>8, <2>5, <2>6
    <3> QED BY <3>1
  <2>8. \A x, y \in 1..c[k] : g[k][x] = g[k][y] => x = y
    BY <1>6
  <2>9. a \in 1..c[k] /\ g[k][a] = g[k][b]
    BY <1>8, <2>5, <2>7
  <2>10. a = b
    BY <2>8, <2>9
  <2> QED BY <2>3, <2>4, <2>7, <2>10
<1>9. ASSUME NEW x \in U PROVE \E v \in V : F[v] = x
  <2>1. PICK k \in K : x \in f[k]
    OBVIOUS
  <2>2. PICK i \in 1..c[k] : g[k][i] = x
    BY <1>6, <2>1
  <2>3. <<k, i>> \in V
    BY <1>2
  <2> QED BY <1>3, <2>2, <2>3
<1>10. F \in Bijection(V, U)
  BY <1>4, <1>7, <1>8, <1>9 DEF Bijection, Injection, Surjection, IsInjective
<1>11. ExistsBijection(U, V)
  BY <1>10, Fun_ExistsBijSymmetric DEF ExistsBijection
<1>12. Cardinality(V) = Cardinality(U)
  BY <1>11, FS_Bijection
<1>13. DOMAIN c = K
  OBVIOUS
<1> QED BY <1>12, <1>13 DEF Sum, V

\* An answer shorter than the cap is the whole result: what the cap cuts off has
\* at least MaxBars rows before it.
LEMMA CapNotReached ==
  ASSUME NEW f, f = [b \in DOMAIN f |-> f[b]], IsFiniteSet(DOMAIN f),
         \A b \in DOMAIN f : b[1] \in Int /\ b[2] \in Int,
         Cardinality(DOMAIN Parsed(f)) < MaxBars
  PROVE  Parsed(f) = f
<1> DEFINE Before(b) == {c \in DOMAIN f : \/ c[1] < b[1]
                                          \/ c[1] = b[1] /\ c[2] < b[2]}
           Rank(b) == Cardinality(Before(b))
           D == {c \in DOMAIN f : Rank(c) < MaxBars}
           B == {Rank(c) : c \in DOMAIN f \ D}
<1>1. Parsed(f) = [b \in D |-> f[b]]
  BY DEF Parsed
<1>2. \A b : Before(b) \in SUBSET DOMAIN f
  OBVIOUS
<1>3. \A b : IsFiniteSet(Before(b)) /\ Rank(b) \in Nat
  <2> TAKE b
  <2> DEFINE X == Before(b)
  <2>1. X \in SUBSET DOMAIN f
    OBVIOUS
  <2> HIDE DEF X
  <2>2. IsFiniteSet(X) /\ Cardinality(X) \in Nat
    BY <2>1, FS_Subset, FS_CardinalityType
  <2> QED BY <2>2 DEF X
<1>4. ASSUME D # DOMAIN f PROVE FALSE
  <2>1. B # {} /\ B \in SUBSET Nat
    <3>1. \E c \in DOMAIN f : c \notin D
      BY <1>4
    <3> HIDE DEF D, Rank
    <3> QED BY <1>3, <3>1
  <2>2. PICK m \in B : \A x \in B : m <= x
    <3> HIDE DEF B
    <3> QED BY <2>1, LeastNatural
  <2>3. PICK c \in DOMAIN f \ D : m = Rank(c)
    OBVIOUS
  <2>4. ASSUME NEW d \in Before(c) PROVE d \in D
    <3>1. d \in DOMAIN f
      OBVIOUS
    <3>2. Before(d) \in SUBSET Before(c) /\ d \in Before(c) /\ d \notin Before(d)
      <4>1. d[1] \in Int /\ d[2] \in Int /\ c[1] \in Int /\ c[2] \in Int
        BY <3>1
      <4>2. d[1] < c[1] \/ (d[1] = c[1] /\ d[2] < c[2])
        OBVIOUS
      <4>3. ASSUME NEW e \in Before(d) PROVE e \in Before(c)
        <5>1. e \in DOMAIN f /\ e[1] \in Int /\ e[2] \in Int
          OBVIOUS
        <5>2. e[1] < d[1] \/ (e[1] = d[1] /\ e[2] < d[2])
          OBVIOUS
        <5>3. e[1] < c[1] \/ (e[1] = c[1] /\ e[2] < c[2])
          BY <4>1, <4>2, <5>1, <5>2
        <5> QED BY <5>1, <5>3
      <4>4. d \notin Before(d)
        BY <4>1
      <4> QED BY <4>3, <4>4
    <3>3. Rank(d) < Rank(c)
      <4> DEFINE X == Before(c)
                 Y == Before(d)
      <4>1. IsFiniteSet(X) /\ Y \in SUBSET X /\ Y # X
        BY <1>3, <3>2
      <4>2. Cardinality(X) \in Nat /\ Cardinality(Y) \in Nat
        BY <1>3
      <4> HIDE DEF X, Y
      <4>3. Cardinality(Y) <= Cardinality(X) /\ Cardinality(X) # Cardinality(Y)
        BY <4>1, FS_Subset
      <4>4. Cardinality(Y) < Cardinality(X)
        BY <4>2, <4>3
      <4> QED BY <4>4 DEF X, Y
    <3> HIDE DEF Rank
    <3>4. CASE d \notin D
      <4>1. Rank(d) \in B
        BY <3>1, <3>4
      <4>2. Rank(c) <= Rank(d)
        BY <2>2, <2>3, <4>1
      <4>3. Rank(c) \in Nat /\ Rank(d) \in Nat
        BY <1>3 DEF Rank
      <4> QED BY <3>3, <4>2, <4>3
    <3> QED BY <3>4
  <2>5. Rank(c) >= MaxBars
    <3>1. Rank(c) \in Nat /\ ~(Rank(c) < MaxBars)
      BY <1>3, <2>3
    <3> QED BY <3>1, CapAssumption
  <2>6. Before(c) \in SUBSET D
    BY <2>4
  <2> DEFINE X == Before(c)
  <2>7. IsFiniteSet(D) /\ Cardinality(D) \in Nat
    <3>1. D \in SUBSET DOMAIN f
      OBVIOUS
    <3> HIDE DEF D
    <3> QED BY <3>1, FS_Subset, FS_CardinalityType
  <2>8. Cardinality(X) <= Cardinality(D)
    <3>1. X \in SUBSET D
      BY <2>6
    <3> HIDE DEF X, D
    <3> QED BY <2>7, <3>1, FS_Subset
  <2>9. Cardinality(D) < MaxBars
    <3>1. DOMAIN Parsed(f) = D
      BY <1>1
    <3> HIDE DEF D
    <3> QED BY <3>1
  <2>10. Cardinality(X) >= MaxBars /\ Cardinality(X) \in Nat
    BY <1>3, <2>5
  <2> HIDE DEF X, D
  <2> QED BY <2>7, <2>8, <2>9, <2>10, CapAssumption
<1> QED BY <1>1, <1>4

-----------------------------------------------------------------------------
(* The candle of some trades, and what the rows of their windows give.     *)

\* The trades a request asks for.
Idx(h, q) == {i \in DOMAIN h : q.from <= h[i].window /\ h[i].window < q.to}

\* The bucket a trade is booked on.
BucketOf(t) == <<t.window, t.price>>

\* The OHLC of a set of trades, as the reference gives it.
Candle(h, T) ==
  [open |-> h[Min(T)].price, close |-> {h[Max(T)].price},
   high |-> Max({h[i].price : i \in T}), low |-> Min({h[i].price : i \in T})]

\* An exact OHLC is the candle of its window's trades.
LEMMA WindowCandle ==
  ASSUME NEW h \in Seq(Booking), NEW w, NEW o, OhlcIs(o, h, w)
  PROVE  Candle(h, Traded(h, w))
           = [open |-> o.open, close |-> {o.close}, high |-> o.high, low |-> o.low]
<1> DEFINE T == Traded(h, w)
           P == {h[i].price : i \in T}
<1>1. T \in SUBSET DOMAIN h
  BY DEF Traded
<1>2. PICK a \in T : h[a].price = o.open /\ \A j \in T : a <= j
  BY DEF OhlcIs
<1>3. PICK z \in T : h[z].price = o.close /\ \A j \in T : j <= z
  BY DEF OhlcIs
<1> DEFINE hi == o.high
           lo == o.low
<1>4. hi \in P /\ lo \in P /\ \A y \in P : lo <= y /\ y <= hi
  BY DEF OhlcIs
<1>5. T \in SUBSET Nat /\ P \in SUBSET Nat
  <2> HIDE DEF T
  <2>1. T \in SUBSET Nat /\ \A i \in T : h[i] \in Booking
    BY <1>1, PositionsFinite
  <2>2. \A i \in T : h[i].price \in Nat
    BY <2>1 DEF Booking, Price
  <2> QED BY <2>1, <2>2
<1> HIDE DEF T
<1>6. Min(T) = a /\ Max(T) = z
  BY <1>2, <1>3, <1>5, MinIs, MaxIs
<1> HIDE DEF P, hi, lo
<1>7. Max(P) = hi /\ Min(P) = lo
  BY <1>4, <1>5, MaxIs, MinIs
<1>8. Candle(h, T) = [open |-> h[Min(T)].price, close |-> {h[Max(T)].price},
                      high |-> Max(P), low |-> Min(P)]
  BY Zenon DEF Candle, P
<1>9. Candle(h, T) = [open |-> o.open, close |-> {o.close}, high |-> hi, low |-> lo]
  BY <1>2, <1>3, <1>6, <1>7, <1>8
<1> QED BY <1>9 DEF T, hi, lo

\* maxIf and minIf of a single price.
LEMMA OneValue ==
  ASSUME NEW x \in Price
  PROVE  MaxIf({x}) = x /\ MinIf({x}) = x
<1>1. {x} \in SUBSET Price /\ {x} # {} /\ {x} \in SUBSET Nat
  BY DEF Price
<1>2. MaxIf({x}) = Max({x}) /\ MinIf({x}) = Min({x})
  BY <1>1, MaxIfPositive
<1> DEFINE S == {x}
<1>3. S \in SUBSET Nat /\ x \in S /\ \A y \in S : x <= y /\ y <= x
  BY DEF Price
<1> HIDE DEF S
<1>4. Max(S) = x /\ Min(S) = x
  BY <1>3, MaxIs, MinIs
<1> QED BY <1>2, <1>4 DEF S

\* The first level of the query: from any rows of an exact window, its candle.
LEMMA SubCandle ==
  ASSUME NEW h \in Seq(Booking), NEW r, NEW w, WindowExact(r, h, w),
         NEW K \in SUBSET DOMAIN r, K # {}, \A k \in K : k[1] = w /\ r[k] \in Row
  PROVE  SubBar(r, K) = Candle(h, Traded(h, w))
<1> DEFINE C == Candle(h, Traded(h, w))
<1>1. ASSUME NEW k \in K
      PROVE  /\ r[k].open = C.open /\ C.close = {r[k].close} /\ r[k].newest
             /\ r[k].high = C.high /\ r[k].low = C.low
             /\ C = [open |-> r[k].open, close |-> {r[k].close},
                     high |-> r[k].high, low |-> r[k].low]
             /\ r[k].open \in Price /\ r[k].high \in Price /\ r[k].low \in Price
  <2>1. OhlcIs(r[k], h, w) /\ r[k].newest
    BY DEF WindowExact
  <2>2. C = [open |-> r[k].open, close |-> {r[k].close},
             high |-> r[k].high, low |-> r[k].low]
    BY <2>1, WindowCandle
  <2> HIDE DEF C
  <2>3. r[k].open \in Price /\ r[k].high \in Price /\ r[k].low \in Price
    BY DEF Row
  <2> QED BY <2>1, <2>2, <2>3
<1> HIDE DEF C
<1>2. PICK k \in K : TRUE
  OBVIOUS
<1> DEFINE o == r[k].open
           hi == r[k].high
           lo == r[k].low
           Opens == {r[j].open : j \in K}
           Highs == {r[j].high : j \in K}
           Lows == {r[j].low : j \in K}
           Closes == {r[j].close : j \in {i \in K : r[i].newest}}
<1>3. Opens = {o} /\ Highs = {hi} /\ Lows = {lo}
  BY <1>1
<1>4. Closes = C.close
  <2>1. \A j \in K : C.close = {r[j].close} /\ r[j].newest
    BY <1>1
  <2>2. Closes = {r[j].close : j \in K}
    BY <2>1
  <2>3. {r[j].close : j \in K} = {r[k].close}
    BY <2>1
  <2> QED BY <2>1, <2>2, <2>3
<1>5. MaxIf(Opens) = o /\ MaxIf(Highs) = hi /\ MinIf(Lows) = lo
  <2>1. o \in Price /\ hi \in Price /\ lo \in Price
    BY <1>1
  <2> HIDE DEF o, hi, lo, Opens, Highs, Lows
  <2> QED BY <1>3, <2>1, OneValue
<1>6. SubBar(r, K) = [open |-> MaxIf(Opens), close |-> Closes,
                      high |-> MaxIf(Highs), low |-> MinIf(Lows)]
  BY Zenon DEF SubBar
<1>7. C = [open |-> o, close |-> C.close, high |-> hi, low |-> lo]
  BY <1>1
<1> HIDE DEF Opens, Highs, Lows, Closes, o, hi, lo
<1>8. SubBar(r, K) = C
  BY <1>4, <1>5, <1>6, <1>7
<1> QED BY <1>8 DEF C

\* The second level: from the rows of exact windows, the candle of all their
\* trades, if they were booked in the order of the windows.
LEMMA RolledCandle ==
  ASSUME NEW h \in Seq(Booking), NEW r, NEW K \in SUBSET DOMAIN r,
         NEW T \in SUBSET DOMAIN h, T # {},
         \A k \in K : r[k] \in Row,
         \A k \in K : \E i \in T : k = BucketOf(h[i]),
         \A i \in T : BucketOf(h[i]) \in K,
         \A i \in T : WindowExact(r, h, h[i].window) /\ Traded(h, h[i].window) \subseteq T,
         \A i, j \in T : i < j => h[i].window <= h[j].window
  PROVE  RolledBar(r, K) = Candle(h, T)
<1> DEFINE subs == {k[1] : k \in K}
           Sub(w) == SubBar(r, {k \in K : k[1] = w})
           H == {Sub(w).high : w \in subs}
           L == {Sub(w).low : w \in subs}
           P == {h[i].price : i \in T}
<1>1. T \in SUBSET Nat /\ \A i \in T : h[i] \in Booking
  BY PositionsFinite
<1>2. \A i \in T : h[i].window \in Nat /\ h[i].price \in Price
  BY <1>1 DEF Booking
<1>3. subs = {h[i].window : i \in T}
  <2>1. \A i \in T : BucketOf(h[i])[1] = h[i].window
    BY DEF BucketOf
  <2>2. \A k \in K : \E i \in T : k[1] = h[i].window
    BY <2>1
  <2>3. \A i \in T : \E k \in K : k[1] = h[i].window
    BY <2>1
  <2> DEFINE V == {h[i].window : i \in T}
  <2>4. \A x : x \in subs <=> \E k \in K : k[1] = x
    OBVIOUS
  <2>5. \A x : x \in V <=> \E i \in T : h[i].window = x
    OBVIOUS
  <2> HIDE DEF subs, V
  <2>6. \A x : x \in subs <=> x \in V
    BY <2>2, <2>3, <2>4, <2>5
  <2>7. subs = V
    BY <2>6
  <2> QED BY <2>7 DEF V
<1>4. ASSUME NEW i \in T
      PROVE  /\ Sub(h[i].window) = Candle(h, Traded(h, h[i].window))
             /\ \E j \in T : Sub(h[i].window).high = h[j].price
             /\ \E j \in T : Sub(h[i].window).low = h[j].price
             /\ Sub(h[i].window).low <= h[i].price /\ h[i].price <= Sub(h[i].window).high
  <2> DEFINE w == h[i].window
             X == {k \in K : k[1] = w}
             x == BucketOf(h[i])
  <2>1. x \in X
    BY DEF BucketOf
  <2>2. WindowExact(r, h, w) /\ Traded(h, w) \subseteq T
    OBVIOUS
  <2>3. X \in SUBSET DOMAIN r /\ X # {} /\ \A k \in X : k[1] = w /\ r[k] \in Row
    BY <2>1
  <2>4. SubBar(r, X) = Candle(h, Traded(h, w))
    <3> HIDE DEF X, w
    <3> QED BY <2>2, <2>3, SubCandle
  <2> DEFINE o == r[x]
  <2>5. OhlcIs(o, h, w)
    BY <2>1, <2>2, <2>3 DEF WindowExact
  <2>6. i \in Traded(h, w)
    BY DEF Traded
  <2>7. /\ \E j \in Traded(h, w) : h[j].price = o.high
        /\ \E j \in Traded(h, w) : h[j].price = o.low
        /\ o.low <= h[i].price /\ h[i].price <= o.high
    BY <2>5, <2>6 DEF OhlcIs
  <2> HIDE DEF o
  <2>8. Candle(h, Traded(h, w))
          = [open |-> o.open, close |-> {o.close}, high |-> o.high, low |-> o.low]
    <3> HIDE DEF w
    <3> QED BY <2>5, WindowCandle
  <2> DEFINE c == Sub(h[i].window)
  <2>9. c = Candle(h, Traded(h, w))
    BY <2>4
  <2> HIDE DEF c, w, X, x
  <2>10. c.high = o.high /\ c.low = o.low
    BY <2>8, <2>9
  <2>11. /\ c = Candle(h, Traded(h, w))
         /\ \E j \in T : c.high = h[j].price
         /\ \E j \in T : c.low = h[j].price
         /\ c.low <= h[i].price /\ h[i].price <= c.high
    BY <2>2, <2>7, <2>9, <2>10
  <2> QED BY <2>11 DEF c, w
<1> HIDE DEF Sub
<1>5. PICK a \in T : \A j \in T : a <= j
  BY <1>1, LeastNatural
<1>6. PICK z \in T : \A j \in T : j <= z
  <2>1. Len(h) \in Nat /\ \A j \in T : j <= Len(h)
    <3>1. Len(h) \in Nat /\ DOMAIN h = 1..Len(h)
      OBVIOUS
    <3> QED BY <3>1
  <2> DEFINE n == Len(h)
  <2> HIDE DEF n
  <2> QED BY <1>1, <2>1, GreatestNatural DEF n
<1>7. \A j \in T : h[a].window <= h[j].window /\ h[j].window <= h[z].window
  <2> TAKE j \in T
  <2>1. a \in Nat /\ j \in Nat /\ z \in Nat /\ a <= j /\ j <= z
    BY <1>1, <1>5, <1>6
  <2>2. h[a].window \in Nat /\ h[j].window \in Nat /\ h[z].window \in Nat
    BY <1>2
  <2>3. h[a].window <= h[j].window
    BY <2>1, <2>2
  <2>4. h[j].window <= h[z].window
    BY <2>1, <2>2
  <2> QED BY <2>3, <2>4
<1>8. Min(subs) = h[a].window /\ Max(subs) = h[z].window
  <2> DEFINE first == h[a].window
             last == h[z].window
  <2>1. subs \in SUBSET Nat
    BY <1>2, <1>3
  <2>2. first \in subs /\ last \in subs /\ \A y \in subs : first <= y /\ y <= last
    BY <1>3, <1>7
  <2> HIDE DEF subs, first, last
  <2>3. Min(subs) = first /\ Max(subs) = last
    BY <2>1, <2>2, MinIs, MaxIs
  <2> QED BY <2>3 DEF first, last
<1>9. Sub(Min(subs)).open = h[a].price
  <2> DEFINE W == Traded(h, h[a].window)
             x == Min(W)
  <2>1. W \in SUBSET Nat /\ a \in W /\ W \subseteq T
    BY <1>1 DEF Traded
  <2>2. Sub(Min(subs)) = Candle(h, W)
    BY <1>4, <1>8
  <2> HIDE DEF W
  <2>3. x = a
    BY <1>5, <2>1, MinIs
  <2> HIDE DEF x
  <2>4. Candle(h, W).open = h[x].price
    BY DEF Candle, x
  <2> QED BY <2>2, <2>3, <2>4
<1>10. Sub(Max(subs)).close = {h[z].price}
  <2> DEFINE W == Traded(h, h[z].window)
             x == Max(W)
  <2>1. W \in SUBSET Nat /\ z \in W /\ W \subseteq T
    BY <1>1 DEF Traded
  <2>2. Sub(Max(subs)) = Candle(h, W)
    BY <1>4, <1>8
  <2> HIDE DEF W
  <2>3. x = z
    BY <1>6, <2>1, MaxIs
  <2> HIDE DEF x
  <2>4. Candle(h, W).close = {h[x].price}
    BY DEF Candle, x
  <2> QED BY <2>2, <2>3, <2>4
<1>11. P \in SUBSET Nat /\ H \in SUBSET P /\ L \in SUBSET P /\ H # {} /\ L # {}
       /\ H \in SUBSET Price /\ L \in SUBSET Price
  <2>1. P \in SUBSET Price
    BY <1>2
  <2>2. ASSUME NEW w \in subs
        PROVE  /\ \E j \in T : Sub(w).high = h[j].price
               /\ \E j \in T : Sub(w).low = h[j].price
    <3>1. PICK i \in T : w = h[i].window
      BY <1>3
    <3> QED BY <1>4, <3>1
  <2>3. h[a].window \in subs
    BY <1>3
  <2> HIDE DEF subs
  <2>4. H \in SUBSET P /\ L \in SUBSET P
    BY <2>2
  <2>5. H # {} /\ L # {}
    BY <2>3
  <2> HIDE DEF H, L, P
  <2> QED BY <2>1, <2>4, <2>5 DEF Price
<1>12. /\ \A x \in P : \E y \in H : x <= y
       /\ \A x \in P : \E y \in L : y <= x
  <2>1. ASSUME NEW i \in T
        PROVE  (\E y \in H : h[i].price <= y) /\ (\E y \in L : y <= h[i].price)
    <3>1. h[i].window \in subs
      BY <1>3
    <3> DEFINE w == h[i].window
    <3> HIDE DEF subs, w
    <3>2. Sub(w).high \in H /\ Sub(w).low \in L
      BY <3>1 DEF w
    <3> QED BY <1>4, <3>2 DEF w
  <2> HIDE DEF H, L
  <2> QED BY <2>1
<1> HIDE DEF H, L, P
<1>13. MaxIf(H) = Max(P) /\ MinIf(L) = Min(P)
  <2>1. MaxIf(H) = Max(H) /\ MinIf(L) = Min(L)
    BY <1>11, MaxIfPositive
  <2>2. Max(H) = Max(P) /\ Min(L) = Min(P)
    BY <1>11, <1>12, MaxCofinal, MinCofinal
  <2> QED BY <2>1, <2>2
<1>14. Min(T) = a /\ Max(T) = z
  BY <1>1, <1>5, <1>6, MinIs, MaxIs
<1> DEFINE hi == Max(P)
           lo == Min(P)
<1>15. Candle(h, T) = [open |-> h[Min(T)].price, close |-> {h[Max(T)].price},
                       high |-> hi, low |-> lo]
  BY Zenon DEF Candle, P
<1>16. RolledBar(r, K) = [open |-> Sub(Min(subs)).open, close |-> Sub(Max(subs)).close,
                          high |-> MaxIf(H), low |-> MinIf(L)]
  BY Zenon DEF RolledBar, Sub, H, L
<1> HIDE DEF hi, lo, subs
<1> QED BY <1>9, <1>10, <1>13, <1>14, <1>15, <1>16 DEF hi, lo

-----------------------------------------------------------------------------
(* The answer to a request for settled windows.                            *)

\* The column c counts, for each bucket, the trades of U booked on it.
Counts(c, h, U) ==
  /\ \A i \in U : BucketOf(h[i]) \in DOMAIN c
  /\ \A k \in DOMAIN c : c[k] = Cardinality({i \in U : BucketOf(h[i]) = k})

\* The sum of such a column is the number of trades.
LEMMA PartsCounted ==
  ASSUME NEW h \in Seq(Booking), NEW U \in SUBSET DOMAIN h, NEW c, Counts(c, h, U)
  PROVE  Sum(c) = Cardinality(U)
<1> DEFINE f == [k \in DOMAIN c |-> {i \in U : BucketOf(h[i]) = k}]
<1>1. IsFiniteSet(U)
  BY PositionsFinite
<1>2. \A k \in DOMAIN c : /\ f[k] \subseteq U /\ c[k] = Cardinality(f[k])
                          /\ \A i \in f[k] : BucketOf(h[i]) = k
                          /\ \A i \in U : BucketOf(h[i]) = k => i \in f[k]
  BY DEF Counts
<1>3. \A i \in U : BucketOf(h[i]) \in DOMAIN c
  BY DEF Counts
<1> HIDE DEF f
<1>4. Splits(f, U, c)
  <2>1. ASSUME NEW x \in U PROVE \E k \in DOMAIN c : x \in f[k]
    <3> DEFINE k == BucketOf(h[x])
    <3>1. k \in DOMAIN c /\ BucketOf(h[x]) = k
      BY <1>3
    <3> HIDE DEF k
    <3>2. x \in f[k]
      BY <1>2, <3>1
    <3> QED BY <3>1, <3>2
  <2>2. ASSUME NEW j \in DOMAIN c, NEW k \in DOMAIN c, j # k PROVE f[j] \cap f[k] = {}
    BY <1>2, <2>2
  <2> QED BY <1>2, <2>1, <2>2 DEF Splits
<1> QED BY <1>1, <1>4, SumOfParts

\* The sums of a rolled bucket over its sub-windows are those of its trades.
LEMMA BucketSum ==
  ASSUME NEW h \in Seq(Booking), NEW r, NEW B, NEW U \in SUBSET DOMAIN h,
         \A k \in B : k = <<k[1], k[2]>> /\ CellIs(r[k], h, k[1], k[2]),
         \A k \in B : TradedAt(h, k[1], k[2]) \subseteq U,
         \A i \in U : BucketOf(h[i]) \in B
  PROVE  /\ Sum([k \in B |-> r[k].trades]) = Cardinality(U)
         /\ Sum([k \in B |-> r[k].bid_qty]) = Cardinality({i \in U : h[i].side = "Bid"})
         /\ Sum([k \in B |-> r[k].ask_qty]) = Cardinality({i \in U : h[i].side = "Ask"})
<1>1. ASSUME NEW k \in B
      PROVE  /\ TradedAt(h, k[1], k[2]) = {i \in U : BucketOf(h[i]) = k}
             /\ \A s : Sided(h, k[1], k[2], s)
                         = {i \in {j \in U : h[j].side = s} : BucketOf(h[i]) = k}
  <2>1. \A i \in DOMAIN h : BucketOf(h[i]) = k <=> h[i].window = k[1] /\ h[i].price = k[2]
    BY DEF BucketOf
  <2>2. \A i \in DOMAIN h : h[i].window = k[1] /\ h[i].price = k[2] => i \in U
    BY DEF TradedAt
  <2> QED BY <2>1, <2>2 DEF TradedAt, Sided
<1>2. Sum([k \in B |-> r[k].trades]) = Cardinality(U)
  <2> DEFINE c == [k \in B |-> r[k].trades]
  <2>1. DOMAIN c = B /\ U \in SUBSET DOMAIN h /\ \A i \in U : BucketOf(h[i]) \in B
    OBVIOUS
  <2>2. ASSUME NEW k \in B PROVE c[k] = Cardinality({i \in U : BucketOf(h[i]) = k})
    <3>1. c[k] = Cardinality(TradedAt(h, k[1], k[2]))
      BY DEF CellIs
    <3>2. TradedAt(h, k[1], k[2]) = {i \in U : BucketOf(h[i]) = k}
      BY <1>1
    <3> QED BY <3>1, <3>2
  <2> HIDE DEF c
  <2>3. Counts(c, h, U)
    BY <2>1, <2>2 DEF Counts
  <2>4. Sum(c) = Cardinality(U)
    BY <2>1, <2>3, PartsCounted
  <2> QED BY <2>4 DEF c
<1>3. Sum([k \in B |-> r[k].bid_qty]) = Cardinality({i \in U : h[i].side = "Bid"})
  <2> DEFINE c == [k \in B |-> r[k].bid_qty]
             V == {i \in U : h[i].side = "Bid"}
  <2>1. DOMAIN c = B /\ V \in SUBSET DOMAIN h /\ \A i \in V : BucketOf(h[i]) \in B
    OBVIOUS
  <2>2. ASSUME NEW k \in B PROVE c[k] = Cardinality({i \in V : BucketOf(h[i]) = k})
    <3>1. c[k] = Cardinality(Sided(h, k[1], k[2], "Bid"))
      BY DEF CellIs
    <3>2. Sided(h, k[1], k[2], "Bid") = {i \in V : BucketOf(h[i]) = k}
      BY <1>1
    <3> QED BY <3>1, <3>2
  <2> HIDE DEF c, V
  <2>3. Counts(c, h, V)
    BY <2>1, <2>2 DEF Counts
  <2>4. Sum(c) = Cardinality(V)
    BY <2>1, <2>3, PartsCounted
  <2> QED BY <2>4 DEF c, V
<1>4. Sum([k \in B |-> r[k].ask_qty]) = Cardinality({i \in U : h[i].side = "Ask"})
  <2> DEFINE c == [k \in B |-> r[k].ask_qty]
             V == {i \in U : h[i].side = "Ask"}
  <2>1. DOMAIN c = B /\ V \in SUBSET DOMAIN h /\ \A i \in V : BucketOf(h[i]) \in B
    OBVIOUS
  <2>2. ASSUME NEW k \in B PROVE c[k] = Cardinality({i \in V : BucketOf(h[i]) = k})
    <3>1. c[k] = Cardinality(Sided(h, k[1], k[2], "Ask"))
      BY DEF CellIs
    <3>2. Sided(h, k[1], k[2], "Ask") = {i \in V : BucketOf(h[i]) = k}
      BY <1>1
    <3> QED BY <3>1, <3>2
  <2> HIDE DEF c, V
  <2>3. Counts(c, h, V)
    BY <2>1, <2>2 DEF Counts
  <2>4. Sum(c) = Cardinality(V)
    BY <2>1, <2>3, PartsCounted
  <2> QED BY <2>4 DEF c, V
<1> QED BY <1>2, <1>3, <1>4

\* What an answer relies on: the windows of the request are exact, in order, and
\* have no other rows.
Settled(r, h, q) ==
  /\ h \in Seq(Booking)
  /\ \A i \in Idx(h, q) : Aligned(h[i].window) /\ WindowExact(r, h, h[i].window)
  /\ \A i, j \in Idx(h, q) : i < j => h[i].window <= h[j].window
  /\ \A k \in Filter(r, q) : r[k] \in Row /\ \E i \in Idx(h, q) : k = BucketOf(h[i])

\* The windows of a closed range, none torn and none expired, are settled.
LEMMA RangeSettled ==
  ASSUME ExactInv, NEW q \in Ranges,
         NEW W, W = {w \in q.from..(q.to - 1) : StartOfInterval(w, BaseTf) = w},
         W \cap (torn \cup expired) = {},
         \A w \in W : w < bar.window
  PROVE  Settled(rows, accepted, q)
<1>1. q.from \in Int /\ q.to \in Int
  BY ServerAssumption
<1>2. /\ accepted \in Seq(Booking)
      /\ \A i \in DOMAIN accepted : Aligned(accepted[i].window)
      /\ \A i \in DOMAIN accepted : accepted[i] \in Booking
  BY DEF ExactInv, HistoryOK
<1>3. ASSUME NEW i \in Idx(accepted, q)
      PROVE  /\ i \in DOMAIN accepted /\ accepted[i].window \notin torn \cup expired
             /\ accepted[i].window # bar.window
  <2> DEFINE w == accepted[i].window
  <2>1. i \in DOMAIN accepted /\ q.from <= w /\ w < q.to
    BY DEF Idx
  <2>2. w \in Nat /\ StartOfInterval(w, BaseTf) = w
    BY <1>2, <2>1 DEF Booking, Aligned
  <2> HIDE DEF w
  <2>3. w \in q.from..(q.to - 1)
    BY <1>1, <2>1, <2>2
  <2>4. w \in W
    BY <2>2, <2>3
  <2>5. w < bar.window /\ bar.window \in Int
    BY <2>4 DEF ExactInv, RangeInv, OpenBar, NoBar
  <2>6. w # bar.window
    BY <2>2, <2>5
  <2> QED BY <2>1, <2>4, <2>6 DEF w
<1>4. \A i \in Idx(accepted, q) : WindowExact(rows, accepted, accepted[i].window)
  BY <1>3 DEF ExactInv, RowsExact
<1>5. \A i, j \in Idx(accepted, q) : i < j => accepted[i].window <= accepted[j].window
  BY <1>3 DEF ExactInv, InOrder
<1>6. ASSUME NEW k \in Filter(rows, q)
      PROVE  rows[k] \in Row /\ \E i \in Idx(accepted, q) : k = BucketOf(accepted[i])
  <2>1. k \in DOMAIN rows /\ q.from <= k[1] /\ k[1] < q.to
    BY DEF Filter
  <2>2. rows[k] \in Row
    BY <2>1 DEF ExactInv, RangeInv, TableOK
  <2>3. PICK i \in DOMAIN accepted : k = <<accepted[i].window, accepted[i].price>>
    BY <2>1 DEF ExactInv, RowsBooked, HasTrade
  <2>4. k[1] = accepted[i].window
    BY <2>3
  <2>5. i \in Idx(accepted, q)
    BY <2>1, <2>4 DEF Idx
  <2> QED BY <2>2, <2>3, <2>5 DEF BucketOf
<1> QED BY <1>2, <1>3, <1>4, <1>5, <1>6 DEF Settled

\* The parts of the reference: the trades of a rolled window, those of one of its
\* prices, the row they make, and the buckets there are.
RefIn(h, q, w) == {i \in Idx(h, q) : StartOfInterval(h[i].window, q.interval_seconds) = w}
RefAt(h, q, b) == {i \in Idx(h, q) : /\ StartOfInterval(h[i].window, q.interval_seconds) = b[1]
                                     /\ h[i].price = b[2]}
RefRow(h, q, b) ==
  [bid_qty |-> Cardinality({i \in RefAt(h, q, b) : h[i].side = "Bid"}),
   ask_qty |-> Cardinality({i \in RefAt(h, q, b) : h[i].side = "Ask"}),
   trades |-> Cardinality(RefAt(h, q, b)), ohlc |-> Candle(h, RefIn(h, q, b[1]))]
RefBuckets(h, q) ==
  {<<StartOfInterval(h[i].window, q.interval_seconds), h[i].price>> : i \in Idx(h, q)}

\* The reference in these terms.
LEMMA ReferenceIs ==
  ASSUME NEW q
  PROVE  Reference(q) = [b \in RefBuckets(accepted, q) |-> RefRow(accepted, q, b)]
  BY Zenon DEF Reference, RefBuckets, RefRow, RefAt, RefIn, Candle, Idx

\* A request takes all the trades of a window, or none.
LEMMA WholeWindows ==
  ASSUME NEW h, NEW r, NEW q, NEW i \in Idx(h, q)
  PROVE  /\ Traded(h, h[i].window) \subseteq Idx(h, q)
         /\ \A k \in DOMAIN r : k = BucketOf(h[i]) => k \in Filter(r, q)
<1>1. q.from <= h[i].window /\ h[i].window < q.to
  BY DEF Idx
<1>2. \A k : k = BucketOf(h[i]) => k[1] = h[i].window
  BY DEF BucketOf
<1> QED BY <1>1, <1>2 DEF Idx, Filter, Traded

\* Every trade of the request has its row, and the row is exact.
LEMMA SettledRow ==
  ASSUME NEW h, NEW r, NEW q, Settled(r, h, q), NEW i \in Idx(h, q)
  PROVE  /\ BucketOf(h[i]) \in Filter(r, q)
         /\ CellIs(r[BucketOf(h[i])], h, h[i].window, h[i].price)
<1> DEFINE k == BucketOf(h[i])
<1>1. WindowExact(r, h, h[i].window)
  BY DEF Settled
<1>2. i \in Traded(h, h[i].window)
  BY DEF Traded, Idx
<1>3. k \in DOMAIN r
  BY <1>1, <1>2 DEF WindowExact, BucketOf
<1>4. k[1] = h[i].window /\ k[2] = h[i].price
  BY DEF BucketOf
<1>5. CellIs(r[k], h, h[i].window, h[i].price)
  BY <1>1, <1>3, <1>4 DEF WindowExact
<1> QED BY <1>3, <1>5, WholeWindows

\* The query of the base interval gives the reference.
LEMMA DirectAnswer ==
  ASSUME NEW q, Settled(rows, accepted, q), q.interval_seconds = BaseTf
  PROVE  Direct(rows, q) = Reference(q)
<1> DEFINE h == accepted
           K == Filter(rows, q)
           I == Idx(h, q)
           D == RefBuckets(h, q)
           Got(b) == [bid_qty |-> rows[b].bid_qty, ask_qty |-> rows[b].ask_qty,
                      trades |-> rows[b].trades,
                      ohlc |-> SubBar(rows, {k \in K : k[1] = b[1]})]
<1>1. Reference(q) = [b \in D |-> RefRow(h, q, b)]
  BY ReferenceIs
<1>2. Direct(rows, q) = [b \in K |-> Got(b)]
  BY Zenon DEF Direct
<1>3. \A i \in I : StartOfInterval(h[i].window, q.interval_seconds) = h[i].window
  BY DEF Settled, Aligned
<1>4. D = K
  <2>1. \A b : b \in D <=> \E i \in I : b = BucketOf(h[i])
    BY <1>3 DEF RefBuckets, BucketOf
  <2>2. \A b : b \in K <=> \E i \in I : b = BucketOf(h[i])
    BY SettledRow DEF Settled
  <2> HIDE DEF D, K
  <2> QED BY <2>1, <2>2
<1>5. ASSUME NEW b \in K PROVE Got(b) = RefRow(h, q, b)
  <2>1. PICK i \in I : b = BucketOf(h[i])
    BY DEF Settled
  <2> DEFINE w == h[i].window
             X == {k \in K : k[1] = w}
  <2>2. b[1] = w /\ b[2] = h[i].price
    BY <2>1 DEF BucketOf
  <2>3. CellIs(rows[b], h, w, b[2])
    BY <2>1, <2>2, SettledRow
  <2>4. SubBar(rows, X) = Candle(h, Traded(h, w))
    <3>1. h \in Seq(Booking) /\ WindowExact(rows, h, w)
      BY DEF Settled
    <3>2. X \in SUBSET DOMAIN rows /\ X # {} /\ \A k \in X : k[1] = w /\ rows[k] \in Row
      BY <2>2 DEF Settled, Filter
    <3> HIDE DEF X, w, h
    <3> QED BY <3>1, <3>2, SubCandle
  <2>5. Traded(h, w) \subseteq I
    BY WholeWindows
  <2>6. RefIn(h, q, b[1]) = Traded(h, w)
    BY <1>3, <2>2, <2>5 DEF RefIn, Traded, Idx
  <2>7. RefAt(h, q, b) = TradedAt(h, w, b[2])
    BY <1>3, <2>2, <2>5 DEF RefAt, Traded, TradedAt, Idx
  <2> DEFINE S(s) == {j \in TradedAt(h, w, b[2]) : h[j].side = s}
  <2>8. S("Bid") = Sided(h, w, b[2], "Bid") /\ S("Ask") = Sided(h, w, b[2], "Ask")
    BY DEF TradedAt, Sided
  <2>9. RefRow(h, q, b) = [bid_qty |-> Cardinality(S("Bid")), ask_qty |-> Cardinality(S("Ask")),
                           trades |-> Cardinality(TradedAt(h, w, b[2])),
                           ohlc |-> Candle(h, Traded(h, w))]
    BY <2>6, <2>7, Zenon DEF RefRow
  <2>10. Got(b) = [bid_qty |-> rows[b].bid_qty, ask_qty |-> rows[b].ask_qty,
                   trades |-> rows[b].trades, ohlc |-> SubBar(rows, X)]
    BY <2>2, Zenon
  <2> HIDE DEF S, X, w, h, Got
  <2> QED BY <2>3, <2>4, <2>8, <2>9, <2>10 DEF CellIs
<1> HIDE DEF D, K, Got, h
<1> QED BY <1>1, <1>2, <1>4, <1>5

\* So does the query that rolls up sub-windows.
LEMMA RollupAnswer ==
  ASSUME NEW q, Settled(rows, accepted, q)
  PROVE  Rollup(rows, q) = Reference(q)
<1> DEFINE h == accepted
           K == Filter(rows, q)
           I == Idx(h, q)
           D == RefBuckets(h, q)
           Rw(k) == StartOfInterval(k[1], q.interval_seconds)
           B(b) == {k \in K : Rw(k) = b[1] /\ k[2] = b[2]}
           X(b) == {k \in K : Rw(k) = b[1]}
           E == {<<Rw(k), k[2]>> : k \in K}
           Got(b) == [bid_qty |-> Sum([k \in B(b) |-> rows[k].bid_qty]),
                      ask_qty |-> Sum([k \in B(b) |-> rows[k].ask_qty]),
                      trades  |-> Sum([k \in B(b) |-> rows[k].trades]),
                      ohlc    |-> RolledBar(rows, X(b))]
<1>1. Reference(q) = [b \in D |-> RefRow(h, q, b)]
  BY ReferenceIs
<1>2. Rollup(rows, q) = [b \in E |-> Got(b)]
  BY Zenon DEF Rollup
<1>3. \A k : k \in K <=> \E i \in I : k = BucketOf(h[i])
  BY SettledRow DEF Settled
<1>4. \A i \in I : BucketOf(h[i])[1] = h[i].window /\ BucketOf(h[i])[2] = h[i].price
  BY DEF BucketOf
<1>5. D = E
  <2>1. \A b : b \in D <=> \E i \in I : b = <<Rw(BucketOf(h[i])), BucketOf(h[i])[2]>>
    BY <1>4 DEF RefBuckets
  <2>2. \A b : b \in E <=> \E k \in K : b = <<Rw(k), k[2]>>
    OBVIOUS
  <2> HIDE DEF D, E, Rw, K
  <2>3. \A b : b \in D <=> b \in E
    BY <1>3, <2>1, <2>2
  <2> QED BY <2>3
<1>6. ASSUME NEW b \in D PROVE Got(b) = RefRow(h, q, b)
  <2> DEFINE U == RefAt(h, q, b)
             T == RefIn(h, q, b[1])
             Bb == B(b)
             Xb == X(b)
  <2>1. h \in Seq(Booking) /\ U \in SUBSET DOMAIN h /\ T \in SUBSET DOMAIN h
        /\ U \subseteq I /\ T \subseteq I
    BY DEF Settled, RefAt, RefIn, Idx
  <2>2. /\ \A k \in K : k[1] \in {h[i].window : i \in I}
        /\ \A i \in I : \A j \in Traded(h, h[i].window) : j \in I /\ h[j].window = h[i].window
    BY <1>3, <1>4, WholeWindows DEF Traded
  <2>3. \A i \in I : i \in U <=> BucketOf(h[i]) \in Bb
    BY <1>3, <1>4 DEF RefAt
  <2>4. \A i \in I : i \in T <=> BucketOf(h[i]) \in Xb
    BY <1>3, <1>4 DEF RefIn
  <2>5. Bb \subseteq K /\ Xb \subseteq K
    OBVIOUS
  <2>6. T # {}
    <3>1. PICK i \in I : b = <<StartOfInterval(h[i].window, q.interval_seconds), h[i].price>>
      BY DEF RefBuckets
    <3> QED BY <3>1 DEF RefIn
  <2>7. \A i \in T : Traded(h, h[i].window) \subseteq T
    BY <2>1, <2>2 DEF RefIn
  <2>8. RolledBar(rows, Xb) = Candle(h, T)
    <3>1. Xb \in SUBSET DOMAIN rows /\ \A k \in Xb : rows[k] \in Row
      BY <2>5 DEF Filter, Settled
    <3>2. /\ \A k \in Xb : \E i \in T : k = BucketOf(h[i])
          /\ \A i \in T : BucketOf(h[i]) \in Xb
      <4> HIDE DEF Xb, T, K, I
      <4> QED BY <1>3, <2>1, <2>4, <2>5
    <3>3. \A i \in T : WindowExact(rows, h, h[i].window) /\ Traded(h, h[i].window) \subseteq T
      BY <2>1, <2>7 DEF Settled
    <3>4. \A i, j \in T : i < j => h[i].window <= h[j].window
      BY <2>1 DEF Settled
    <3> HIDE DEF Xb, T, h
    <3> QED BY <2>1, <2>6, <3>1, <3>2, <3>3, <3>4, RolledCandle
  <2>9. /\ \A k \in Bb : k = <<k[1], k[2]>> /\ CellIs(rows[k], h, k[1], k[2])
        /\ \A k \in Bb : TradedAt(h, k[1], k[2]) \subseteq U
        /\ \A i \in U : BucketOf(h[i]) \in Bb
    <3>1. ASSUME NEW k \in Bb
          PROVE  /\ k = <<k[1], k[2]>> /\ CellIs(rows[k], h, k[1], k[2])
                 /\ TradedAt(h, k[1], k[2]) \subseteq U
      <4>1. PICK i \in I : k = BucketOf(h[i])
        BY <1>3, <2>5
      <4>2. k = <<k[1], k[2]>>
        BY <4>1 DEF BucketOf
      <4>3. k[1] = h[i].window /\ k[2] = h[i].price
        BY <1>4, <4>1
      <4>4. CellIs(rows[k], h, k[1], k[2])
        BY <4>1, <4>3, SettledRow
      <4>5. ASSUME NEW j \in TradedAt(h, k[1], k[2]) PROVE j \in U
        <5>1. j \in Traded(h, h[i].window) /\ h[j].window = k[1] /\ h[j].price = k[2]
          BY <4>3 DEF Traded, TradedAt
        <5>2. j \in I
          BY <2>2, <5>1
        <5>3. BucketOf(h[j]) = k
          BY <4>2, <5>1 DEF BucketOf
        <5> QED BY <2>3, <5>2, <5>3
      <4> QED BY <4>2, <4>4, <4>5
    <3>2. \A i \in U : BucketOf(h[i]) \in Bb
      BY <2>1, <2>3
    <3> QED BY <3>1, <3>2
  <2>10. /\ Sum([k \in Bb |-> rows[k].trades]) = Cardinality(U)
         /\ Sum([k \in Bb |-> rows[k].bid_qty]) = Cardinality({i \in U : h[i].side = "Bid"})
         /\ Sum([k \in Bb |-> rows[k].ask_qty]) = Cardinality({i \in U : h[i].side = "Ask"})
    <3> HIDE DEF Bb, U, h
    <3> QED BY <2>1, <2>9, BucketSum
  <2>11. RefRow(h, q, b) = [bid_qty |-> Cardinality({i \in U : h[i].side = "Bid"}),
                            ask_qty |-> Cardinality({i \in U : h[i].side = "Ask"}),
                            trades |-> Cardinality(U), ohlc |-> Candle(h, T)]
    BY Zenon DEF RefRow
  <2>12. Got(b) = [bid_qty |-> Sum([k \in Bb |-> rows[k].bid_qty]),
                   ask_qty |-> Sum([k \in Bb |-> rows[k].ask_qty]),
                   trades |-> Sum([k \in Bb |-> rows[k].trades]),
                   ohlc |-> RolledBar(rows, Xb)]
    BY Zenon
  <2> HIDE DEF U, T, Bb, Xb, h, Got
  <2> QED BY <2>8, <2>10, <2>11, <2>12, Zenon
<1> HIDE DEF D, E, Got, h
<1> QED BY <1>1, <1>2, <1>5, <1>6

\* The values of a finite function are finitely many.
LEMMA ImageFinite ==
  ASSUME NEW f, IsFiniteSet(DOMAIN f)
  PROVE  IsFiniteSet({f[i] : i \in DOMAIN f})
<1> DEFINE S == DOMAIN f
           T == {f[i] : i \in S}
           g == [i \in S |-> f[i]]
<1>1. g \in Surjection(S, T)
  BY DEF Surjection
<1> HIDE DEF g, T, S
<1>2. IsFiniteSet(T)
  BY <1>1, FS_Surjection DEF S
<1> QED BY <1>2 DEF T, S

\* The reference has finitely many rows, in an order.
LEMMA ReferenceFinite ==
  ASSUME NEW q \in Ranges, accepted \in Seq(Booking)
  PROVE  /\ DOMAIN Reference(q) = RefBuckets(accepted, q)
         /\ Reference(q) = [b \in DOMAIN Reference(q) |-> Reference(q)[b]]
         /\ IsFiniteSet(RefBuckets(accepted, q))
         /\ \A b \in RefBuckets(accepted, q) : b[1] \in Int /\ b[2] \in Int
<1> DEFINE h == accepted
           I == Idx(h, q)
           n == q.interval_seconds
           f == [i \in I |-> <<StartOfInterval(h[i].window, n), h[i].price>>]
<1>1. DOMAIN Reference(q) = RefBuckets(h, q)
      /\ Reference(q) = [b \in DOMAIN Reference(q) |-> Reference(q)[b]]
  BY ReferenceIs
<1>2. I \in SUBSET DOMAIN h
  BY DEF Idx
<1>3. IsFiniteSet(I)
  <2> HIDE DEF I
  <2> QED BY <1>2, PositionsFinite
<1>4. RefBuckets(h, q) = {f[i] : i \in DOMAIN f} /\ DOMAIN f = I
  BY DEF RefBuckets
<1>5. IsFiniteSet(RefBuckets(h, q))
  <2> HIDE DEF f, I
  <2> QED BY <1>3, <1>4, ImageFinite
<1>6. n \in Nat \ {0}
  BY ServerAssumption, TimeframeAssumption
<1>7. ASSUME NEW i \in I
      PROVE  StartOfInterval(h[i].window, n) \in Nat /\ h[i].price \in Nat
  <2>1. h[i] \in Booking
    BY <1>2
  <2>2. h[i].window \in Nat /\ h[i].price \in Nat
    BY <2>1 DEF Booking, Price
  <2> DEFINE w == h[i].window
  <2> HIDE DEF n, w
  <2>3. StartOfInterval(w, n) \in Nat
    BY <1>6, <2>2, WindowStart DEF w
  <2> QED BY <2>2, <2>3 DEF w
<1>8. \A b \in RefBuckets(h, q) : b[1] \in Int /\ b[2] \in Int
  <2> TAKE b \in RefBuckets(h, q)
  <2>1. PICK i \in I : b = <<StartOfInterval(h[i].window, n), h[i].price>>
    BY DEF RefBuckets
  <2> QED BY <1>7, <2>1
<1> QED BY <1>1, <1>5, <1>8

\* The answer to a request for settled windows is the reference.
LEMMA ExactAnswers == ExactInv => RollupExact
<1> SUFFICES ASSUME ExactInv, NEW q \in Ranges,
                    NEW W, W = {w \in q.from..(q.to - 1) : StartOfInterval(w, BaseTf) = w},
                    W \cap (torn \cup expired) = {},
                    \A w \in W : w < bar.window,
                    Cardinality(DOMAIN cluster_range(rows, q)) < MaxBars
             PROVE  cluster_range(rows, q) = Reference(q)
  BY DEF RollupExact
<1>1. Settled(rows, accepted, q)
  BY RangeSettled
<1>2. build_range_sql(rows, q) = Reference(q)
  BY <1>1, DirectAnswer, RollupAnswer DEF build_range_sql
<1>3. cluster_range(rows, q) = Parsed(Reference(q))
  BY <1>2 DEF cluster_range
<1> DEFINE f == Reference(q)
<1>4. f = [b \in DOMAIN f |-> f[b]] /\ IsFiniteSet(DOMAIN f)
      /\ \A b \in DOMAIN f : b[1] \in Int /\ b[2] \in Int
  <2>1. accepted \in Seq(Booking)
    BY <1>1 DEF Settled
  <2> QED BY <2>1, ReferenceFinite
<1>5. Cardinality(DOMAIN Parsed(f)) < MaxBars
  BY <1>3
<1> HIDE DEF f
<1>6. Parsed(f) = f
  BY <1>4, <1>5, CapNotReached
<1> QED BY <1>3, <1>6 DEF f

\* A range of closed windows, none torn by the end of a process and none expired,
\* is answered exactly (build_range_sql and the loop of cluster_range): sums and
\* OHLC, of rows written at different times and rolled up to any interval, are
\* those an aggregator of that interval would have made of the booked trades.
THEOREM AnswersExact == Spec => []RollupExact
  BY ExactInvariance, ExactAnswers, PTL

=============================================================================
