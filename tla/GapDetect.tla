------------------------------- MODULE GapDetect -------------------------------
(***************************************************************************)
(* detect_gap of crates/cluster-ingest/src/binance_session.rs: the         *)
(* accounting of missed trades on Binance's contiguous aggTrade ids.       *)
(* gap_state holds the last id per symbol (absent before the first trade)  *)
(* for the life of a session; the counters are the session's.              *)
(***************************************************************************)
EXTENDS Naturals, FiniteSets

\* The trades skipped between the last id and this one.
Missed(last, id) == IF id > last + 1 THEN id - last - 1 ELSE 0

\* Faulty variant: the last id may go back.
LastIsLatest(last, id) == id

\* "it never regresses": duplicates and late ids leave the last id alone.
LastId(last, id) == IF id > last THEN id ELSE last

\* seen, first and ordered are history: every id, the first one, and whether no
\* id came after a larger one.  last = 0 stands for a symbol without an entry.
NoGapState ==
  [last |-> 0, gaps_detected |-> 0, trades_missing |-> 0,
   first |-> 0, seen |-> {}, ordered |-> TRUE]

\* The first id of a symbol primes the state.
DetectGap(g, id) ==
  LET missed == IF g.last = 0 THEN 0 ELSE Missed(g.last, id)
  IN  [last |-> IF g.last = 0 THEN id ELSE LastId(g.last, id),
       gaps_detected |-> g.gaps_detected + (IF missed > 0 THEN 1 ELSE 0),
       trades_missing |-> g.trades_missing + missed,
       first |-> IF g.first = 0 THEN id ELSE g.first,
       seen |-> g.seen \union {id},
       ordered |-> g.ordered /\ id >= g.last]

-----------------------------------------------------------------------------
\* Ids between the first and the largest one that never arrived, and the runs
\* they make, each told by the id just after it.
Unseen(g) == (g.first .. g.last) \ (g.seen \union {0})
Holes(g) == {id \in g.seen : id > g.first /\ (id - 1) \notin g.seen}

\* "We record every hole exactly into stats", as long as ids arrive in order.
MissingExact(g) ==
  g.ordered => /\ g.trades_missing = Cardinality(Unseen(g))
               /\ g.gaps_detected = Cardinality(Holes(g))

\* In any order, no missed trade goes unreported, and a late or repeated id is
\* not taken for a new hole: the counters stay within the span of ids seen.
NeverUndercounts(g) == g.trades_missing >= Cardinality(Unseen(g))
NoPhantomHole(g) == g.last # 0 => g.trades_missing + g.gaps_detected <= g.last - g.first
=============================================================================
