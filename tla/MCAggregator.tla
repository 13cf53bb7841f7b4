----------------------------- MODULE MCAggregator -----------------------------
(***************************************************************************)
(* Model-checking instance of AggregatorLossy.                             *)
(***************************************************************************)
EXTENDS AggregatorLossy

\* Timestamps of three windows of length 2; two buckets of width 10, one of
\* them holding two raw prices; a quantity that saturates at MaxQty = 3.
MCTrades ==
  [exchange_ts_ns : {1}, aggressor : {"Bid"}, price : {10, 13, 25}, qty : {2}]
  \cup
  [exchange_ts_ns : {2}, aggressor : {"Bid"}, price : {10, 25}, qty : {2}]
  \cup
  [exchange_ts_ns : {3}, aggressor : {"Ask"}, price : {25}, qty : {0, 1}]
  \cup
  [exchange_ts_ns : {4}, aggressor : {"Bid"}, price : {13}, qty : {2}]

MCClock == {2, 4}

=============================================================================
