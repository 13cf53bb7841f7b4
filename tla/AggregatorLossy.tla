---------------------------- MODULE AggregatorLossy ----------------------------
(***************************************************************************)
(* The aggregator with a table some Snapshots never reach: the ClickHouse  *)
(* fanout lags, or the writer gives rows up.  `stored' is that table and   *)
(* `missed' the windows whose closing Snapshot was among the lost frames;  *)
(* `table' of module Aggregator stays the table that misses nothing.       *)
(***************************************************************************)
EXTENDS Footprints

VARIABLES stored, missed

lossyVars == <<vars, stored, missed>>

LossyInit == Init /\ stored = EmptyMap /\ missed = {}

\* The frame of this step is a window's closing Snapshot.
Closes == window' # window \/ task' = "exited"

\* The frame's rows are written.
Store ==
  /\ stored' = Upsert(stored, Rows(published'))
  /\ UNCHANGED missed

\* The frame is lost.
Lose ==
  /\ missed' = IF Closes THEN missed \cup {published'.window} ELSE missed
  /\ UNCHANGED stored

LossyNext ==
  /\ Next
  /\ IF published' # published /\ published'.kind = "Snapshot"
     THEN Store \/ Lose
     ELSE UNCHANGED <<stored, missed>>

LossySpec == LossyInit /\ [][LossyNext]_lossyVars

-----------------------------------------------------------------------------
(***************************************************************************)
(* "even if N delta emits are lost, closing restores the correct state of  *)
(* the window" (task.rs, run_aggregator): whichever deltas were lost, a    *)
(* closed window whose closing Snapshot was written is stored exactly.     *)
(***************************************************************************)
ClosingRestores ==
  \A w \in Windows(history) \ missed :
    Closed(w) => StoredExactly(stored, history, w)

(***************************************************************************)
(* "If a delta emit is lost, the next delta or the closing snapshot        *)
(* restores the correct state" (aggregator.rs, current_window_delta): once *)
(* a Snapshot is written, the open window is stored as accumulated.  The   *)
(* next delta holds only the buckets traded since the lost one.            *)
(***************************************************************************)
NextDeltaRestores ==
  [][ stored' # stored =>
        \A b \in DOMAIN accum :
          /\ <<window, b>> \in DOMAIN stored'
          /\ stored'[<<window, b>>].cell = accum[b] ]_stored

(* The strengthening that makes ClosingRestores inductive.                 *)

\* Rows are of the open window or of earlier ones, and a row of the open
\* window is of a bucket the closing Snapshot will carry.
StoredBehindAccum ==
  /\ DOMAIN stored \subseteq Nat \X Nat
  /\ task = "running" =>
       \A k \in DOMAIN stored : /\ k[1] <= window
                                /\ k[1] = window => k[2] \in DOMAIN accum

LInv == FInv /\ StoredBehindAccum /\ ClosingRestores

=============================================================================
