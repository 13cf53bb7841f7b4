------------------------------- MODULE TradePath -------------------------------
(***************************************************************************)
(* The path of one symbol's trades from the WebSocket session to its       *)
(* aggregators: the session's try_send into the symbol's sink              *)
(* (crates/cluster-ingest/src/binance_session.rs, handle_payload), the     *)
(* trade fanout spawn_symbol starts (binance_supervisor.rs), which         *)
(* try_sends every trade to the channel of each timeframe, and recv() of   *)
(* the aggregator tasks (crates/cluster-engine/src/task.rs).               *)
(*                                                                         *)
(* A trade is its position in the stream of trades the session parsed.     *)
(* The fanout and the aggregators run on different threads, so an          *)
(* aggregator may receive between two try_sends of one trade.              *)
(* An aggregator ends only when its channel is closed, hence the fanout's  *)
(* TrySendError::Closed branch, which does nothing, is never taken.        *)
(* The rate-limited warnings are left out.                                 *)
(***************************************************************************)
EXTENDS Integers, Sequences, FiniteSets

CONSTANTS
  Timeframes,   \* ingest.timeframes_secs
  Busy,         \* timeframes whose aggregator may stop receiving for ever
  TradeBound,   \* ingest.trade_channel_bound, the capacity of every channel
  MaxTrades     \* bound on the trades the session parses

ASSUME TradePathAssumption ==
  /\ Timeframes # {} /\ IsFiniteSet(Timeframes) /\ Busy \subseteq Timeframes
  /\ TradeBound \in Nat \ {0} /\ MaxTrades \in Nat

VARIABLES
  parsed,       \* trades the session has parsed
  sink_open,    \* some sender of the symbol's sink is alive
  sink,         \* the symbol's sink
  trades_emitted, trades_dropped_backpressure,   \* SessionStats
  fanout,       \* "recv", "sending" or "exited"
  trade,        \* the trade the fanout is sending
  todo,         \* timeframes it has not been sent to yet
  queue,        \* the channel of each timeframe
  drops_full,   \* the fanout's counter for each timeframe
  received,     \* what each aggregator has received
  running       \* timeframes whose aggregator task runs

sessionVars == <<parsed, sink_open, trades_emitted, trades_dropped_backpressure>>
fanoutVars  == <<fanout, trade, todo, drops_full>>
aggVars     == <<received, running>>
vars        == <<sessionVars, sink, fanoutVars, queue, aggVars>>

Init ==
  /\ parsed = 0
  /\ sink_open = TRUE
  /\ sink = <<>>
  /\ trades_emitted = 0 /\ trades_dropped_backpressure = 0
  /\ fanout = "recv" /\ trade = 0 /\ todo = {}
  /\ queue = [tf \in Timeframes |-> <<>>]
  /\ drops_full = [tf \in Timeframes |-> 0]
  /\ received = [tf \in Timeframes |-> <<>>]
  /\ running = Timeframes

-----------------------------------------------------------------------------
(* The session.                                                            *)

\* handle_payload: try_send succeeds, or the trade is dropped and counted.
\* The session holds a sender, so the sink it sends to is open.
SessionTrade ==
  /\ sink_open /\ parsed < MaxTrades
  /\ parsed' = parsed + 1
  /\ \/ /\ Len(sink) < TradeBound
        /\ sink' = Append(sink, parsed')
        /\ trades_emitted' = trades_emitted + 1
        /\ UNCHANGED trades_dropped_backpressure
     \/ /\ Len(sink) = TradeBound
        /\ trades_dropped_backpressure' = trades_dropped_backpressure + 1
        /\ UNCHANGED <<sink, trades_emitted>>
  /\ UNCHANGED <<sink_open, fanoutVars, queue, aggVars>>

\* The last sender of the sink is dropped (the symbol is removed and the
\* session cycled, or the server stops).
DropSink ==
  /\ sink_open
  /\ sink_open' = FALSE
  /\ UNCHANGED <<parsed, sink, trades_emitted, trades_dropped_backpressure,
                 fanoutVars, queue, aggVars>>

-----------------------------------------------------------------------------
(* The fanout.                                                             *)

FanoutRecv ==
  /\ fanout = "recv" /\ sink # <<>>
  /\ trade' = Head(sink)
  /\ sink' = Tail(sink)
  /\ todo' = Timeframes
  /\ fanout' = "sending"
  /\ UNCHANGED <<sessionVars, drops_full, queue, aggVars>>

\* Where the loop over the timeframes stands after one try_send.
Advance(tf) ==
  /\ todo' = todo \ {tf}
  /\ fanout' = IF todo' = {} THEN "recv" ELSE "sending"

\* Faulty variants: a blocking send; a silent drop.
FanoutSendBlocking(tf) ==
  /\ fanout = "sending" /\ tf \in todo
  /\ Len(queue[tf]) < TradeBound
  /\ queue' = [queue EXCEPT ![tf] = Append(@, trade)]
  /\ Advance(tf)
  /\ UNCHANGED <<sessionVars, sink, trade, drops_full, aggVars>>

FanoutSendSilent(tf) ==
  /\ fanout = "sending" /\ tf \in todo
  /\ queue' = [queue EXCEPT ![tf] = IF Len(@) < TradeBound THEN Append(@, trade) ELSE @]
  /\ Advance(tf)
  /\ UNCHANGED <<sessionVars, sink, trade, drops_full, aggVars>>

\* tx.try_send(trade) for one timeframe.  The code goes through them in
\* order; no property depends on it.
FanoutSend(tf) ==
  /\ fanout = "sending" /\ tf \in todo
  /\ \/ /\ Len(queue[tf]) < TradeBound
        /\ queue' = [queue EXCEPT ![tf] = Append(@, trade)]
        /\ UNCHANGED drops_full
     \/ /\ Len(queue[tf]) = TradeBound
        /\ drops_full' = [drops_full EXCEPT ![tf] = @ + 1]
        /\ UNCHANGED queue
  /\ Advance(tf)
  /\ UNCHANGED <<sessionVars, sink, trade, aggVars>>

\* Faulty variant: the fanout leaves as soon as the sink is closed.
FanoutExitEarly ==
  /\ fanout = "recv" /\ ~sink_open
  /\ fanout' = "exited"
  /\ UNCHANGED <<sessionVars, sink, trade, todo, drops_full, queue, aggVars>>

\* recv() yields None once the sink is closed and drained; the senders of the
\* timeframes' channels are dropped with the task.
FanoutExit ==
  /\ fanout = "recv" /\ ~sink_open /\ sink = <<>>
  /\ fanout' = "exited"
  /\ UNCHANGED <<sessionVars, sink, trade, todo, drops_full, queue, aggVars>>

-----------------------------------------------------------------------------
(* The aggregator tasks.                                                   *)

AggregatorRecv(tf) ==
  /\ tf \in running /\ queue[tf] # <<>>
  /\ received' = [received EXCEPT ![tf] = Append(@, Head(queue[tf]))]
  /\ queue' = [queue EXCEPT ![tf] = Tail(@)]
  /\ UNCHANGED <<sessionVars, sink, fanoutVars, running>>

AggregatorExit(tf) ==
  /\ tf \in running /\ queue[tf] = <<>> /\ fanout = "exited"
  /\ running' = running \ {tf}
  /\ UNCHANGED <<sessionVars, sink, fanoutVars, queue, received>>

FanoutStep == FanoutRecv \/ (\E tf \in Timeframes : FanoutSend(tf)) \/ FanoutExit
AggregatorStep(tf) == AggregatorRecv(tf) \/ AggregatorExit(tf)

Next ==
  \/ SessionTrade
  \/ DropSink
  \/ FanoutStep
  \/ \E tf \in Timeframes : AggregatorStep(tf)

Spec == Init /\ [][Next]_vars

\* A task that can be polled is polled; a busy aggregator need not be.
FairSpec ==
  /\ Spec
  /\ WF_vars(FanoutStep)
  /\ \A tf \in Timeframes \ Busy : WF_vars(AggregatorStep(tf))

-----------------------------------------------------------------------------
(***************************************************************************)
(* Types; every channel within its capacity.                               *)
(***************************************************************************)
TypeOK ==
  /\ parsed \in 0 .. MaxTrades /\ sink_open \in BOOLEAN
  /\ trades_emitted \in Nat /\ trades_dropped_backpressure \in Nat
  /\ sink \in Seq(Nat) /\ Len(sink) <= TradeBound
  /\ fanout \in {"recv", "sending", "exited"}
  /\ trade \in Nat /\ todo \subseteq Timeframes
  /\ queue \in [Timeframes -> Seq(Nat)]
  /\ \A tf \in Timeframes : Len(queue[tf]) <= TradeBound
  /\ drops_full \in [Timeframes -> Nat]
  /\ received \in [Timeframes -> Seq(Nat)]
  /\ running \subseteq Timeframes
  /\ (todo # {}) <=> (fanout = "sending")

(***************************************************************************)
(* The way of the trades to each timeframe is a lossy stream: what an      *)
(* aggregator receives, with what is still on its way to it, is in the     *)
(* order of the session and without repetition, whatever was dropped at    *)
(* either channel, and every drop is in one of the two counters.  (The     *)
(* comment on the fanout tells of earlier silent drops that let timeframes *)
(* diverge unnoticed.)                                                     *)
(***************************************************************************)
Hand(tf) == IF tf \in todo THEN <<trade>> ELSE <<>>
OnTheWay(tf) == queue[tf] \o Hand(tf) \o sink

Streams == INSTANCE LossyStream WITH
  Readers <- Timeframes, fed <- parsed, out <- received,
  transit <- [tf \in Timeframes |-> OnTheWay(tf)],
  lost <- [tf \in Timeframes |-> trades_dropped_backpressure + drops_full[tf]]

IsLossyStream == Streams!Spec

(***************************************************************************)
(* An aggregator flushes and exits only after it has received everything   *)
(* that entered the sink and was not counted as dropped.                   *)
(***************************************************************************)
ExitAfterDrain ==
  \A tf \in Timeframes \ running :
    Len(received[tf]) + drops_full[tf] = trades_emitted

(***************************************************************************)
(* "try_send, so that ONE slow TF does not block the fast ones"            *)
(* (binance_supervisor.rs, trade fanout): while the busy aggregators may   *)
(* receive nothing more, every trade emitted reaches each of the others or *)
(* is counted as dropped for it.                                           *)
(***************************************************************************)
FastTimeframesServed ==
  \A tf \in Timeframes \ Busy : \A n \in 1 .. MaxTrades :
    (trades_emitted = n) ~> (Len(received[tf]) + drops_full[tf] >= n)

(***************************************************************************)
(* The domino of closed channels: once the last sender of the sink is      *)
(* gone, every aggregator that keeps receiving drains and exits.           *)
(***************************************************************************)
CloseDrains ==
  \A tf \in Timeframes \ Busy : ~sink_open ~> (tf \notin running)
=============================================================================
