------------------------------- MODULE Supervisor -------------------------------
(***************************************************************************)
(* One exchange supervisor of crates/cluster-ingest/src/                   *)
(* binance_supervisor.rs: the discovery loop (run, reconcile_once), the    *)
(* session loop it feeds through a `watch' of routes (run_session_loop),   *)
(* and the tasks spawn_symbol starts for a symbol: the trade fanout, the   *)
(* aggregator and the ClickHouse fanout.                                   *)
(*                                                                         *)
(* An incarnation <<symbol, n>> is one call of spawn_symbol; it stands for *)
(* the SymbolHandle, its tasks and its trade channel.  A task ends when    *)
(* the last sender of its channel is gone, so what the model follows is    *)
(* who holds a clone of an incarnation's trade_tx: the handle map, the     *)
(* value inside the watch, the snapshot the session runs on.  The watch's  *)
(* value lives as long as its Sender (a field of the supervisor, dropped   *)
(* when run returns) or its Receiver (dropped when the session exits).     *)
(* Timeframes are independent of each other here and one is modelled.      *)
(* Trades are left out (a fanout is done when its channel is closed and    *)
(* drained); so are the wire sessions, which may end at any time.          *)
(***************************************************************************)
EXTENDS Integers, FiniteSets

CONSTANTS
  Symbols,     \* symbols that pass filter_symbols
  TopN,        \* cfg.top_n (None: the number of symbols)
  BackoffMin,
  BackoffMax,
  MaxGen,      \* bound on the incarnations of a symbol
  MaxSpawns    \* bound on the incarnations of all symbols

ASSUME SupervisorAssumption ==
  /\ IsFiniteSet(Symbols)
  /\ TopN \in Nat /\ MaxGen \in Nat /\ MaxSpawns \in Nat
  /\ BackoffMin \in Nat /\ BackoffMax \in Nat

Incarnations == Symbols \X (1 .. MaxGen)

VARIABLES
  shutdown,  \* value of the shutdown watch
  sup,       \* where run is
  handles,   \* the handle map: symbol -> its incarnation's number, 0 for none
  gen,       \* incarnations of each symbol so far
  joins,     \* incarnations whose tasks run is waiting for
  routes,    \* incarnations whose sink is in the watch's value
  unseen,    \* the session's receiver has not seen the last send_replace
  sess,      \* where run_session_loop is
  snap,      \* routes_snapshot of the session's current iteration
  backoff,
  fan,       \* incarnations whose trade fanout runs
  agg,       \* incarnations whose aggregator runs
  chf,       \* the ClickHouse fanout of each incarnation
  frame      \* what became of the aggregator's final frame

supVars  == <<sup, handles, gen, joins, routes>>
sessVars == <<sess, snap, backoff>>
taskVars == <<fan, agg, chf, frame>>
vars     == <<shutdown, unseen, supVars, sessVars, taskVars>>

\* The incarnations a map holds, one per symbol at most: its values().
Values(map) == {<<s, map[s]>> : s \in {u \in Symbols : map[u] # 0}}

Init ==
  /\ shutdown = FALSE
  /\ sup = "select"
  /\ handles = [s \in Symbols |-> 0]
  /\ gen = [s \in Symbols |-> 0]
  /\ joins = {}
  /\ routes = {}
  /\ unseen = FALSE
  /\ sess = "top"
  /\ snap = {}
  /\ backoff = BackoffMin
  /\ fan = {}
  /\ agg = {}
  /\ chf = [i \in Incarnations |-> "none"]
  /\ frame = [i \in Incarnations |-> "none"]

(***************************************************************************)
(* main: ctrl-c flips the shutdown watch.                                  *)
(***************************************************************************)
CtrlC ==
  /\ ~shutdown
  /\ shutdown' = TRUE
  /\ UNCHANGED <<unseen, supVars, sessVars, taskVars>>

-----------------------------------------------------------------------------
(***************************************************************************)
(* The discovery loop.  Shutdown is not polled while reconcile_once waits  *)
(* for the exchange.                                                       *)
(***************************************************************************)
DiscoveryTick ==
  /\ sup = "select"
  /\ sup' = "discovering"
  /\ UNCHANGED <<shutdown, unseen, handles, gen, joins, routes, sessVars, taskVars>>

\* fetch_symbols failed: logged, retried on the next tick.
DiscoveryFailed ==
  /\ sup = "discovering"
  /\ sup' = "select"
  /\ UNCHANGED <<shutdown, unseen, handles, gen, joins, routes, sessVars, taskVars>>

(***************************************************************************)
(* rank_specs and the cut at top_n.  Volumes may change between polls and  *)
(* the ranker may fail (the fetch order is used instead), so any set of    *)
(* the right size can come out on top.                                     *)
(***************************************************************************)
Wanted(listed) ==
  {w \in SUBSET listed :
     Cardinality(w) = IF Cardinality(listed) < TopN THEN Cardinality(listed) ELSE TopN}

\* Faulty variant: the fanouts of a removed symbol are left to themselves.
NotAborted(S) == chf

\* abort() of the ClickHouse fanouts of the incarnations in S.
Aborted(S) ==
  [i \in Incarnations |-> IF i \in S /\ chf[i] = "running" THEN "aborting" ELSE chf[i]]

(***************************************************************************)
(* send_replace, only when a symbol came or went.                          *)
(***************************************************************************)
\* Faulty variants: a poll that only removes symbols publishes nothing; new
\* routes are put beside the ones that are there.
PublishOnAddOnly(removed, added) ==
  IF added # {}
  THEN routes' = Values(handles') /\ unseen' = (sess # "exited")
  ELSE UNCHANGED <<routes, unseen>>

PublishAppends(removed, added) ==
  IF removed # {} \/ added # {}
  THEN routes' = routes \cup added /\ unseen' = (sess # "exited")
  ELSE UNCHANGED <<routes, unseen>>

PublishRoutes(removed, added) ==
  IF removed # {} \/ added # {}
  THEN routes' = Values(handles') /\ unseen' = (sess # "exited")
  ELSE UNCHANGED <<routes, unseen>>

\* The symbols a poll spawns: those wanted without a handle.
ToSpawn(wanted) == {s \in wanted : handles[s] = 0}

(***************************************************************************)
(* reconcile_once after its awaits: it holds the handle lock and does not  *)
(* yield, so it is one step.  Symbols no longer wanted lose their handle,  *)
(* and with it one clone of the sink, and their ClickHouse fanout is       *)
(* aborted; new ones are spawned; then the routes are published.           *)
(***************************************************************************)
ReconcileOnce(wanted) ==
  LET removed == {i \in Values(handles) : i[1] \notin wanted}
      spawned == ToSpawn(wanted)
      added   == {<<s, gen[s] + 1>> : s \in spawned}
  IN  /\ sup = "discovering"
      /\ \A s \in spawned : gen[s] < MaxGen
      /\ Cardinality({i \in Incarnations : i[2] <= gen[i[1]]} \cup added) <= MaxSpawns
      /\ sup' = "select"
      /\ handles' = [s \in Symbols |-> IF s \in spawned THEN gen[s] + 1
                                      ELSE IF s \in wanted THEN handles[s] ELSE 0]
      /\ gen' = [s \in Symbols |-> IF s \in spawned THEN gen[s] + 1 ELSE gen[s]]
      /\ PublishRoutes(removed, added)
      /\ fan' = fan \union added
      /\ agg' = agg \union added
      /\ chf' = [i \in Incarnations |-> IF i \in added THEN "running" ELSE Aborted(removed)[i]]
      /\ UNCHANGED <<shutdown, joins, sessVars, frame>>

(***************************************************************************)
(* run leaves its loop: handles are drained, their sinks dropped, their    *)
(* ClickHouse fanouts aborted; the other tasks are joined, then the        *)
(* session.                                                                *)
(***************************************************************************)
ShutdownSeen ==
  /\ sup = "select" /\ shutdown
  /\ sup' = "joining"
  /\ handles' = [s \in Symbols |-> 0]
  /\ joins' = Values(handles)
  /\ chf' = Aborted(Values(handles))
  /\ UNCHANGED <<shutdown, unseen, gen, routes, sessVars, fan, agg, frame>>

RunReturns ==
  /\ sup = "joining"
  /\ joins \intersect (fan \union agg) = {}
  /\ sess = "exited"
  /\ sup' = "returned"
  /\ UNCHANGED <<shutdown, unseen, handles, gen, joins, routes, sessVars, taskVars>>

-----------------------------------------------------------------------------
(***************************************************************************)
(* run_session_loop.  borrow() does not mark the value seen.               *)
(***************************************************************************)
SessionTop ==
  /\ sess = "top" /\ ~shutdown
  /\ snap' = routes
  /\ sess' = IF routes = {} THEN "wait" ELSE "run"
  /\ UNCHANGED <<shutdown, unseen, supVars, backoff, taskVars>>

\* routes_rx.changed(), while waiting for a first symbol or under a session:
\* the iteration ends and its snapshot is dropped.
RoutesChanged ==
  /\ sess \in {"wait", "run"} /\ unseen
  /\ unseen' = FALSE
  /\ sess' = "top"
  /\ snap' = {}
  /\ UNCHANGED <<shutdown, supVars, backoff, taskVars>>

\* The wire session ends, cleanly or with an error.
SessionEnds ==
  /\ sess = "run"
  /\ sess' \in {"sleep_min", "sleep_backoff"}
  /\ UNCHANGED <<shutdown, unseen, supVars, snap, backoff, taskVars>>

\* (backoff * 2).min(backoff_max)
NextBackoff(b) == IF b * 2 < BackoffMax THEN b * 2 ELSE BackoffMax

\* The pause is over; the iteration's snapshot was held through it.
\* Faulty variant: a route change seen during the pause is consumed and the
\* session reconnects with the snapshot it has.
SleepKeepsSnapshot ==
  /\ sess \in {"sleep_min", "sleep_backoff"}
  /\ sess' = "run"
  /\ unseen' = FALSE
  /\ backoff' = IF sess = "sleep_min" THEN BackoffMin ELSE NextBackoff(backoff)
  /\ UNCHANGED <<shutdown, supVars, snap, taskVars>>

SleepElapsed ==
  /\ sess \in {"sleep_min", "sleep_backoff"}
  /\ sess' = "top"
  /\ snap' = {}
  /\ backoff' = IF sess = "sleep_min" THEN BackoffMin ELSE NextBackoff(backoff)
  /\ UNCHANGED <<shutdown, unseen, supVars, taskVars>>

\* Every wait of the loop, and its head, watches the shutdown flag.
\* Faulty variant: the flag is looked at between sessions only.
SessionShutdownBetween ==
  /\ shutdown /\ sess \notin {"run", "exited"}
  /\ sess' = "exited"
  /\ snap' = {}
  /\ unseen' = FALSE
  /\ UNCHANGED <<shutdown, supVars, backoff, taskVars>>

SessionShutdown ==
  /\ shutdown /\ sess # "exited"
  /\ sess' = "exited"
  /\ snap' = {}
  /\ unseen' = FALSE
  /\ UNCHANGED <<shutdown, supVars, backoff, taskVars>>

-----------------------------------------------------------------------------
(***************************************************************************)
(* The tasks of an incarnation: the domino of closed channels.             *)
(***************************************************************************)
WatchAlive == sup # "returned" \/ sess # "exited"

SinkHeld(i) ==
  \/ i \in Values(handles)
  \/ i \in snap
  \/ i \in routes /\ WatchAlive

\* Faulty variant of FanoutExit: routes hold weak senders, the handle the only strong one.
FanoutExitWithHandle(i) ==
  /\ i \in fan \ Values(handles)
  /\ fan' = fan \ {i}
  /\ UNCHANGED <<shutdown, unseen, supVars, sessVars, agg, chf, frame>>

\* session_rx.recv() yields None; the per-timeframe senders are dropped.
FanoutExit(i) ==
  /\ i \in fan /\ ~SinkHeld(i)
  /\ fan' = fan \ {i}
  /\ UNCHANGED <<shutdown, unseen, supVars, sessVars, agg, chf, frame>>

\* The aggregator flushes a final frame, if it has one, and exits.  The bus
\* drops what is published when nobody receives.
AggregatorExit(i) ==
  /\ i \in agg /\ i \notin fan
  /\ agg' = agg \ {i}
  /\ \/ UNCHANGED frame
     \/ frame' = [frame EXCEPT ![i] = IF chf[i] = "dead" THEN "lost" ELSE "onbus"]
  /\ UNCHANGED <<shutdown, unseen, supVars, sessVars, fan, chf>>

\* The ClickHouse fanout hands the rows of the final frame to the writer; an
\* aborted one may still be inside its last poll.
ChFanoutDeliver(i) ==
  /\ frame[i] = "onbus" /\ chf[i] \in {"running", "aborting"}
  /\ frame' = [frame EXCEPT ![i] = "handed"]
  /\ UNCHANGED <<shutdown, unseen, supVars, sessVars, fan, agg, chf>>

\* The abort takes effect and the receiver is dropped.
ChFanoutAborted(i) ==
  /\ chf[i] = "aborting"
  /\ chf' = [chf EXCEPT ![i] = "dead"]
  /\ frame' = [frame EXCEPT ![i] = IF @ = "onbus" THEN "lost" ELSE @]
  /\ UNCHANGED <<shutdown, unseen, supVars, sessVars, fan, agg>>

-----------------------------------------------------------------------------
Reconcile == \E listed \in SUBSET Symbols : \E w \in Wanted(listed) : ReconcileOnce(w)

SessionStep == SessionTop \/ RoutesChanged \/ SleepElapsed \/ SessionShutdown

Next ==
  \/ CtrlC
  \/ DiscoveryTick
  \/ DiscoveryFailed
  \/ Reconcile
  \/ ShutdownSeen
  \/ RunReturns
  \/ SessionStep
  \/ SessionEnds
  \/ \E i \in Incarnations :
       FanoutExit(i) \/ AggregatorExit(i) \/ ChFanoutDeliver(i) \/ ChFanoutAborted(i)

Spec == Init /\ [][Next]_vars

(***************************************************************************)
(* Tasks the runtime can poll are polled; the exchange's answer or the     *)
(* HTTP client's timeout ends a discovery; tokio::select! picks at random  *)
(* among the ready branches, so the shutdown branch of run is not passed   *)
(* over for ever.  A wire session need never end.                          *)
(***************************************************************************)
Fairness ==
  /\ WF_vars(SessionStep)
  /\ WF_vars(DiscoveryFailed \/ Reconcile)
  /\ SF_vars(ShutdownSeen)
  /\ WF_vars(RunReturns)
  /\ \A i \in Incarnations :
       WF_vars(FanoutExit(i)) /\ WF_vars(AggregatorExit(i)) /\ WF_vars(ChFanoutAborted(i))

FairSpec == Spec /\ Fairness

-----------------------------------------------------------------------------
(***************************************************************************)
(* Types.                                                                  *)
(***************************************************************************)
TypeOK ==
  /\ shutdown \in BOOLEAN /\ unseen \in BOOLEAN
  /\ sup \in {"select", "discovering", "joining", "returned"}
  /\ sess \in {"top", "wait", "run", "sleep_min", "sleep_backoff", "exited"}
  /\ gen \in [Symbols -> 0 .. MaxGen] /\ handles \in [Symbols -> 0 .. MaxGen]
  /\ \A S \in {joins, routes, snap, fan, agg} : S \subseteq Incarnations
  /\ backoff \in Nat /\ (backoff = BackoffMin \/ backoff <= BackoffMax)
  /\ chf \in [Incarnations -> {"none", "running", "aborting", "dead"}]
  /\ frame \in [Incarnations -> {"none", "onbus", "handed", "lost"}]

(***************************************************************************)
(* Publishing only on a change of the symbol set (reconcile_once) loses no *)
(* change: until shutdown the published routes are the handled symbols.    *)
(***************************************************************************)
RoutesMatchHandles == sup \in {"select", "discovering"} => routes = Values(handles)

(***************************************************************************)
(* No route update is missed: a session that has nothing left to notice    *)
(* runs on the routes last published, whatever the interleaving of         *)
(* send_replace with borrow() and changed() and however often it           *)
(* reconnected meanwhile.                                                  *)
(***************************************************************************)
NoStaleSession == sess = "run" /\ ~unseen => snap = routes

(***************************************************************************)
(* A symbol removed and listed again before its tasks have ended has two   *)
(* aggregators on one stream key.  Never do both take trades: once the     *)
(* symbol was spawned again, neither the handle map nor the watch holds a  *)
(* sink of the earlier incarnation; if a session's snapshot still does, it *)
(* has no sink of the later one and a route change is waiting for it,      *)
(* however often the session reconnected and the symbol came and went.     *)
(***************************************************************************)
SupersededReleased ==
  \A i \in Incarnations : i[2] < gen[i[1]] /\ SinkHeld(i) =>
    /\ i \notin Values(handles) \cup routes
    /\ \A j \in snap : j[1] = i[1] => j = i
    /\ unseen

(***************************************************************************)
(* A session never holds a sink whose fanout is gone: try_send into it     *)
(* finds the channel open, whatever was delisted or shut down meanwhile,   *)
(* so a trade it emits is lost to a full channel only.                     *)
(***************************************************************************)
SinksServed == snap \subseteq fan

(***************************************************************************)
(* A session that runs on other routes than the published ones is cycled   *)
(* onto them (the watch's changed() branch), unless the server stops.      *)
(***************************************************************************)
RoutesReachSession == (routes # snap) ~> (routes = snap \/ shutdown)

(***************************************************************************)
(* The tasks of a symbol that was removed, and whose sink the watch no     *)
(* longer holds, all end: the domino of closed channels and the abort of   *)
(* the ClickHouse fanout leave nothing behind.                             *)
(***************************************************************************)
RemovedTasksEnd ==
  \A i \in Incarnations :
    (i \in fan /\ i \notin Values(handles) \union routes) ~>
      (i \notin fan \union agg /\ chf[i] = "dead")

(***************************************************************************)
(* "the WS session task observes the shutdown signal and stops"            *)
(* (binance_supervisor.rs:64).                                             *)
(***************************************************************************)
ShutdownStopsSession == shutdown ~> (sess = "exited")

(***************************************************************************)
(* Shutdown completes: the per-symbol channels are dropped, the            *)
(* aggregators drain and exit (binance_supervisor.rs:62-64) and run        *)
(* returns, which main waits for before it drains the writers.  The code   *)
(* does not do this: the watch's value keeps a clone of every sink.        *)
(***************************************************************************)
ShutdownCompletes == shutdown ~> (sup = "returned")

(***************************************************************************)
(* The final frame an aggregator flushes when its channel closes is handed *)
(* to the ClickHouse fanout (binance_supervisor.rs:189-193).  The code     *)
(* aborts the fanout before the aggregator can have flushed.               *)
(***************************************************************************)
FinalFrameDelivered == \A i \in Incarnations : frame[i] # "lost"
=============================================================================
