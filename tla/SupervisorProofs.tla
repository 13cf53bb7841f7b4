--------------------------- MODULE SupervisorProofs ---------------------------
(***************************************************************************)
(* Invariants of one exchange supervisor, for every set of symbols, cut of *)
(* the ranking, pair of backoff limits and number of incarnations.         *)
(***************************************************************************)
EXTENDS Supervisor, TLAPS

\* Every incarnation of S is the last one of its symbol.
Newest(S) == \A i \in S : i[2] = gen[i[1]]

(***************************************************************************)
(* Who holds which incarnation: the handle map and the watch the last one  *)
(* of each symbol; a snapshot was a copy of the routes, so it has one of   *)
(* each symbol, and if one of them has been replaced since, the receiver   *)
(* has a change to notice.                                                 *)
(***************************************************************************)
HoldersUpToDate ==
  /\ Newest(Values(handles))
  /\ Newest(routes)
  /\ \A i, j \in snap : i[1] = j[1] => i = j
  /\ unseen \/ Newest(snap)
  /\ sess = "exited" => snap = {}

(***************************************************************************)
(* What keeps the fanout of a snapshot's sink alive: every clone of it is  *)
(* counted, the handle map's, the watch's and the session's.               *)
(***************************************************************************)
HeldSinksServed ==
  /\ Values(handles) \subseteq fan
  /\ snap \subseteq fan
  /\ WatchAlive => routes \subseteq fan
  /\ sup \in {"joining", "returned"} => Values(handles) = {}

(***************************************************************************)
(* What run waits for after shutdown is what the watch's value holds.      *)
(***************************************************************************)
JoinsHeldByWatch ==
  /\ sup = "joining" => joins = routes
  /\ sup = "returned" => joins = {}

Inv ==
  /\ TypeOK
  /\ RoutesMatchHandles
  /\ NoStaleSession
  /\ HoldersUpToDate
  /\ HeldSinksServed
  /\ JoinsHeldByWatch

-----------------------------------------------------------------------------
(* Facts about the operators of the model.                                 *)

\* NextBackoff never leaves the interval the configuration gives.
LEMMA NextBackoffBounded ==
  ASSUME NEW b \in Nat
  PROVE  NextBackoff(b) \in Nat /\ NextBackoff(b) <= BackoffMax
BY SupervisorAssumption DEF NextBackoff

\* abort() only moves running fanouts.
LEMMA AbortedTyped ==
  ASSUME NEW S,
         chf \in [Incarnations -> {"none", "running", "aborting", "dead"}]
  PROVE  Aborted(S) \in [Incarnations -> {"none", "running", "aborting", "dead"}]
BY DEF Aborted

\* The values of a typed map are incarnations.
LEMMA ValuesTyped ==
  ASSUME NEW map \in [Symbols -> 0 .. MaxGen]
  PROVE  Values(map) \subseteq Incarnations
<1> SUFFICES ASSUME NEW s \in Symbols, map[s] # 0
             PROVE  <<s, map[s]>> \in Incarnations
  BY DEF Values
<1>1. map[s] \in 1 .. MaxGen
  BY SupervisorAssumption
<1>2. QED
  BY <1>1 DEF Incarnations

\* An empty map has no values.
LEMMA EmptyHasNone == Values([s \in Symbols |-> 0]) = {}
BY DEF Values

\* What reconcile_once does to the handle map: each incarnation in it was there
\* before or is the next one of its symbol; and the routes are its values.
LEMMA ReconcileHandles ==
  ASSUME Inv, NEW wanted \in SUBSET Symbols, ReconcileOnce(wanted)
  PROVE  /\ handles' \in [Symbols -> 0 .. MaxGen]
         /\ gen' \in [Symbols -> 0 .. MaxGen]
         /\ fan' \subseteq Incarnations /\ agg' \subseteq Incarnations
         /\ Values(handles') \subseteq fan' /\ fan \subseteq fan'
         /\ Newest(Values(handles))'
         /\ routes' = Values(handles')
         /\ \/ gen' = gen /\ routes' = routes /\ unseen' = unseen
            \/ sess # "exited" => unseen'
<1> DEFINE removed == {i \in Values(handles) : i[1] \notin wanted}
           spawned == ToSpawn(wanted)
           added   == {<<s, gen[s] + 1>> : s \in spawned}
<1>1. /\ handles' = [s \in Symbols |-> IF s \in spawned THEN gen[s] + 1
                                       ELSE IF s \in wanted THEN handles[s] ELSE 0]
      /\ fan' = fan \cup added
      /\ agg' = agg \cup added
      /\ gen' = [s \in Symbols |-> IF s \in spawned THEN gen[s] + 1 ELSE gen[s]]
      /\ \A s \in spawned : gen[s] < MaxGen
      /\ PublishRoutes(removed, added)
      /\ sup = "discovering"
  BY DEF ReconcileOnce
<1>2. /\ handles \in [Symbols -> 0 .. MaxGen] /\ gen \in [Symbols -> 0 .. MaxGen]
      /\ fan \subseteq Incarnations /\ agg \subseteq Incarnations
  BY DEF Inv, TypeOK
<1>3. spawned \subseteq Symbols /\ \A s \in spawned : handles[s] = 0
  BY DEF ToSpawn
<1>4. \A s \in spawned : gen[s] + 1 \in 1 .. MaxGen
  BY <1>1, <1>2, <1>3, SupervisorAssumption
<1>5. added \subseteq Incarnations
  <2>1. ASSUME NEW s \in spawned PROVE <<s, gen[s] + 1>> \in Incarnations
    BY <1>3, <1>4 DEF Incarnations
  <2>2. QED
    BY <2>1
<1>6. gen' \in [Symbols -> 0 .. MaxGen] /\ handles' \in [Symbols -> 0 .. MaxGen]
  <2>1. \A s \in spawned : gen[s] + 1 \in 0 .. MaxGen
    BY <1>4, SupervisorAssumption
  <2>2. 0 \in 0 .. MaxGen
    BY SupervisorAssumption
  <2>3. QED
    BY <1>1, <1>2, <2>1, <2>2
<1>7. ASSUME NEW s \in Symbols, handles'[s] # 0
      PROVE  /\ handles'[s] = gen'[s]
             /\ \/ s \in spawned /\ <<s, handles'[s]>> \in added
                \/ s \in wanted /\ <<s, handles'[s]>> \in Values(handles)
  <2>1. CASE s \in spawned
    <3>1. handles'[s] = gen[s] + 1 /\ gen'[s] = gen[s] + 1
      BY <1>1, <2>1
    <3>2. QED
      BY <2>1, <3>1
  <2>2. CASE s \notin spawned
    <3>1. s \in wanted /\ handles'[s] = handles[s] /\ gen'[s] = gen[s]
      BY <1>1, <1>7, <2>2
    <3>2. <<s, handles[s]>> \in Values(handles)
      BY <1>7, <3>1 DEF Values
    <3>3. handles[s] = gen[s]
      BY <3>2 DEF Inv, HoldersUpToDate, Newest
    <3>4. QED
      BY <3>1, <3>2, <3>3
  <2>3. QED
    BY <2>1, <2>2
<1>8. Newest(Values(handles))'
  BY <1>7 DEF Newest, Values
<1>9. Values(handles') \subseteq Values(handles) \cup added
  BY <1>7 DEF Values
<1>10. Values(handles') \subseteq fan' /\ fan \subseteq fan'
  BY <1>1, <1>9 DEF Inv, HeldSinksServed
<1>11. CASE removed = {} /\ added = {}
  <2>1. spawned = {}
    BY <1>11
  <2>2. ASSUME NEW s \in Symbols PROVE handles'[s] = handles[s]
    <3>1. s \notin wanted => handles[s] = 0
      <4>1. <<s, handles[s]>> \notin removed
        BY <1>11
      <4>2. QED
        BY <4>1 DEF Values
    <3>2. handles'[s] = IF s \in wanted THEN handles[s] ELSE 0
      BY <1>1, <2>1
    <3>3. QED
      BY <3>1, <3>2
  <2>3. handles' = handles
    BY <1>2, <1>6, <2>2
  <2>4. gen' = gen
    BY <1>1, <1>2, <2>1
  <2>5. UNCHANGED <<routes, unseen>>
    BY <1>1, <1>11 DEF PublishRoutes
  <2>6. routes = Values(handles)
    BY <1>1 DEF Inv, RoutesMatchHandles
  <2>7. QED
    BY <1>1, <1>2, <1>5, <1>6, <1>8, <1>10, <2>3, <2>4, <2>5, <2>6
<1>12. CASE ~(removed = {} /\ added = {})
  <2>1. routes' = Values(handles') /\ unseen' = (sess # "exited")
    BY <1>1, <1>12 DEF PublishRoutes
  <2>2. sess # "exited" => unseen'
    BY <2>1, Zenon
  <2>3. QED
    BY <1>1, <1>2, <1>5, <1>6, <1>8, <1>10, <2>1, <2>2
<1>13. QED
  BY <1>11, <1>12

-----------------------------------------------------------------------------
(* The inductive invariant.                                                *)

\* It holds initially.
LEMMA InitInv == Init => Inv
<1>1. SUFFICES ASSUME Init PROVE Inv
  OBVIOUS
<1>2. TypeOK
  <2>1. 0 \in 0 .. MaxGen /\ BackoffMin \in Nat
    BY SupervisorAssumption
  <2>2. shutdown \in BOOLEAN /\ unseen \in BOOLEAN
    BY <1>1 DEF Init
  <2>3. gen \in [Symbols -> 0 .. MaxGen] /\ handles \in [Symbols -> 0 .. MaxGen]
    BY <1>1, <2>1 DEF Init
  <2>4. \A S \in {joins, routes, snap, fan, agg} : S \subseteq Incarnations
    BY <1>1 DEF Init
  <2>5. QED
    BY <1>1, <2>1, <2>2, <2>3, <2>4 DEF Init, TypeOK
<1>3. Values(handles) = {}
  BY <1>1, EmptyHasNone DEF Init
<1>4. RoutesMatchHandles /\ NoStaleSession /\ HoldersUpToDate /\ HeldSinksServed
      /\ JoinsHeldByWatch
  BY <1>1, <1>3 DEF Init, RoutesMatchHandles, NoStaleSession, HoldersUpToDate, Newest,
                    HeldSinksServed, JoinsHeldByWatch
<1>5. QED
  BY <1>2, <1>4 DEF Inv

\* Types survive every step.
LEMMA NextTypeOK == Inv /\ [Next]_vars => TypeOK'
<1> SUFFICES ASSUME Inv, [Next]_vars PROVE TypeOK'
  OBVIOUS
<1> USE DEF Inv, TypeOK
<1>1. CASE CtrlC
  BY <1>1 DEF CtrlC, supVars, sessVars, taskVars
<1>2. CASE DiscoveryTick
  BY <1>2 DEF DiscoveryTick, sessVars, taskVars
<1>3. CASE DiscoveryFailed
  BY <1>3 DEF DiscoveryFailed, sessVars, taskVars
<1>4. CASE Reconcile
  <2>1. PICK wanted \in SUBSET Symbols : ReconcileOnce(wanted)
    BY <1>4 DEF Reconcile, Wanted
  <2>2. /\ handles' \in [Symbols -> 0 .. MaxGen]
        /\ gen' \in [Symbols -> 0 .. MaxGen]
        /\ fan' \subseteq Incarnations /\ agg' \subseteq Incarnations
        /\ routes' = Values(handles')
    BY <2>1, ReconcileHandles
  <2>3. routes' \subseteq Incarnations /\ unseen' \in BOOLEAN
    <3>1. routes' \subseteq Incarnations
      BY <2>2, ValuesTyped
    <3>2. unseen' \in BOOLEAN
      BY <2>1 DEF ReconcileOnce, PublishRoutes
    <3>3. QED
      BY <3>1, <3>2
  <2>4. chf' \in [Incarnations -> {"none", "running", "aborting", "dead"}]
    BY <2>1, AbortedTyped DEF ReconcileOnce
  <2>5. /\ shutdown' = shutdown /\ joins' = joins /\ frame' = frame
        /\ sess' = sess /\ snap' = snap /\ backoff' = backoff
        /\ sup' = "select"
    BY <2>1 DEF ReconcileOnce, sessVars
  <2>6. QED
    BY <2>2, <2>3, <2>4, <2>5
<1>5. CASE ShutdownSeen
  <2>1. joins' \subseteq Incarnations
    BY <1>5, ValuesTyped DEF ShutdownSeen
  <2>2. handles' \in [Symbols -> 0 .. MaxGen]
    BY <1>5, SupervisorAssumption DEF ShutdownSeen
  <2>3. QED
    BY <1>5, <2>1, <2>2, AbortedTyped DEF ShutdownSeen, sessVars
<1>6. CASE RunReturns
  BY <1>6 DEF RunReturns, sessVars, taskVars
<1>7. CASE SessionTop
  BY <1>7 DEF SessionTop, supVars, taskVars
<1>8. CASE RoutesChanged
  BY <1>8 DEF RoutesChanged, supVars, taskVars
<1>9. CASE SleepElapsed
  <2>1. backoff' \in Nat /\ (backoff' = BackoffMin \/ backoff' <= BackoffMax)
    BY <1>9, NextBackoffBounded, SupervisorAssumption DEF SleepElapsed
  <2>2. QED
    BY <1>9, <2>1 DEF SleepElapsed, supVars, taskVars
<1>10. CASE SessionShutdown
  BY <1>10 DEF SessionShutdown, supVars, taskVars
<1>11. CASE SessionEnds
  BY <1>11 DEF SessionEnds, supVars, taskVars
<1>12. ASSUME NEW i \in Incarnations, FanoutExit(i) PROVE TypeOK'
  BY <1>12 DEF FanoutExit, supVars, sessVars
<1>13. ASSUME NEW i \in Incarnations, AggregatorExit(i) PROVE TypeOK'
  BY <1>13 DEF AggregatorExit, supVars, sessVars
<1>14. ASSUME NEW i \in Incarnations, ChFanoutDeliver(i) PROVE TypeOK'
  BY <1>14 DEF ChFanoutDeliver, supVars, sessVars
<1>15. ASSUME NEW i \in Incarnations, ChFanoutAborted(i) PROVE TypeOK'
  BY <1>15 DEF ChFanoutAborted, supVars, sessVars
<1>16. CASE UNCHANGED vars
  BY <1>16 DEF vars, supVars, sessVars, taskVars
<1>17. QED
  BY <1>1, <1>2, <1>3, <1>4, <1>5, <1>6, <1>7, <1>8, <1>9, <1>10, <1>11, <1>12, <1>13,
     <1>14, <1>15, <1>16 DEF Next, SessionStep

\* The watch, the snapshots and the tasks survive every step.
LEMMA NextRoutes ==
  Inv /\ [Next]_vars =>
    /\ RoutesMatchHandles' /\ NoStaleSession' /\ HoldersUpToDate'
    /\ HeldSinksServed' /\ JoinsHeldByWatch'
<1> DEFINE Goal == /\ RoutesMatchHandles' /\ NoStaleSession' /\ HoldersUpToDate'
                   /\ HeldSinksServed' /\ JoinsHeldByWatch'
<1> SUFFICES ASSUME Inv, [Next]_vars PROVE Goal
  OBVIOUS
<1> USE DEF Inv, RoutesMatchHandles, NoStaleSession, HoldersUpToDate, Newest,
            HeldSinksServed, JoinsHeldByWatch, WatchAlive
<1>1. CASE CtrlC
  BY <1>1 DEF CtrlC, supVars, sessVars, taskVars
<1>2. CASE DiscoveryTick
  BY <1>2 DEF DiscoveryTick, sessVars, taskVars
<1>3. CASE DiscoveryFailed
  BY <1>3 DEF DiscoveryFailed, sessVars, taskVars
<1>4. CASE Reconcile
  <2>1. PICK wanted \in SUBSET Symbols : ReconcileOnce(wanted)
    BY <1>4 DEF Reconcile, Wanted
  <2>2. /\ Values(handles') \subseteq fan' /\ fan \subseteq fan'
        /\ Newest(Values(handles))'
        /\ routes' = Values(handles')
        /\ \/ gen' = gen /\ routes' = routes /\ unseen' = unseen
           \/ sess # "exited" => unseen'
    BY <2>1, ReconcileHandles
  <2>3. sup = "discovering" /\ sup' = "select" /\ sess' = sess /\ snap' = snap
    BY <2>1 DEF ReconcileOnce, sessVars
  <2>4. RoutesMatchHandles' /\ NoStaleSession'
    BY <2>2, <2>3
  <2>5. HoldersUpToDate'
    <3>1. sess = "exited" => snap = {}
      OBVIOUS
    <3>2. unseen' \/ Newest(snap)'
      BY <2>2, <2>3, <3>1
    <3>3. Newest(Values(handles))' /\ Newest(routes)'
      BY <2>2
    <3>4. QED
      BY <2>3, <3>1, <3>2, <3>3
  <2>6. HeldSinksServed' /\ JoinsHeldByWatch'
    BY <2>2, <2>3
  <2>7. QED
    BY <2>4, <2>5, <2>6
<1>5. CASE ShutdownSeen
  <2>1. Values(handles') = {}
    BY <1>5, EmptyHasNone DEF ShutdownSeen
  <2>2. QED
    BY <1>5, <2>1 DEF ShutdownSeen, sessVars
<1>6. CASE RunReturns
  BY <1>6 DEF RunReturns, sessVars, taskVars
<1>7. CASE SessionTop
  <2>1. \A i, j \in routes : i[1] = j[1] => i = j
    <3> SUFFICES ASSUME NEW i \in routes, NEW j \in routes, i[1] = j[1]
                 PROVE  i = j
      OBVIOUS
    <3>1. i = <<i[1], i[2]>> /\ j = <<j[1], j[2]>>
      BY DEF TypeOK, Incarnations
    <3>2. i[2] = j[2]
      OBVIOUS
    <3>3. QED
      BY <3>1, <3>2
  <2>2. QED
    BY <1>7, <2>1 DEF SessionTop, supVars, taskVars
<1>8. CASE RoutesChanged
  BY <1>8 DEF RoutesChanged, supVars, taskVars
<1>9. CASE SleepElapsed
  BY <1>9 DEF SleepElapsed, supVars, taskVars
<1>10. CASE SessionShutdown
  BY <1>10 DEF SessionShutdown, supVars, taskVars
<1>11. CASE SessionEnds
  BY <1>11 DEF SessionEnds, supVars, taskVars
<1>12. ASSUME NEW i \in Incarnations, FanoutExit(i) PROVE Goal
  BY <1>12 DEF FanoutExit, SinkHeld, supVars, sessVars
<1>13. ASSUME NEW i \in Incarnations, AggregatorExit(i) PROVE Goal
  BY <1>13 DEF AggregatorExit, supVars, sessVars
<1>14. ASSUME NEW i \in Incarnations, ChFanoutDeliver(i) PROVE Goal
  BY <1>14 DEF ChFanoutDeliver, supVars, sessVars
<1>15. ASSUME NEW i \in Incarnations, ChFanoutAborted(i) PROVE Goal
  BY <1>15 DEF ChFanoutAborted, supVars, sessVars
<1>16. CASE UNCHANGED vars
  BY <1>16 DEF vars, supVars, sessVars, taskVars
<1>17. QED
  BY <1>1, <1>2, <1>3, <1>4, <1>5, <1>6, <1>7, <1>8, <1>9, <1>10, <1>11, <1>12, <1>13,
     <1>14, <1>15, <1>16 DEF Next, SessionStep

\* Every reachable state satisfies the inductive invariant.
LEMMA Invariance == Spec => []Inv
<1>1. Inv /\ [Next]_vars => Inv'
  BY NextTypeOK, NextRoutes DEF Inv
<1>2. QED
  BY InitInv, <1>1, PTL DEF Spec

-----------------------------------------------------------------------------
(***************************************************************************)
(* Every variable keeps its type; the backoff of the session loop stays    *)
(* within its limits.                                                      *)
(***************************************************************************)
THEOREM TypesHold == Spec => []TypeOK
<1>1. Inv => TypeOK
  BY DEF Inv
<1>2. QED
  BY Invariance, <1>1, PTL

(***************************************************************************)
(* Until shutdown the published routes are the handled symbols, although   *)
(* reconcile_once publishes only when the set changed.                     *)
(***************************************************************************)
THEOREM RoutesFollowHandles == Spec => []RoutesMatchHandles
<1>1. Inv => RoutesMatchHandles
  BY DEF Inv
<1>2. QED
  BY Invariance, <1>1, PTL

(***************************************************************************)
(* A session with no notification pending runs on the last routes.         *)
(***************************************************************************)
THEOREM NoUpdateMissed == Spec => []NoStaleSession
<1>1. Inv => NoStaleSession
  BY DEF Inv
<1>2. QED
  BY Invariance, <1>1, PTL

(***************************************************************************)
(* However often a symbol is removed and listed again, an earlier          *)
(* incarnation of it is fed, if at all, by a session that does not feed    *)
(* the later one and has a route change to notice: two aggregators of one  *)
(* stream key never take trades at once.                                   *)
(***************************************************************************)
THEOREM OldSinksReleased == Spec => []SupersededReleased
<1>1. Inv => SupersededReleased
  <2> SUFFICES ASSUME Inv, NEW i \in Incarnations, i[2] < gen[i[1]], SinkHeld(i)
               PROVE  /\ i \notin Values(handles) \cup routes
                      /\ \A j \in snap : j[1] = i[1] => j = i
                      /\ unseen
    BY DEF SupersededReleased
  <2>1. i[2] # gen[i[1]]
    <3>1. i[1] \in Symbols /\ i[2] \in Nat
      BY DEF Incarnations
    <3>2. gen[i[1]] \in Nat
      BY <3>1 DEF Inv, TypeOK
    <3>3. QED
      BY <3>1, <3>2
  <2>2. i \notin Values(handles) \cup routes
    BY <2>1 DEF Inv, HoldersUpToDate, Newest
  <2>3. i \in snap
    BY <2>2 DEF SinkHeld
  <2>4. QED
    BY <2>1, <2>2, <2>3 DEF Inv, HoldersUpToDate, Newest
<1>2. QED
  BY Invariance, <1>1, PTL

(***************************************************************************)
(* A session never feeds a sink whose fanout has exited.                   *)
(***************************************************************************)
THEOREM SinksOpen == Spec => []SinksServed
<1>1. Inv => SinksServed
  BY DEF Inv, HeldSinksServed, SinksServed
<1>2. QED
  BY Invariance, <1>1, PTL

(***************************************************************************)
(* Why ShutdownCompletes fails, in general: run returns only if no symbol  *)
(* was handled when it saw the shutdown.  With one, the fanout it joins    *)
(* lives on the sender inside the watch, whose Sender run itself owns.     *)
(***************************************************************************)
THEOREM ReturnsOnlyIdle == Spec => [](sup = "returned" => joins = {})
<1>1. Inv => (sup = "returned" => joins = {})
  BY DEF Inv, JoinsHeldByWatch
<1>2. QED
  BY Invariance, <1>1, PTL
=============================================================================
