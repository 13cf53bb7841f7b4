---------------------------- MODULE TradePathProofs ----------------------------
(***************************************************************************)
(* The path of the trades implements the lossy stream, and a task leaves   *)
(* only drained, for every set of timeframes, channel bound and number of  *)
(* trades.                                                                 *)
(***************************************************************************)
EXTENDS TradePath, SequenceTheorems, TLAPS

-----------------------------------------------------------------------------
(* Facts about channels as sequences.                                      *)

\* Concatenation is associative.
LEMMA WaysAssociate ==
  \A s, t, u \in Seq(Nat) : (s \o t) \o u = s \o (t \o u)
BY ConcatAssociative, SMTT(40)

\* A sequence splits into its head and its tail.
LEMMA HeadAndTail ==
  ASSUME NEW s \in Seq(Nat), s # <<>>
  PROVE  s = <<Head(s)>> \o Tail(s)
<1>1. Head(s) \in Nat /\ Tail(s) \in Seq(Nat) /\ Len(Tail(s)) = Len(s) - 1
      /\ \A i \in 1 .. Len(Tail(s)) : Tail(s)[i] = s[i + 1]
  BY HeadTailProperties
<1>2. <<Head(s)>> \in Seq(Nat) /\ Len(<<Head(s)>>) = 1
  BY <1>1
<1>3. /\ <<Head(s)>> \o Tail(s) \in Seq(Nat)
      /\ Len(<<Head(s)>> \o Tail(s)) = Len(s)
      /\ \A i \in 1 .. Len(s) :
           (<<Head(s)>> \o Tail(s))[i] = IF i <= 1 THEN Head(s) ELSE Tail(s)[i - 1]
  <2>1. Len(s) \in Nat
    BY LenProperties
  <2>2. QED
    BY <1>1, <1>2, <2>1, ConcatProperties
<1>4. \A i \in 1 .. Len(s) : s[i] = (<<Head(s)>> \o Tail(s))[i]
  <2>1. Head(s) = s[1]
    BY LenProperties, EmptySeq
  <2>2. Len(s) \in Nat
    BY LenProperties
  <2>3. QED
    BY <1>1, <1>3, <2>1, <2>2
<1>5. QED
  BY <1>3, <1>4, SeqEqual

\* Sending to the end of a channel is sending to the end of the whole way.
LEMMA AppendToWay ==
  ASSUME NEW s \in Seq(Nat), NEW t \in Seq(Nat), NEW e \in Nat
  PROVE  s \o Append(t, e) = Append(s \o t, e)
<1>1. <<e>> \in Seq(Nat) /\ s \o t \in Seq(Nat)
  BY ConcatProperties
<1>2. Append(t, e) = t \o <<e>> /\ Append(s \o t, e) = (s \o t) \o <<e>>
  BY <1>1, AppendIsConcat
<1>3. QED
  BY <1>1, <1>2, ConcatAssociative

\* Receiving from a channel is receiving from the whole way.
LEMMA HeadTailOfWay ==
  ASSUME NEW s \in Seq(Nat), NEW t \in Seq(Nat), s # <<>>
  PROVE  /\ s \o t # <<>>
         /\ Head(s \o t) = Head(s)
         /\ Tail(s \o t) = Tail(s) \o t
<1>1. /\ s \o t \in Seq(Nat)
      /\ Len(s \o t) = Len(s) + Len(t)
      /\ \A i \in 1 .. Len(s) + Len(t) :
           (s \o t)[i] = IF i <= Len(s) THEN s[i] ELSE t[i - Len(s)]
  BY ConcatProperties
<1>2. Len(s) \in Nat \ {0} /\ Len(t) \in Nat
  BY EmptySeq, LenProperties
<1>3. s \o t # <<>>
  BY <1>1, <1>2, EmptySeq
<1>4. Head(s \o t) = Head(s)
  BY <1>1, <1>2
<1>5. /\ Tail(s) \in Seq(Nat) /\ Len(Tail(s)) = Len(s) - 1
      /\ \A i \in 1 .. Len(Tail(s)) : Tail(s)[i] = s[i + 1]
  BY HeadTailProperties
<1>6. /\ Tail(s \o t) \in Seq(Nat) /\ Len(Tail(s \o t)) = Len(s \o t) - 1
      /\ \A i \in 1 .. Len(Tail(s \o t)) : Tail(s \o t)[i] = (s \o t)[i + 1]
  BY <1>1, <1>3, HeadTailProperties
<1>7. /\ Tail(s) \o t \in Seq(Nat)
      /\ Len(Tail(s) \o t) = Len(s) - 1 + Len(t)
      /\ \A i \in 1 .. Len(s) - 1 + Len(t) :
           (Tail(s) \o t)[i] = IF i <= Len(s) - 1 THEN Tail(s)[i] ELSE t[i - (Len(s) - 1)]
  BY <1>5, ConcatProperties
<1>8. \A i \in 1 .. Len(Tail(s \o t)) : Tail(s \o t)[i] = (Tail(s) \o t)[i]
  BY <1>1, <1>2, <1>5, <1>6, <1>7
<1>9. Tail(s \o t) = Tail(s) \o t
  BY <1>1, <1>2, <1>6, <1>7, <1>8, SeqEqual
<1>10. QED
  BY <1>3, <1>4, <1>9

\* Dropping the trade in the fanout's hand removes it from the way.
LEMMA RemoveFromWay ==
  ASSUME NEW s \in Seq(Nat), NEW e \in Nat, NEW t \in Seq(Nat)
  PROVE  LET way == (s \o <<e>>) \o t
         IN  /\ Len(s) + 1 \in DOMAIN way
             /\ SubSeq(way, 1, (Len(s) + 1) - 1) \o SubSeq(way, (Len(s) + 1) + 1, Len(way))
                  = (s \o <<>>) \o t
<1> DEFINE way == (s \o <<e>>) \o t
           n == Len(s)
           front == SubSeq(way, 1, (n + 1) - 1)
           back == SubSeq(way, (n + 1) + 1, Len(way))
<1>1. /\ <<e>> \in Seq(Nat) /\ Len(<<e>>) = 1 /\ <<e>>[1] = e
      /\ n \in Nat /\ Len(t) \in Nat
  BY LenProperties
<1>2. /\ s \o <<e>> \in Seq(Nat) /\ Len(s \o <<e>>) = n + 1
      /\ \A i \in 1 .. n + 1 : (s \o <<e>>)[i] = IF i <= n THEN s[i] ELSE <<e>>[i - n]
  BY <1>1, ConcatProperties
<1>3. /\ way \in Seq(Nat) /\ Len(way) = n + 1 + Len(t)
      /\ \A i \in 1 .. n + 1 + Len(t) :
           way[i] = IF i <= n + 1 THEN (s \o <<e>>)[i] ELSE t[i - (n + 1)]
  BY <1>2, ConcatProperties
<1>4. DOMAIN way = 1 .. Len(way) /\ \A i \in 1 .. Len(way) : way[i] \in Nat
  BY <1>3, LenProperties, ElementOfSeq
<1>5. front = s
  <2>1. /\ front \in Seq(Nat) /\ Len(front) = n
        /\ \A i \in 1 .. n : front[i] = way[i]
    <3>1. \A i \in 1 .. (n + 1) - 1 : way[i] \in Nat
      BY <1>1, <1>3, <1>4
    <3>2. /\ front \in Seq(Nat)
          /\ Len(front) = IF 1 <= (n + 1) - 1 THEN (n + 1) - 1 - 1 + 1 ELSE 0
          /\ \A i \in 1 .. (n + 1) - 1 - 1 + 1 : front[i] = way[1 + i - 1]
      BY <1>1, <3>1, SubSeqProperties
    <3>3. QED
      BY <1>1, <3>2
  <2>2. \A i \in 1 .. n : front[i] = s[i]
    BY <1>1, <1>2, <1>3, <2>1
  <2>3. QED
    BY <2>1, <2>2, SeqEqual
<1>6. back = t
  <2>1. /\ back \in Seq(Nat) /\ Len(back) = Len(t)
        /\ \A i \in 1 .. Len(t) : back[i] = way[n + 1 + i]
    <3>1. \A i \in (n + 1) + 1 .. Len(way) : way[i] \in Nat
      BY <1>1, <1>3, <1>4
    <3>2. /\ back \in Seq(Nat)
          /\ Len(back) = IF (n + 1) + 1 <= Len(way) THEN Len(way) - ((n + 1) + 1) + 1 ELSE 0
          /\ \A i \in 1 .. Len(way) - ((n + 1) + 1) + 1 : back[i] = way[((n + 1) + 1) + i - 1]
      BY <1>1, <1>3, <3>1, SubSeqProperties, SMTT(40)
    <3>3. QED
      BY <1>1, <1>3, <3>2
  <2>2. \A i \in 1 .. Len(t) : back[i] = t[i]
    BY <1>1, <1>3, <2>1
  <2>3. QED
    BY <2>1, <2>2, SeqEqual
<1>7. s \o <<>> = s
  BY ConcatEmptySeq
<1>8. n + 1 \in DOMAIN way
  BY <1>1, <1>3, <1>4
<1>9. front \o back = (s \o <<>>) \o t
  BY <1>5, <1>6, <1>7
<1>10. QED
  BY <1>8, <1>9
-----------------------------------------------------------------------------
(* The inductive invariant.                                                *)

\* Where the trades that entered the sink are, seen from one timeframe.
Received(tf) == Len(received[tf])
Queued(tf)   == Len(queue[tf])
Dropped(tf)  == drops_full[tf]
InHand(tf)   == IF tf \in todo THEN 1 ELSE 0
Waiting      == Len(sink)

Held(tf) == Received(tf) + Queued(tf) + Dropped(tf) + InHand(tf) + Waiting

(***************************************************************************)
(* Every trade that entered the sink is received, queued, in the fanout's  *)
(* hand or counted as dropped, at each timeframe.                          *)
(***************************************************************************)
EmittedAccounted == \A tf \in Timeframes : Held(tf) = trades_emitted

(***************************************************************************)
(* Each task of the chain left its input closed and drained.               *)
(***************************************************************************)
LeftDrained ==
  /\ fanout = "exited" => sink = <<>> /\ ~sink_open
  /\ \A tf \in Timeframes \ running : fanout = "exited" /\ queue[tf] = <<>>

Inv == TypeOK /\ EmittedAccounted /\ LeftDrained

\* The terms of Held are numbers.
LEMMA HeldTyped ==
  ASSUME TypeOK, NEW tf \in Timeframes
  PROVE  /\ Received(tf) \in Nat /\ Queued(tf) \in Nat /\ Dropped(tf) \in Nat
         /\ InHand(tf) \in Nat /\ Waiting \in Nat
BY LenProperties DEF TypeOK, Received, Queued, Dropped, InHand, Waiting

\* It holds initially.
LEMMA InitInv == Init => Inv
<1> SUFFICES ASSUME Init PROVE Inv
  OBVIOUS
<1>1. /\ <<>> \in Seq(Nat) /\ Len(<<>>) = 0
  BY EmptySeq
<1>2. TypeOK
  <2>1. queue \in [Timeframes -> Seq(Nat)] /\ received \in [Timeframes -> Seq(Nat)]
        /\ \A tf \in Timeframes : Len(queue[tf]) <= TradeBound
    BY <1>1, TradePathAssumption DEF Init
  <2>2. drops_full \in [Timeframes -> Nat] /\ parsed \in 0 .. MaxTrades
        /\ trades_emitted \in Nat /\ trades_dropped_backpressure \in Nat
        /\ sink \in Seq(Nat) /\ Len(sink) <= TradeBound
    BY <1>1, TradePathAssumption DEF Init
  <2>3. sink_open \in BOOLEAN
    BY DEF Init
  <2>4. QED
    BY <2>1, <2>2, <2>3 DEF Init, TypeOK
<1>3. EmittedAccounted
  BY <1>1 DEF Init, EmittedAccounted, Held, Received, Queued, Dropped, InHand, Waiting
<1>4. LeftDrained
  BY DEF Init, LeftDrained
<1>5. QED
  BY <1>2, <1>3, <1>4 DEF Inv

\* The session's steps.
LEMMA SessionInv ==
  ASSUME Inv, SessionTrade \/ DropSink
  PROVE  Inv'
<1> USE DEF Inv
<1>1. CASE SessionTrade
  <2>1. /\ parsed' = parsed + 1 /\ parsed' \in 0 .. MaxTrades
        /\ sink_open /\ sink_open' = sink_open
        /\ UNCHANGED <<fanout, trade, todo, drops_full, queue, received, running>>
    BY <1>1, TradePathAssumption DEF SessionTrade, fanoutVars, aggVars, TypeOK
  <2>2. CASE Len(sink) < TradeBound /\ sink' = Append(sink, parsed')
             /\ trades_emitted' = trades_emitted + 1
             /\ UNCHANGED trades_dropped_backpressure
    <3>1. sink' \in Seq(Nat) /\ Len(sink') = Len(sink) + 1 /\ Len(sink) \in Nat
      BY <2>1, <2>2, AppendProperties, LenProperties DEF TypeOK
    <3>2. TypeOK'
      BY <2>1, <2>2, <3>1, TradePathAssumption DEF TypeOK
    <3>3. EmittedAccounted'
      <4>1. SUFFICES ASSUME NEW r \in Timeframes PROVE Held(r)' = trades_emitted'
        BY DEF EmittedAccounted
      <4>2. Held(r) = trades_emitted
        BY DEF EmittedAccounted
      <4>3. Received(r)' = Received(r) /\ Queued(r)' = Queued(r)
        BY <2>1 DEF Received, Queued
      <4>4. Dropped(r)' = Dropped(r) /\ InHand(r)' = InHand(r)
        BY <2>1 DEF InHand, Dropped
      <4>5. Waiting' = Waiting + 1
        BY <3>1 DEF Waiting
      <4>6. trades_emitted' = trades_emitted + 1
        BY <2>2
      <4>7. /\ Received(r) \in Nat /\ Queued(r) \in Nat /\ Dropped(r) \in Nat
            /\ InHand(r) \in Nat /\ Waiting \in Nat
        BY HeldTyped
      <4>8. QED
        BY <4>2, <4>3, <4>4, <4>5, <4>6, <4>7 DEF Held
    <3>4. LeftDrained'
      BY <2>1 DEF LeftDrained
    <3>5. QED
      BY <3>2, <3>3, <3>4
  <2>3. CASE /\ trades_dropped_backpressure' = trades_dropped_backpressure + 1
             /\ UNCHANGED <<sink, trades_emitted>>
    BY <2>1, <2>3
       DEF TypeOK, EmittedAccounted, Held, Received, Queued, Dropped, InHand, Waiting,
           LeftDrained
  <2>4. QED
    BY <1>1, <2>2, <2>3 DEF SessionTrade
<1>2. CASE DropSink
  BY <1>2
     DEF DropSink, fanoutVars, aggVars, TypeOK, EmittedAccounted, Held, Received, Queued,
         Dropped, InHand, Waiting, LeftDrained
<1>3. QED
  BY <1>1, <1>2

\* The fanout's steps.
LEMMA FanoutInv ==
  ASSUME Inv, FanoutStep
  PROVE  Inv'
<1> USE DEF Inv
<1>1. CASE FanoutRecv
  <2>1. /\ trade' \in Nat /\ sink' \in Seq(Nat) /\ Len(sink') = Len(sink) - 1
        /\ Len(sink) \in Nat /\ todo = {} /\ todo' = Timeframes /\ fanout' = "sending"
    BY <1>1, HeadTailProperties, LenProperties DEF FanoutRecv, TypeOK
  <2>2. UNCHANGED <<parsed, sink_open, trades_emitted, trades_dropped_backpressure,
                    drops_full, queue, received, running>>
    BY <1>1 DEF FanoutRecv, sessionVars, aggVars
  <2>3. TypeOK'
    BY <2>1, <2>2, TradePathAssumption DEF TypeOK
  <2>4. EmittedAccounted'
    BY <2>1, <2>2, LenProperties
       DEF TypeOK, EmittedAccounted, Held, Received, Queued, Dropped, InHand, Waiting
  <2>5. LeftDrained'
    BY <1>1, <2>2 DEF FanoutRecv, LeftDrained
  <2>6. QED
    BY <2>3, <2>4, <2>5
<1>2. ASSUME NEW tf \in Timeframes, FanoutSend(tf) PROVE Inv'
  <2>1. /\ tf \in todo /\ todo' = todo \ {tf} /\ fanout = "sending"
        /\ fanout' = IF todo' = {} THEN "recv" ELSE "sending"
        /\ UNCHANGED <<parsed, sink_open, trades_emitted, trades_dropped_backpressure,
                       sink, trade, received, running>>
    BY <1>2 DEF FanoutSend, Advance, sessionVars, aggVars
  <2>2. running = Timeframes
    BY <2>1 DEF LeftDrained, TypeOK
  <2>3. LeftDrained'
    BY <2>1, <2>2 DEF LeftDrained
  <2>4. /\ \A r \in Timeframes : Len(queue[r]) \in Nat /\ Len(received[r]) \in Nat
        /\ Len(sink) \in Nat
    BY LenProperties DEF TypeOK
  <2>5. CASE /\ Len(queue[tf]) < TradeBound
             /\ queue' = [queue EXCEPT ![tf] = Append(@, trade)]
             /\ UNCHANGED drops_full
    <3>1. Append(queue[tf], trade) \in Seq(Nat)
          /\ Len(Append(queue[tf], trade)) = Len(queue[tf]) + 1
      BY AppendProperties DEF TypeOK
    <3>2. /\ queue' \in [Timeframes -> Seq(Nat)]
          /\ Len(queue'[tf]) = Len(queue[tf]) + 1
          /\ \A r \in Timeframes \ {tf} : queue'[r] = queue[r]
      BY <2>5, <3>1 DEF TypeOK
    <3>3. TypeOK'
      <4>1. \A r \in Timeframes : Len(queue'[r]) <= TradeBound
        BY <2>4, <2>5, <3>2, TradePathAssumption DEF TypeOK
      <4>2. QED
        BY <2>1, <2>5, <3>2, <4>1 DEF TypeOK
    <3>4. EmittedAccounted'
      <4>1. SUFFICES ASSUME NEW r \in Timeframes PROVE Held(r)' = trades_emitted'
        BY DEF EmittedAccounted
      <4>2. Held(r) = trades_emitted
        BY DEF EmittedAccounted
      <4>3. Received(r)' = Received(r) /\ Waiting' = Waiting
        BY <2>1 DEF Received, Waiting
      <4>4. Dropped(r)' = Dropped(r) /\ trades_emitted' = trades_emitted
        BY <2>1, <2>5 DEF Dropped
      <4>5. \/ r = tf /\ InHand(r) = 1 /\ InHand(r)' = 0
            \/ r # tf /\ InHand(r)' = InHand(r)
        BY <2>1 DEF InHand
      <4>6. \/ r = tf /\ Queued(r)' = Queued(r) + 1
            \/ r # tf /\ Queued(r)' = Queued(r)
        BY <3>2 DEF Queued
      <4>7. /\ Received(r) \in Nat /\ Queued(r) \in Nat /\ Dropped(r) \in Nat
            /\ InHand(r) \in Nat /\ Waiting \in Nat
        BY HeldTyped
      <4>8. QED
        BY <4>2, <4>3, <4>4, <4>5, <4>6, <4>7 DEF Held
    <3>5. QED
      BY <2>3, <3>3, <3>4
  <2>6. CASE /\ drops_full' = [drops_full EXCEPT ![tf] = @ + 1]
             /\ UNCHANGED queue
    <3>1. TypeOK'
      BY <2>1, <2>6, SMTT(40) DEF TypeOK
    <3>2. EmittedAccounted'
      <4>1. SUFFICES ASSUME NEW r \in Timeframes PROVE Held(r)' = trades_emitted'
        BY DEF EmittedAccounted
      <4>2. Held(r) = trades_emitted
        BY DEF EmittedAccounted
      <4>3. Received(r)' = Received(r) /\ Waiting' = Waiting
        BY <2>1 DEF Received, Waiting
      <4>4. Queued(r)' = Queued(r) /\ trades_emitted' = trades_emitted
        BY <2>1, <2>6 DEF Queued
      <4>5. \/ r = tf /\ InHand(r) = 1 /\ InHand(r)' = 0
            \/ r # tf /\ InHand(r)' = InHand(r)
        BY <2>1 DEF InHand
      <4>6. \/ r = tf /\ Dropped(r)' = Dropped(r) + 1
            \/ r # tf /\ Dropped(r)' = Dropped(r)
        BY <2>6 DEF TypeOK, Dropped
      <4>7. /\ Received(r) \in Nat /\ Queued(r) \in Nat /\ Dropped(r) \in Nat
            /\ InHand(r) \in Nat /\ Waiting \in Nat
        BY HeldTyped
      <4>8. QED
        BY <4>2, <4>3, <4>4, <4>5, <4>6, <4>7 DEF Held
    <3>3. QED
      BY <2>3, <3>1, <3>2
  <2>7. QED
    BY <1>2, <2>5, <2>6 DEF FanoutSend
<1>3. CASE FanoutExit
  BY <1>3
     DEF FanoutExit, sessionVars, aggVars, TypeOK, EmittedAccounted, Held, Received,
         Queued, Dropped, InHand, Waiting, LeftDrained
<1>4. QED
  BY <1>1, <1>2, <1>3 DEF FanoutStep

\* The aggregators' steps.
LEMMA AggregatorInv ==
  ASSUME Inv, NEW tf \in Timeframes, AggregatorStep(tf)
  PROVE  Inv'
<1> USE DEF Inv
<1>1. CASE AggregatorRecv(tf)
  <2>1. /\ queue[tf] \in Seq(Nat) /\ queue[tf] # <<>> /\ received[tf] \in Seq(Nat)
        /\ tf \in running
    BY <1>1 DEF AggregatorRecv, TypeOK
  <2>2. /\ Head(queue[tf]) \in Nat /\ Tail(queue[tf]) \in Seq(Nat)
        /\ Len(Tail(queue[tf])) = Len(queue[tf]) - 1
    BY <2>1, HeadTailProperties
  <2>3. /\ Append(received[tf], Head(queue[tf])) \in Seq(Nat)
        /\ Len(Append(received[tf], Head(queue[tf]))) = Len(received[tf]) + 1
    BY <2>1, <2>2, AppendProperties
  <2>4. /\ queue' \in [Timeframes -> Seq(Nat)] /\ received' \in [Timeframes -> Seq(Nat)]
        /\ Len(queue'[tf]) = Len(queue[tf]) - 1
        /\ Len(received'[tf]) = Len(received[tf]) + 1
        /\ \A r \in Timeframes \ {tf} : queue'[r] = queue[r] /\ received'[r] = received[r]
    BY <1>1, <2>2, <2>3 DEF AggregatorRecv, TypeOK
  <2>5. /\ \A r \in Timeframes : Len(queue[r]) \in Nat /\ Len(received[r]) \in Nat
        /\ Len(sink) \in Nat
    BY LenProperties DEF TypeOK
  <2>6. UNCHANGED <<parsed, sink_open, trades_emitted, trades_dropped_backpressure, sink,
                    fanout, trade, todo, drops_full, running>>
    BY <1>1 DEF AggregatorRecv, sessionVars, fanoutVars
  <2>7. TypeOK'
    <3>1. \A r \in Timeframes : Len(queue'[r]) <= TradeBound
      <4>1. SUFFICES ASSUME NEW r \in Timeframes PROVE Len(queue'[r]) <= TradeBound
        OBVIOUS
      <4>2. Len(queue'[r]) = Len(queue[r]) \/ Len(queue'[r]) = Len(queue[r]) - 1
        BY <2>4
      <4>3. Len(queue[r]) \in Nat /\ Len(queue[r]) <= TradeBound /\ TradeBound \in Nat
        BY <2>5, TradePathAssumption DEF TypeOK
      <4>4. QED
        BY <4>2, <4>3
    <3>2. QED
      BY <2>4, <2>6, <3>1 DEF TypeOK
  <2>8. EmittedAccounted'
    <3>1. SUFFICES ASSUME NEW r \in Timeframes PROVE Held(r)' = trades_emitted'
      BY DEF EmittedAccounted
    <3>2. Held(r) = trades_emitted
      BY DEF EmittedAccounted
    <3>3. Dropped(r)' = Dropped(r) /\ InHand(r)' = InHand(r)
      BY <2>6 DEF InHand, Dropped
    <3>4. Waiting' = Waiting /\ trades_emitted' = trades_emitted
      BY <2>6 DEF Waiting
    <3>5. \/ /\ Queued(r)' = Queued(r) - 1
             /\ Received(r)' = Received(r) + 1
          \/ Queued(r)' = Queued(r) /\ Received(r)' = Received(r)
      BY <2>4 DEF Received, Queued
    <3>6. /\ Received(r) \in Nat /\ Queued(r) \in Nat /\ Dropped(r) \in Nat
          /\ InHand(r) \in Nat /\ Waiting \in Nat
      BY HeldTyped
    <3>7. QED
      BY <3>2, <3>3, <3>4, <3>5, <3>6 DEF Held
  <2>9. LeftDrained'
    BY <2>1, <2>4, <2>6 DEF LeftDrained
  <2>10. QED
    BY <2>7, <2>8, <2>9
<1>2. CASE AggregatorExit(tf)
  BY <1>2
     DEF AggregatorExit, sessionVars, fanoutVars, TypeOK, EmittedAccounted, Held,
         Received, Queued, Dropped, InHand, Waiting,
              LeftDrained
<1>3. QED
  BY <1>1, <1>2 DEF AggregatorStep

\* Every reachable state satisfies the inductive invariant.
LEMMA Invariance == Spec => []Inv
<1>1. Inv /\ [Next]_vars => Inv'
  <2>1. Inv /\ UNCHANGED vars => Inv'
    BY
       DEF Inv, vars, sessionVars, fanoutVars, aggVars, TypeOK, EmittedAccounted, Held,
           Received, Queued, Dropped, InHand, Waiting,
           LeftDrained
  <2>2. QED
    BY <2>1, SessionInv, FanoutInv, AggregatorInv DEF Next
<1>2. QED
  BY InitInv, <1>1, PTL DEF Spec

-----------------------------------------------------------------------------
(***************************************************************************)
(* Types hold and no channel outgrows its capacity.                        *)
(***************************************************************************)
THEOREM TypesHold == Spec => []TypeOK
<1>1. Inv => TypeOK
  BY DEF Inv
<1>2. QED
  BY Invariance, <1>1, PTL

(***************************************************************************)
(* An aggregator that has exited received every trade that entered the     *)
(* sink, but those counted as dropped for it.                              *)
(***************************************************************************)
THEOREM DrainedOnExit == Spec => []ExitAfterDrain
<1>1. Inv => ExitAfterDrain
  <2>1. SUFFICES ASSUME Inv, NEW tf \in Timeframes \ running
                 PROVE  Len(received[tf]) + drops_full[tf] = trades_emitted
    BY DEF ExitAfterDrain
  <2>2. fanout = "exited" /\ queue[tf] = <<>> /\ sink = <<>> /\ todo = {}
    BY <2>1 DEF Inv, LeftDrained, TypeOK
  <2>3. Queued(tf) = 0 /\ InHand(tf) = 0 /\ Waiting = 0
    BY <2>2, EmptySeq DEF Queued, InHand, Waiting
  <2>4. Held(tf) = trades_emitted
    BY <2>1 DEF Inv, EmittedAccounted
  <2>5. Received(tf) \in Nat /\ Dropped(tf) \in Nat
    BY <2>1, HeldTyped DEF Inv
  <2>6. Received(tf) + Dropped(tf) = trades_emitted
    BY <2>3, <2>4, <2>5 DEF Held
  <2>7. QED
    BY <2>6 DEF Received, Dropped
<1>2. QED
  BY Invariance, <1>1, PTL

-----------------------------------------------------------------------------
(* The refinement of LossyStream.                                          *)

\* What is on its way to a timeframe is a sequence of trades.
LEMMA WayTyped ==
  ASSUME TypeOK, NEW tf \in Timeframes
  PROVE  /\ queue[tf] \in Seq(Nat) /\ Hand(tf) \in Seq(Nat) /\ sink \in Seq(Nat)
         /\ queue[tf] \o Hand(tf) \in Seq(Nat)
<1>1. queue[tf] \in Seq(Nat) /\ sink \in Seq(Nat) /\ trade \in Nat
  BY DEF TypeOK
<1>2. Hand(tf) \in Seq(Nat)
  BY <1>1 DEF Hand
<1>3. QED
  BY <1>1, <1>2, ConcatProperties

\* A trade the session parses enters the way of every timeframe, or is lost
\* for all of them.
LEMMA SessionFeeds ==
  ASSUME TypeOK, SessionTrade
  PROVE  Streams!Feed \/ Streams!Refuse
<1>1. /\ parsed' = parsed + 1 /\ parsed \in Nat
      /\ UNCHANGED <<fanout, trade, todo, drops_full, queue, received, running>>
  BY TradePathAssumption DEF SessionTrade, fanoutVars, aggVars, TypeOK
<1>2. CASE sink' = Append(sink, parsed') /\ UNCHANGED trades_dropped_backpressure
  <2>1. ASSUME NEW tf \in Timeframes
        PROVE  OnTheWay(tf)' = Append(OnTheWay(tf), parsed + 1)
    <3>1. OnTheWay(tf)' = (queue[tf] \o Hand(tf)) \o Append(sink, parsed + 1)
      BY <1>1, <1>2 DEF OnTheWay, Hand
    <3>2. queue[tf] \o Hand(tf) \in Seq(Nat) /\ sink \in Seq(Nat) /\ parsed + 1 \in Nat
      BY <1>1, WayTyped
    <3>3. QED
      BY <3>1, <3>2, AppendToWay DEF OnTheWay
  <2>2. QED
    BY <1>1, <1>2, <2>1 DEF Streams!Feed
<1>3. CASE /\ trades_dropped_backpressure' = trades_dropped_backpressure + 1
           /\ UNCHANGED sink
  <2>1. \A tf \in Timeframes :
          trades_dropped_backpressure' + drops_full'[tf]
            = trades_dropped_backpressure + drops_full[tf] + 1
    BY <1>1, <1>3 DEF TypeOK
  <2>2. \A tf \in Timeframes : OnTheWay(tf)' = OnTheWay(tf)
    BY <1>1, <1>3 DEF OnTheWay, Hand
  <2>3. QED
    BY <1>1, <2>1, <2>2 DEF Streams!Refuse
<1>4. QED
  BY <1>2, <1>3 DEF SessionTrade

\* Taking a trade from the sink into the hand moves nothing.
LEMMA RecvMovesNothing ==
  ASSUME TypeOK, FanoutRecv, NEW tf \in Timeframes
  PROVE  OnTheWay(tf)' = OnTheWay(tf)
<1>1. /\ sink # <<>> /\ todo = {} /\ todo' = Timeframes
      /\ trade' = Head(sink) /\ sink' = Tail(sink) /\ queue' = queue
  BY DEF FanoutRecv, TypeOK
<1>2. Head(sink) \in Nat /\ Tail(sink) \in Seq(Nat) /\ <<Head(sink)>> \in Seq(Nat)
  BY <1>1, WayTyped, HeadTailProperties
<1>3. OnTheWay(tf) = (queue[tf] \o <<>>) \o sink
  BY <1>1 DEF OnTheWay, Hand
<1>4. OnTheWay(tf)' = (queue[tf] \o <<Head(sink)>>) \o Tail(sink)
  BY <1>1 DEF OnTheWay, Hand
<1>5. queue[tf] \o <<>> = queue[tf]
  BY WayTyped, ConcatEmptySeq
<1>6. sink = <<Head(sink)>> \o Tail(sink)
  BY <1>1, WayTyped, HeadAndTail
<1>7. (queue[tf] \o <<Head(sink)>>) \o Tail(sink) = queue[tf] \o (<<Head(sink)>> \o Tail(sink))
  <2>1. queue[tf] \in Seq(Nat)
    BY WayTyped
  <2>2. QED
    BY <1>2, <2>1, WaysAssociate
<1>8. QED
  BY <1>3, <1>4, <1>5, <1>6, <1>7

\* The try_send of one timeframe moves nothing, or loses the trade for it.
LEMMA SendKeepsOrLoses ==
  ASSUME TypeOK, NEW tf \in Timeframes, FanoutSend(tf)
  PROVE  \/ UNCHANGED <<parsed, received, drops_full, trades_dropped_backpressure>>
            /\ \A r \in Timeframes : OnTheWay(r)' = OnTheWay(r)
         \/ Streams!Lose(tf)
<1>1. /\ tf \in todo /\ todo' = todo \ {tf}
      /\ UNCHANGED <<parsed, trades_dropped_backpressure, sink, trade, received>>
  BY DEF FanoutSend, Advance, sessionVars, aggVars
<1>2. OnTheWay(tf) = (queue[tf] \o <<trade>>) \o sink
  BY <1>1 DEF OnTheWay, Hand
<1>3. trade \in Nat
  BY DEF TypeOK
<1>4. CASE /\ queue' = [queue EXCEPT ![tf] = Append(@, trade)]
           /\ UNCHANGED drops_full
  <2>1. \A r \in Timeframes \ {tf} : OnTheWay(r)' = OnTheWay(r)
    BY <1>1, <1>4 DEF OnTheWay, Hand, TypeOK
  <2>2. queue'[tf] = Append(queue[tf], trade)
    BY <1>4 DEF TypeOK
  <2>3. Append(queue[tf], trade) = queue[tf] \o <<trade>>
    BY <1>3, WayTyped, AppendIsConcat
  <2>4. (queue[tf] \o <<trade>>) \o <<>> = queue[tf] \o <<trade>>
    BY <1>1, WayTyped, ConcatEmptySeq
  <2>5. OnTheWay(tf)' = OnTheWay(tf)
    BY <1>1, <1>2, <2>2, <2>3, <2>4 DEF OnTheWay, Hand
  <2>6. QED
    BY <1>1, <1>4, <2>1, <2>5
<1>5. CASE /\ drops_full' = [drops_full EXCEPT ![tf] = @ + 1]
           /\ UNCHANGED queue
  <2> DEFINE way == [r \in Timeframes |-> OnTheWay(r)]
             i == Len(queue[tf]) + 1
  <2>1. \A r \in Timeframes \ {tf} : OnTheWay(r)' = OnTheWay(r)
    BY <1>1, <1>5 DEF OnTheWay, Hand, TypeOK
  <2>2. OnTheWay(tf)' = (queue[tf] \o <<>>) \o sink
    BY <1>1, <1>5 DEF OnTheWay, Hand
  <2>3. /\ i \in DOMAIN OnTheWay(tf)
        /\ SubSeq(OnTheWay(tf), 1, i - 1) \o SubSeq(OnTheWay(tf), i + 1, Len(OnTheWay(tf)))
             = OnTheWay(tf)'
    <3>1. queue[tf] \in Seq(Nat) /\ sink \in Seq(Nat)
      BY WayTyped
    <3>2. LET w == (queue[tf] \o <<trade>>) \o sink
          IN  /\ i \in DOMAIN w
              /\ SubSeq(w, 1, i - 1) \o SubSeq(w, i + 1, Len(w)) = (queue[tf] \o <<>>) \o sink
      BY <1>3, <3>1, RemoveFromWay
    <3>3. QED
      BY <1>2, <2>2, <3>2
  <2>4. Streams!RemoveAt(OnTheWay(tf), i) = OnTheWay(tf)'
    BY <2>3 DEF Streams!RemoveAt
  <2>5. way' = [way EXCEPT ![tf] = Streams!RemoveAt(@, i)]
    BY <2>1, <2>4
  <2>6. [r \in Timeframes |-> trades_dropped_backpressure + drops_full[r]]'
          = [[r \in Timeframes |-> trades_dropped_backpressure + drops_full[r]]
               EXCEPT ![tf] = @ + 1]
    <3>1. \A r \in Timeframes : trades_dropped_backpressure + drops_full'[r] =
                                 IF r = tf THEN trades_dropped_backpressure + drops_full[r] + 1
                                 ELSE trades_dropped_backpressure + drops_full[r]
      BY <1>5 DEF TypeOK
    <3>2. QED
      BY <1>1, <3>1
  <2>7. i \in DOMAIN way[tf]
    BY <2>3
  <2>8. QED
    BY <1>1, <2>5, <2>6, <2>7 DEF Streams!Lose
<1>6. QED
  BY <1>4, <1>5 DEF FanoutSend

\* What an aggregator receives is what is next on its way.
LEMMA RecvDelivers ==
  ASSUME TypeOK, NEW tf \in Timeframes, AggregatorRecv(tf)
  PROVE  Streams!Deliver(tf)
<1> DEFINE rest == Hand(tf) \o sink
           way == [r \in Timeframes |-> OnTheWay(r)]
<1>1. /\ queue[tf] # <<>>
      /\ received' = [received EXCEPT ![tf] = Append(@, Head(queue[tf]))]
      /\ queue' = [queue EXCEPT ![tf] = Tail(@)]
      /\ UNCHANGED <<parsed, trades_dropped_backpressure, sink, trade, todo, drops_full>>
  BY DEF AggregatorRecv, sessionVars, fanoutVars
<1>2. rest \in Seq(Nat)
  BY WayTyped, ConcatProperties
<1>3. OnTheWay(tf) = queue[tf] \o rest
  <2>1. queue[tf] \in Seq(Nat) /\ Hand(tf) \in Seq(Nat) /\ sink \in Seq(Nat)
    BY WayTyped
  <2>2. QED
    BY <2>1, WaysAssociate DEF OnTheWay
<1>4. Tail(queue[tf]) \in Seq(Nat) /\ queue'[tf] = Tail(queue[tf])
  BY <1>1, WayTyped, HeadTailProperties DEF TypeOK
<1>5. OnTheWay(tf)' = Tail(queue[tf]) \o rest
  <2>1. OnTheWay(tf)' = (Tail(queue[tf]) \o Hand(tf)) \o sink
    BY <1>1, <1>4 DEF OnTheWay, Hand
  <2>2. Tail(queue[tf]) \in Seq(Nat) /\ Hand(tf) \in Seq(Nat) /\ sink \in Seq(Nat)
    BY <1>4, WayTyped
  <2>3. QED
    BY <2>1, <2>2, WaysAssociate
<1>6. /\ OnTheWay(tf) # <<>>
      /\ Head(OnTheWay(tf)) = Head(queue[tf])
      /\ OnTheWay(tf)' = Tail(OnTheWay(tf))
  <2>1. queue[tf] \in Seq(Nat) /\ queue[tf] # <<>>
    BY <1>1, WayTyped
  <2>2. /\ queue[tf] \o rest # <<>>
        /\ Head(queue[tf] \o rest) = Head(queue[tf])
        /\ Tail(queue[tf] \o rest) = Tail(queue[tf]) \o rest
    <3> HIDE DEF rest
    <3>1. QED
      BY <1>2, <2>1, HeadTailOfWay
  <2>3. QED
    BY <1>3, <1>5, <2>2
<1>7. \A r \in Timeframes \ {tf} : OnTheWay(r)' = OnTheWay(r)
  BY <1>1 DEF OnTheWay, Hand, TypeOK
<1>8. way' = [way EXCEPT ![tf] = Tail(@)]
  BY <1>6, <1>7
<1>9. way[tf] # <<>> /\ Head(way[tf]) = Head(queue[tf])
  BY <1>6
<1>10. QED
  BY <1>1, <1>8, <1>9 DEF Streams!Deliver

\* Every step of the code is a step of the stream or leaves it unchanged.
LEMMA StepSimulates ==
  ASSUME TypeOK, [Next]_vars
  PROVE  [Streams!Next]_(Streams!streamVars)
<1> DEFINE Still ==
      /\ UNCHANGED <<parsed, received, drops_full, trades_dropped_backpressure>>
      /\ \A r \in Timeframes : OnTheWay(r)' = OnTheWay(r)
<1>1. ASSUME Still PROVE UNCHANGED Streams!streamVars
  BY <1>1 DEF Streams!streamVars
<1>2. CASE SessionTrade
  BY <1>2, SessionFeeds DEF Streams!Next
<1>3. CASE DropSink
  <2>1. Still
    BY <1>3 DEF DropSink, fanoutVars, aggVars, OnTheWay, Hand
  <2>2. QED
    BY <1>1, <2>1
<1>4. CASE FanoutRecv
  <2>1. Still
    BY <1>4, RecvMovesNothing DEF FanoutRecv, sessionVars, aggVars
  <2>2. QED
    BY <1>1, <2>1
<1>5. ASSUME NEW tf \in Timeframes, FanoutSend(tf)
      PROVE  [Streams!Next]_(Streams!streamVars)
  <2>1. Still \/ Streams!Lose(tf)
    BY <1>5, SendKeepsOrLoses
  <2>2. QED
    BY <1>1, <2>1 DEF Streams!Next
<1>6. CASE FanoutExit
  <2>1. Still
    BY <1>6 DEF FanoutExit, sessionVars, aggVars, OnTheWay, Hand
  <2>2. QED
    BY <1>1, <2>1
<1>7. ASSUME NEW tf \in Timeframes, AggregatorRecv(tf)
      PROVE  [Streams!Next]_(Streams!streamVars)
  BY <1>7, RecvDelivers DEF Streams!Next
<1>8. ASSUME NEW tf \in Timeframes, AggregatorExit(tf)
      PROVE  [Streams!Next]_(Streams!streamVars)
  <2>1. Still
    BY <1>8 DEF AggregatorExit, sessionVars, fanoutVars, OnTheWay, Hand
  <2>2. QED
    BY <1>1, <2>1
<1>9. CASE UNCHANGED vars
  <2>1. Still
    BY <1>9 DEF vars, sessionVars, fanoutVars, aggVars, OnTheWay, Hand
  <2>2. QED
    BY <1>1, <2>1
<1>10. QED
  BY <1>2, <1>3, <1>4, <1>5, <1>6, <1>7, <1>8, <1>9
     DEF Next, FanoutStep, AggregatorStep

\* The way of every timeframe is empty at the start.
LEMMA InitSimulates == Init => Streams!Init
<1>1. <<>> \o <<>> = <<>>
  BY EmptySeq, ConcatEmptySeq
<1>2. SUFFICES ASSUME Init PROVE Streams!Init
  OBVIOUS
<1>3. \A tf \in Timeframes : OnTheWay(tf) = <<>>
  BY <1>1, <1>2 DEF Init, OnTheWay, Hand
<1>4. \A tf \in Timeframes : trades_dropped_backpressure + drops_full[tf] = 0
  BY <1>2 DEF Init
<1>5. QED
  BY <1>2, <1>3, <1>4 DEF Init, Streams!Init

(***************************************************************************)
(* The session's sink, the fanout and the timeframes' channels together    *)
(* implement the lossy stream: order, no repetition, every loss counted.   *)
(***************************************************************************)
THEOREM ImplementsLossyStream == Spec => IsLossyStream
<1>1. TypeOK /\ [Next]_vars => [Streams!Next]_(Streams!streamVars)
  BY StepSimulates
<1>2. QED
  BY InitSimulates, <1>1, TypesHold, PTL DEF Spec, IsLossyStream, Streams!Spec
=============================================================================
