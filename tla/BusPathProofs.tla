----------------------------- MODULE BusPathProofs -----------------------------
(***************************************************************************)
(* What the ClickHouse fanout of a bus channel delivers and what it counts *)
(* as lost, for every capacity of the ring and of the writer's channel,    *)
(* number of rows in a Snapshot and number of frames.                      *)
(***************************************************************************)
EXTENDS BusPath, SequenceTheorems, TLAPS

\* Rows are pairs of a frame and a row of it.
Rows == Nat \X (1 .. RowsPerSnapshot)

-----------------------------------------------------------------------------
(* Facts about the channels between the fanout and the table.              *)

\* Concatenation of rows is associative.
LEMMA RowsAssociate ==
  \A s, t, u \in Seq(Rows) : (s \o t) \o u = s \o (t \o u)
BY ConcatAssociative

\* Moving the head of one channel to the end of the channel before it leaves
\* the rows of both as they are.
LEMMA MoveHead ==
  ASSUME NEW s \in Seq(Rows), NEW t \in Seq(Rows), t # <<>>
  PROVE  Append(s, Head(t)) \o Tail(t) = s \o t
<1>1. /\ Head(t) \in Rows /\ Tail(t) \in Seq(Rows) /\ Len(Tail(t)) = Len(t) - 1
      /\ \A i \in 1 .. Len(Tail(t)) : Tail(t)[i] = t[i + 1]
  BY HeadTailProperties
<1>2. /\ Len(s) \in Nat /\ Len(t) \in Nat \ {0} /\ Head(t) = t[1]
  BY LenProperties, EmptySeq
<1> DEFINE a == Append(s, Head(t))
<1>3. /\ a \in Seq(Rows) /\ Len(a) = Len(s) + 1
      /\ \A i \in 1 .. Len(s) : a[i] = s[i]
      /\ a[Len(s) + 1] = t[1]
  BY <1>1, <1>2, AppendProperties
<1> HIDE DEF a
<1>4. /\ a \o Tail(t) \in Seq(Rows)
      /\ Len(a \o Tail(t)) = Len(s) + Len(t)
      /\ \A i \in 1 .. Len(s) + Len(t) :
           (a \o Tail(t))[i] = IF i <= Len(s) + 1 THEN a[i] ELSE Tail(t)[i - (Len(s) + 1)]
  <2>1. /\ a \o Tail(t) \in Seq(Rows)
        /\ Len(a \o Tail(t)) = Len(a) + Len(Tail(t))
        /\ \A i \in 1 .. Len(a) + Len(Tail(t)) :
             (a \o Tail(t))[i] = IF i <= Len(a) THEN a[i] ELSE Tail(t)[i - Len(a)]
    BY <1>1, <1>3, ConcatProperties
  <2>2. QED
    BY <1>1, <1>2, <1>3, <2>1
<1>5. /\ s \o t \in Seq(Rows) /\ Len(s \o t) = Len(s) + Len(t)
      /\ \A i \in 1 .. Len(s) + Len(t) :
           (s \o t)[i] = IF i <= Len(s) THEN s[i] ELSE t[i - Len(s)]
  BY ConcatProperties
<1>6. ASSUME NEW i \in 1 .. Len(s) + Len(t) PROVE (a \o Tail(t))[i] = (s \o t)[i]
  <2>1. CASE i <= Len(s)
    BY <1>2, <1>3, <1>4, <1>5, <1>6, <2>1
  <2>2. CASE i = Len(s) + 1
    BY <1>2, <1>3, <1>4, <1>5, <1>6, <2>2
  <2>3. CASE i > Len(s) + 1
    <3>1. i - (Len(s) + 1) \in 1 .. Len(Tail(t)) /\ i - (Len(s) + 1) + 1 = i - Len(s)
      BY <1>1, <1>2, <1>6, <2>3
    <3>2. Tail(t)[i - (Len(s) + 1)] = t[i - Len(s)]
      BY <1>1, <3>1
    <3>3. (s \o t)[i] = t[i - Len(s)] /\ (a \o Tail(t))[i] = Tail(t)[i - (Len(s) + 1)]
      BY <1>2, <1>4, <1>5, <1>6, <2>3
    <3>4. QED
      BY <3>2, <3>3
  <2>4. i <= Len(s) \/ i = Len(s) + 1 \/ i > Len(s) + 1
    BY <1>2
  <2>5. QED
    BY <2>1, <2>2, <2>3, <2>4
<1>7. a \o Tail(t) = s \o t
  BY <1>4, <1>5, <1>6, SeqEqual
<1>8. QED
  BY <1>7 DEF a

\* A row added to the end of the second channel is added to the end of both.
LEMMA AppendToBoth ==
  ASSUME NEW s \in Seq(Rows), NEW t \in Seq(Rows), NEW e \in Rows
  PROVE  s \o Append(t, e) = Append(s \o t, e)
<1>1. <<e>> \in Seq(Rows) /\ s \o t \in Seq(Rows)
  BY ConcatProperties
<1>2. Append(t, e) = t \o <<e>> /\ Append(s \o t, e) = (s \o t) \o <<e>>
  BY <1>1, AppendIsConcat
<1>3. QED
  BY <1>1, <1>2, RowsAssociate

\* Where the rows of the s-th Snapshot lie among the rows of n of them.
LEMMA RowPosition ==
  ASSUME NEW n \in Nat, NEW s \in 1 .. n, NEW k \in Nat, NEW r \in 1 .. k
  PROVE  /\ (s - 1) * k + r \in 1 .. n * k
         /\ n * k \in Nat
<1>1. (s - 1) * k \in Nat /\ (n - s) * k \in Nat
  OBVIOUS
<1>2. n * k = (s - 1) * k + k + (n - s) * k
  OBVIOUS
<1>3. QED
  BY <1>1, <1>2

-----------------------------------------------------------------------------
(* The inductive invariant: the properties with the types.                 *)

Inv == TypeOK /\ LagCounted /\ SnapshotsArriveWhole

\* The types one by one.
LEMMA Typed ==
  ASSUME TypeOK
  PROVE  /\ log \in Seq(Kinds) /\ Len(log) \in Nat
         /\ next \in 1 .. Len(log) + 1 /\ client_next \in 1 .. Len(log) + 1
         /\ total_lagged \in Nat
         /\ handled \in Seq(Nat) /\ snaps \in Seq(Nat) /\ client \in Seq(Nat)
         /\ Len(handled) \in Nat /\ Len(snaps) \in Nat /\ DOMAIN snaps = 1 .. Len(snaps)
         /\ rows \in Seq(Rows) /\ chan \in Seq(Rows) /\ written \in Seq(Rows)
         /\ Len(chan) \in Nat /\ Len(chan) <= ChannelBound
         /\ stream \in {"open", "dropped", "ended"}
<1>1. /\ log \in Seq(Kinds) /\ handled \in Seq(Nat) /\ snaps \in Seq(Nat) /\ client \in Seq(Nat)
      /\ rows \in Seq(Rows) /\ chan \in Seq(Rows) /\ written \in Seq(Rows)
  BY DEF TypeOK, Rows
<1>2. QED
  BY <1>1, LenProperties DEF TypeOK

\* ... and back.
LEMMA TypedBack ==
  ASSUME log' \in Seq(Kinds),
         next' \in 1 .. Len(log') + 1, client_next' \in 1 .. Len(log') + 1,
         total_lagged' \in Nat,
         handled' \in Seq(Nat), snaps' \in Seq(Nat), client' \in Seq(Nat),
         rows' \in Seq(Rows), chan' \in Seq(Rows), written' \in Seq(Rows),
         Len(chan') <= ChannelBound, stream' \in {"open", "dropped", "ended"}
  PROVE  TypeOK'
BY DEF TypeOK, Rows

\* The properties hold as long as what they speak of stays.
LEMMA SameStream ==
  ASSUME Inv, Stream' = Stream, snaps' = snaps
  PROVE  SnapshotsArriveWhole'
BY DEF Inv, SnapshotsArriveWhole

\* It holds initially.
LEMMA InitInv == Init => Inv
<1> SUFFICES ASSUME Init PROVE Inv
  OBVIOUS
<1>1. /\ \A S : <<>> \in Seq(S) /\ Len(<<>>) = 0
      /\ <<>> \o <<>> = <<>>
  BY EmptySeq, ConcatEmptySeq
<1>2. TypeOK
  BY <1>1, BusPathAssumption DEF Init, TypeOK
<1>3. LagCounted
  BY <1>1 DEF Init, LagCounted
<1>4. SnapshotsArriveWhole
  <2>1. Stream = <<>> /\ Len(Stream) = 0
    BY <1>1 DEF Init, Stream
  <2>2. Len(snaps) = 0 /\ DOMAIN snaps = {}
    BY <1>1 DEF Init
  <2>3. QED
    BY <2>1, <2>2, BusPathAssumption DEF SnapshotsArriveWhole
<1>5. QED
  BY <1>2, <1>3, <1>4 DEF Inv

\* A frame is published.
LEMMA PublishInv ==
  ASSUME Inv, NEW kind \in Kinds, Publish(kind)
  PROVE  Inv'
<1>1. /\ log' = Append(log, kind)
      /\ UNCHANGED <<next, total_lagged, handled, snaps, rows, chan, written,
                     client_next, client, stream>>
  BY DEF Publish, fanoutVars, clientVars
<1>2. log' \in Seq(Kinds) /\ Len(log') = Len(log) + 1
  BY <1>1, Typed, AppendProperties DEF Inv
<1>3. Len(log) \in Nat /\ next \in 1 .. Len(log) + 1 /\ client_next \in 1 .. Len(log) + 1
  BY Typed DEF Inv
<1>4. next' \in 1 .. Len(log') + 1 /\ client_next' \in 1 .. Len(log') + 1
  BY <1>1, <1>2, <1>3
<1>5. TypeOK'
  BY <1>1, <1>2, <1>4, Typed, TypedBack DEF Inv
<1>6. LagCounted' /\ Stream' = Stream
  BY <1>1 DEF Inv, LagCounted, Stream
<1>7. QED
  BY <1>1, <1>5, <1>6, SameStream DEF Inv

\* The fanout takes a frame and, if it is a Snapshot, its rows.
LEMMA ChRecvInv ==
  ASSUME Inv, ChRecv
  PROVE  Inv'
<1> DEFINE front == written \o chan
           k == RowsPerSnapshot
<1>1. /\ rows = <<>> /\ next \in Oldest .. Len(log)
      /\ handled' = Append(handled, next) /\ next' = next + 1
      /\ snaps' = IF log[next] = "Diff" THEN snaps ELSE Append(snaps, next)
      /\ rows' = RowsOf(next)
      /\ UNCHANGED <<log, total_lagged, chan, written, client_next, client, stream>>
  BY DEF ChRecv, clientVars
<1>2. /\ next \in Nat /\ next <= Len(log) /\ next >= 1 /\ Len(log) \in Nat
      /\ k \in Nat \ {0} /\ total_lagged \in Nat /\ Len(handled) \in Nat
      /\ handled \in Seq(Nat) /\ snaps \in Seq(Nat)
      /\ Len(snaps) \in Nat /\ DOMAIN snaps = 1 .. Len(snaps)
  BY <1>1, Typed, BusPathAssumption DEF Inv, Oldest
<1>3. /\ handled' \in Seq(Nat) /\ Len(handled') = Len(handled) + 1
  BY <1>1, <1>2, AppendProperties
<1>4. LagCounted'
  <2>1. Len(handled) + total_lagged = next - 1
    BY DEF Inv, LagCounted
  <2>2. Len(handled') = Len(handled) + 1
    BY <1>3
  <2>3. total_lagged' = total_lagged /\ next' = next + 1
    BY <1>1
  <2>4. QED
    BY <1>2, <2>1, <2>2, <2>3 DEF LagCounted
<1>5. front \in Seq(Rows) /\ front \o <<>> = front
  BY Typed, ConcatProperties, ConcatEmptySeq DEF Inv
<1>6. Stream = front /\ Stream' = front \o RowsOf(next)
  BY <1>1, <1>5 DEF Stream
<1>7. /\ Len(front) = Len(snaps) * k
      /\ \A s \in DOMAIN snaps, r \in 1 .. k : front[(s - 1) * k + r] = <<snaps[s], r>>
  BY <1>6 DEF Inv, SnapshotsArriveWhole
<1> HIDE DEF front, k
<1>8. CASE log[next] = "Diff"
  <2>1. snaps' = snaps /\ rows' = <<>> /\ <<>> \in Seq(Rows) /\ Stream' = Stream
    BY <1>1, <1>5, <1>6, <1>8 DEF RowsOf
  <2>2. next' \in 1 .. Len(log') + 1
    BY <1>1, <1>2
  <2>3. TypeOK'
    BY <1>1, <1>3, <2>1, <2>2, Typed, TypedBack DEF Inv
  <2>4. QED
    BY <1>4, <2>1, <2>3, SameStream DEF Inv
<1>9. CASE log[next] # "Diff"
  <2> DEFINE new == [r \in 1 .. k |-> <<next, r>>]
  <2>1. rows' = new /\ snaps' = Append(snaps, next)
    BY <1>1, <1>9 DEF RowsOf, k
  <2>2. /\ new \in [1 .. k -> Rows] /\ \A r \in 1 .. k : new[r] = <<next, r>>
    BY <1>2 DEF Rows, k
  <2>3. new \in Seq(Rows) /\ Len(new) = k
    <3> HIDE DEF new
    <3>1. new \in Seq(Rows)
      BY <1>2, <2>2, SeqDef
    <3>2. DOMAIN new = 1 .. k /\ DOMAIN new = 1 .. Len(new) /\ Len(new) \in Nat
      BY <2>2, <3>1, LenProperties
    <3>3. QED
      BY <1>2, <3>1, <3>2
  <2> HIDE DEF new
  <2>4. /\ snaps' \in Seq(Nat) /\ Len(snaps') = Len(snaps) + 1
        /\ \A s \in 1 .. Len(snaps) : snaps'[s] = snaps[s]
        /\ snaps'[Len(snaps) + 1] = next
        /\ DOMAIN snaps' = 1 .. Len(snaps) + 1
    BY <1>2, <2>1, AppendProperties, LenProperties
  <2>5. /\ Len(Stream') = Len(front) + k
        /\ \A i \in 1 .. Len(front) + k :
             Stream'[i] = IF i <= Len(front) THEN front[i] ELSE new[i - Len(front)]
    BY <1>1, <1>5, <1>6, <2>1, <2>3, ConcatProperties
  <2>6. Len(Stream') = Len(snaps') * k
    <3>1. (Len(snaps) + 1) * k = Len(snaps) * k + k
      BY <1>2
    <3>2. QED
      BY <1>7, <2>4, <2>5, <3>1
  <2>7. ASSUME NEW s \in DOMAIN snaps', NEW r \in 1 .. k
        PROVE  Stream'[(s - 1) * k + r] = <<snaps'[s], r>>
    <3>1. CASE s \in 1 .. Len(snaps)
      <4>1. /\ (s - 1) * k + r \in 1 .. Len(snaps) * k
            /\ Len(snaps) * k \in Nat
        BY <1>2, <2>7, <3>1, RowPosition
      <4> DEFINE i == (s - 1) * k + r
      <4> HIDE DEF i
      <4>2. i \in 1 .. Len(front) + k /\ i <= Len(front)
        BY <1>2, <1>7, <4>1 DEF i
      <4>3. Stream'[i] = front[i]
        BY <2>5, <4>2
      <4>4. front[i] = <<snaps[s], r>>
        BY <1>2, <1>7, <2>7, <3>1 DEF i
      <4>5. QED
        BY <2>4, <3>1, <4>3, <4>4 DEF i
    <3>2. CASE s = Len(snaps) + 1
      <4>1. /\ s - 1 = Len(snaps) /\ Len(front) \in Nat
        BY <1>2, <1>5, <3>2, LenProperties
      <4>2. (s - 1) * k + r = Len(front) + r
        BY <1>7, <4>1
      <4>3. /\ Len(front) + r \in 1 .. Len(front) + k
            /\ ~(Len(front) + r <= Len(front)) /\ Len(front) + r - Len(front) = r
        BY <1>2, <2>7, <4>1
      <4>4. Stream'[Len(front) + r] = new[r]
        BY <2>5, <4>3
      <4>5. QED
        BY <2>2, <2>4, <2>7, <3>2, <4>2, <4>4 DEF new
    <3>3. s \in 1 .. Len(snaps) \/ s = Len(snaps) + 1
      BY <1>2, <2>4, <2>7
    <3>4. QED
      BY <3>1, <3>2, <3>3
  <2>8. SnapshotsArriveWhole'
    BY <2>6, <2>7 DEF SnapshotsArriveWhole, k
  <2>9. next' \in 1 .. Len(log') + 1
    BY <1>1, <1>2
  <2>10. TypeOK'
    BY <1>1, <1>3, <2>1, <2>3, <2>4, <2>9, Typed, TypedBack DEF Inv
  <2>11. QED
    BY <1>4, <2>8, <2>10 DEF Inv
<1>10. QED
  BY <1>8, <1>9

\* The fanout is told that it lagged: exactly the frames it skips are counted.
LEMMA ChLaggedInv ==
  ASSUME Inv, ChLagged
  PROVE  Inv'
<1>1. /\ next < Oldest /\ next' = Oldest
      /\ total_lagged' = total_lagged + (Oldest - next)
      /\ UNCHANGED <<log, handled, snaps, rows, chan, written, client_next, client, stream>>
  BY DEF ChLagged, clientVars
<1>2. /\ next \in Nat \ {0} /\ Len(log) \in Nat /\ total_lagged \in Nat
      /\ Len(handled) \in Nat /\ Capacity \in Nat \ {0}
  BY Typed, BusPathAssumption DEF Inv
<1>3. Oldest \in 1 .. Len(log) + 1
  BY <1>2 DEF Oldest
<1>4. total_lagged' \in Nat /\ next' \in 1 .. Len(log') + 1
  BY <1>1, <1>2, <1>3
<1>5. TypeOK'
  BY <1>1, <1>4, Typed, TypedBack DEF Inv
<1>6. LagCounted'
  <2>1. Len(handled) + total_lagged = next - 1 /\ handled' = handled
    BY <1>1 DEF Inv, LagCounted
  <2>2. QED
    BY <1>1, <1>2, <1>3, <2>1 DEF LagCounted
<1>7. Stream' = Stream
  BY <1>1 DEF Stream
<1>8. QED
  BY <1>1, <1>5, <1>6, <1>7, SameStream DEF Inv

\* A row moves from the Snapshot to the channel.
LEMMA ChSendInv ==
  ASSUME Inv, ChSend
  PROVE  Inv'
<1>1. /\ rows # <<>> /\ Len(chan) < ChannelBound
      /\ chan' = Append(chan, Head(rows)) /\ rows' = Tail(rows)
      /\ UNCHANGED <<log, next, total_lagged, handled, snaps, written, client_next, client, stream>>
  BY DEF ChSend, fanoutVars, clientVars
<1>2. /\ rows \in Seq(Rows) /\ chan \in Seq(Rows) /\ written \in Seq(Rows)
      /\ Len(chan) \in Nat /\ ChannelBound \in Nat
  BY Typed, BusPathAssumption DEF Inv
<1>3. Head(rows) \in Rows /\ Tail(rows) \in Seq(Rows)
  BY <1>1, <1>2, HeadTailProperties
<1>4. /\ chan' \in Seq(Rows) /\ Len(chan') = Len(chan) + 1
  BY <1>1, <1>2, <1>3, AppendProperties
<1>5. Len(chan') <= ChannelBound
  BY <1>1, <1>2, <1>4
<1>6. TypeOK'
  BY <1>1, <1>3, <1>4, <1>5, Typed, TypedBack DEF Inv
<1>7. Stream' = Stream
  <2>1. Stream' = (written \o Append(chan, Head(rows))) \o Tail(rows)
    BY <1>1 DEF Stream
  <2>2. written \o Append(chan, Head(rows)) = Append(written \o chan, Head(rows))
    BY <1>2, <1>3, AppendToBoth
  <2>3. written \o chan \in Seq(Rows)
    BY <1>2, ConcatProperties
  <2>4. Append(written \o chan, Head(rows)) \o Tail(rows) = (written \o chan) \o rows
    BY <1>1, <1>2, <2>3, MoveHead
  <2>5. QED
    BY <2>1, <2>2, <2>4 DEF Stream
<1>8. LagCounted'
  BY <1>1 DEF Inv, LagCounted
<1>9. QED
  BY <1>1, <1>6, <1>7, <1>8, SameStream DEF Inv

\* A row moves from the channel to the writer.
LEMMA WriterRecvInv ==
  ASSUME Inv, WriterRecv
  PROVE  Inv'
<1>1. /\ chan # <<>> /\ written' = Append(written, Head(chan)) /\ chan' = Tail(chan)
      /\ UNCHANGED <<log, next, total_lagged, handled, snaps, rows, client_next, client, stream>>
  BY DEF WriterRecv, fanoutVars, clientVars
<1>2. /\ chan \in Seq(Rows) /\ written \in Seq(Rows)
      /\ Len(chan) \in Nat /\ Len(chan) <= ChannelBound /\ ChannelBound \in Nat
  BY Typed, BusPathAssumption DEF Inv
<1>3. /\ Head(chan) \in Rows /\ Tail(chan) \in Seq(Rows)
      /\ Len(Tail(chan)) = Len(chan) - 1
  BY <1>1, <1>2, HeadTailProperties
<1>4. written' \in Seq(Rows)
  BY <1>1, <1>2, <1>3, AppendProperties
<1>5. Len(chan') <= ChannelBound
  BY <1>1, <1>2, <1>3
<1>6. TypeOK'
  BY <1>1, <1>3, <1>4, <1>5, Typed, TypedBack DEF Inv
<1>7. Stream' = Stream
  <2>1. Append(written, Head(chan)) \o Tail(chan) = written \o chan
    BY <1>1, <1>2, MoveHead
  <2>2. QED
    BY <1>1, <2>1 DEF Stream
<1>8. LagCounted'
  BY <1>1 DEF Inv, LagCounted
<1>9. QED
  BY <1>1, <1>6, <1>7, <1>8, SameStream DEF Inv

\* The subscriber's steps do not touch the fanout.
LEMMA ClientInv ==
  ASSUME Inv, ClientStep \/ Unsubscribe
  PROVE  Inv'
<1>1. UNCHANGED <<log, next, total_lagged, handled, snaps, rows, chan, written>>
  BY DEF ClientStep, ClientRecv, ClientLagged, Unsubscribe, fanoutVars
<1>2. /\ Len(log) \in Nat /\ client_next \in Nat \ {0} /\ client \in Seq(Nat)
      /\ Capacity \in Nat \ {0}
  BY Typed, BusPathAssumption DEF Inv
<1>3. Oldest \in 1 .. Len(log) + 1
  BY <1>2 DEF Oldest
<1>4. client' \in Seq(Nat) /\ client_next' \in 1 .. Len(log) + 1
  <2>1. CASE ClientRecv
    <3>1. client' = Append(client, client_next) /\ client_next' = client_next + 1
          /\ client_next \in Oldest .. Len(log)
      BY <2>1 DEF ClientRecv
    <3>2. client' \in Seq(Nat)
      BY <1>2, <3>1, AppendProperties
    <3>3. QED
      BY <1>2, <1>3, <3>1, <3>2
  <2>2. CASE ClientLagged
    BY <1>2, <1>3, <2>2 DEF ClientLagged
  <2>3. CASE Unsubscribe
    BY <2>3, Typed DEF Inv, Unsubscribe
  <2>4. QED
    BY <2>1, <2>2, <2>3 DEF ClientStep
<1>s. stream' \in {"open", "dropped", "ended"}
  BY Typed DEF Inv, ClientStep, ClientRecv, ClientLagged, Unsubscribe
<1>5. TypeOK'
  BY <1>1, <1>4, <1>s, Typed, TypedBack DEF Inv
<1>6. LagCounted' /\ Stream' = Stream
  BY <1>1 DEF Inv, LagCounted, Stream
<1>7. QED
  BY <1>1, <1>5, <1>6, SameStream DEF Inv

\* Every reachable state satisfies the inductive invariant.
LEMMA Invariance == Spec => []Inv
<1>1. Inv /\ [Next]_vars => Inv'
  <2>1. Inv /\ UNCHANGED vars => Inv'
    BY DEF vars, fanoutVars, clientVars, Inv, TypeOK, LagCounted, SnapshotsArriveWhole,
           Stream
  <2>2. QED
    BY <2>1, PublishInv, ChRecvInv, ChLaggedInv, ChSendInv, WriterRecvInv, ClientInv
       DEF Next, ChFanoutStep
<1>2. QED
  BY InitInv, <1>1, PTL DEF Spec

-----------------------------------------------------------------------------
(***************************************************************************)
(* Types hold, the writer's channel within its capacity.                   *)
(***************************************************************************)
THEOREM TypesHold == Spec => []TypeOK
<1>1. Inv => TypeOK
  BY DEF Inv
<1>2. QED
  BY Invariance, <1>1, PTL

(***************************************************************************)
(* total_lagged is exactly the number of frames the fanout never received. *)
(***************************************************************************)
THEOREM EveryLagCounted == Spec => []LagCounted
<1>1. Inv => LagCounted
  BY DEF Inv
<1>2. QED
  BY Invariance, <1>1, PTL

(***************************************************************************)
(* The writer is given the rows of the Snapshots the fanout received, in   *)
(* order and each Snapshot complete, whatever the backpressure.            *)
(***************************************************************************)
THEOREM SnapshotsWhole == Spec => []SnapshotsArriveWhole
<1>1. Inv => SnapshotsArriveWhole
  BY DEF Inv
<1>2. QED
  BY Invariance, <1>1, PTL
=============================================================================
