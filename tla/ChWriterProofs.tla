---------------------------- MODULE ChWriterProofs ----------------------------
(***************************************************************************)
(* Invariants of the batching ClickHouse writer, for every set of keys,    *)
(* channel bound, batch size, buffer cap, backoff and number of rows and   *)
(* of abandoned INSERTs.                                                   *)
(***************************************************************************)
EXTENDS ChWriter, SequenceTheorems, WellFoundedInduction, TLAPS

-----------------------------------------------------------------------------
(* What an INSERT does to the table.                                       *)

\* Every non-empty set of naturals has a least element.
LEMMA LeastNatural ==
  ASSUME NEW T \in SUBSET Nat, T # {}
  PROVE  \E x \in T : \A y \in T : x <= y
<1>1. PICK x \in T : \A y \in T : ~(<<y, x>> \in OpToRel(<, Nat))
  BY NatLessThanWellFounded, WFMin
<1>2. \A y \in T : ~(y < x)
  BY <1>1 DEF OpToRel
<1>3. QED
  BY <1>2

\* Every non-empty set of positions of a sequence has a last one.
LEMMA LastPosition ==
  ASSUME NEW n \in Nat, NEW T \in SUBSET (1 .. n), T # {}
  PROVE  \E x \in T : \A y \in T : y <= x
<1> DEFINE D == {n - x : x \in T}
<1>1. D \in SUBSET Nat /\ D # {}
  <2>1. \A x \in T : n - x \in Nat
    OBVIOUS
  <2>2. D \subseteq Nat
    BY <2>1
  <2>3. QED
    BY <2>2
<1>2. PICK d \in D : \A e \in D : d <= e
  BY <1>1, LeastNatural
<1>3. PICK x \in T : d = n - x
  BY <1>2
<1>4. \A y \in T : n - y \in D
  OBVIOUS
<1>5. \A y \in T : y <= x
  BY <1>2, <1>3, <1>4
<1>6. QED
  BY <1>5

\* The table shows the last row of each key of the batch, and what it showed
\* before for the other keys.
LEMMA ApplyShowsLast ==
  ASSUME NEW tab \in [Keys -> Nat], NEW rows \in Seq(Row)
  PROVE  /\ Apply(tab, rows) \in [Keys -> Nat]
         /\ \A k \in Keys :
              \/ /\ \A i \in DOMAIN rows : rows[i].key # k
                 /\ Apply(tab, rows)[k] = tab[k]
              \/ \E i \in DOMAIN rows :
                   /\ rows[i].key = k
                   /\ \A j \in DOMAIN rows : rows[j].key = k => j <= i
                   /\ Apply(tab, rows)[k] = rows[i].ver
<1>1. DOMAIN rows = 1 .. Len(rows) /\ Len(rows) \in Nat
  BY LenProperties
<1>2. \A i \in DOMAIN rows : rows[i].ver \in Nat
  <2>1. \A i \in DOMAIN rows : rows[i] \in Row
    BY <1>1, ElementOfSeq
  <2>2. QED
    BY <2>1 DEF Row
<1>3. ASSUME NEW k \in Keys
      PROVE  \/ /\ \A i \in DOMAIN rows : rows[i].key # k
                /\ Apply(tab, rows)[k] = tab[k]
             \/ \E i \in DOMAIN rows :
                  /\ rows[i].key = k
                  /\ \A j \in DOMAIN rows : rows[j].key = k => j <= i
                  /\ Apply(tab, rows)[k] = rows[i].ver
  <2> DEFINE T == {i \in DOMAIN rows : rows[i].key = k}
             Last(i) == /\ rows[i].key = k
                        /\ \A j \in DOMAIN rows : rows[j].key = k => j <= i
             last == CHOOSE i \in DOMAIN rows : Last(i)
  <2>1. CASE T = {}
    BY <2>1 DEF Apply
  <2>2. CASE T # {}
    <3>1. \E i \in DOMAIN rows : Last(i)
      <4>1. PICK i \in T : \A j \in T : j <= i
        BY <1>1, <2>2, LastPosition
      <4>2. QED
        BY <4>1
    <3>2. last \in DOMAIN rows /\ Last(last)
      BY <3>1
    <3>3. Apply(tab, rows)[k] = rows[last].ver
      BY <2>2 DEF Apply
    <3>4. QED
      BY <3>2, <3>3
  <2>3. QED
    BY <2>1, <2>2
<1>4. \A k \in Keys : Apply(tab, rows)[k] \in Nat
  BY <1>2, <1>3
<1>5. Apply(tab, rows) = [k \in Keys |-> Apply(tab, rows)[k]]
  BY DEF Apply
<1>6. QED
  BY <1>3, <1>4, <1>5

-----------------------------------------------------------------------------
(* The inductive invariant.                                                *)

(***************************************************************************)
(* The rows acknowledged or dropped are exactly the ones older than the    *)
(* buffer, none of them both.  That the buffer holds only newer rows than  *)
(* any acknowledged one is why a repeated INSERT brings nothing old back.  *)
(***************************************************************************)
OlderSettled ==
  /\ Len(batch) <= received
  /\ acked \cap dropped = {}
  /\ \A r \in acked \cup dropped : r.ver <= received - Len(batch)
  /\ \A v \in 1 .. received - Len(batch) : \E r \in acked \cup dropped : r.ver = v

Inv == TypeOK /\ FreshestKept /\ OlderSettled /\ AckedStored

\* It holds initially.
LEMMA InitInv == Init => Inv
<1> SUFFICES ASSUME Init PROVE Inv
  OBVIOUS
<1>1. <<>> \in Seq(Row) /\ Len(<<>>) = 0
  BY EmptySeq
<1>2. TypeOK
  <2>1. open \in BOOLEAN
    BY DEF Init
  <2>2. QED
    BY <1>1, <2>1, ChWriterAssumption DEF Init, TypeOK
<1>3. FreshestKept
  BY <1>1, ChWriterAssumption DEF Init, FreshestKept
<1>4. OlderSettled
  BY <1>1 DEF Init, OlderSettled
<1>5. AckedStored
  BY DEF Init, AckedStored
<1>6. QED
  BY <1>2, <1>3, <1>4, <1>5 DEF Inv

\* The numbers and rows the buffer and the channel are made of.
LEMMA BufferFacts ==
  ASSUME TypeOK
  PROVE  /\ Len(batch) \in Nat /\ DOMAIN batch = 1 .. Len(batch)
         /\ Len(rx) \in Nat /\ DOMAIN rx = 1 .. Len(rx)
         /\ \A i \in DOMAIN batch : batch[i] \in Row
         /\ \A i \in DOMAIN rx : rx[i] \in Row
         /\ received \in Nat /\ MaxBufferRows \in Nat \ {0}
<1>1. batch \in Seq(Row) /\ rx \in Seq(Row) /\ received \in Nat
  BY DEF TypeOK
<1>2. /\ Len(batch) \in Nat /\ DOMAIN batch = 1 .. Len(batch)
      /\ Len(rx) \in Nat /\ DOMAIN rx = 1 .. Len(rx)
  BY <1>1, LenProperties
<1>3. \A i \in 1 .. Len(batch) : batch[i] \in Row
  BY <1>1, ElementOfSeq
<1>4. \A i \in 1 .. Len(rx) : rx[i] \in Row
  BY <1>1, ElementOfSeq
<1>5. QED
  BY <1>1, <1>2, <1>3, <1>4, ChWriterAssumption

\* A row enters the channel.
LEMMA SendInv ==
  ASSUME Inv, NEW k \in Keys, Send(k)
  PROVE  Inv'
<1> DEFINE row == [key |-> k, ver |-> sent + 1]
<1>1. /\ rx' = Append(rx, row) /\ sent' = sent + 1 /\ Len(rx) < ChannelBound
      /\ UNCHANGED <<open, pc, batch, wait, backoff, received, acked, dropped,
                     table, late, stale>>
  BY DEF Send
<1>2. row \in Row /\ row.ver = sent + 1
  BY DEF Row, Inv, TypeOK
<1>3. /\ Append(rx, row) \in Seq(Row) /\ Len(Append(rx, row)) = Len(rx) + 1
      /\ \A i \in 1 .. Len(rx) : Append(rx, row)[i] = rx[i]
      /\ Append(rx, row)[Len(rx) + 1] = row
  <2> HIDE DEF row
  <2>1. QED
    BY <1>2, AppendProperties DEF Inv, TypeOK
<1>4. /\ rx' \in Seq(Row) /\ Len(rx') = Len(rx) + 1
      /\ \A i \in 1 .. Len(rx) : rx'[i] = rx[i]
      /\ rx'[Len(rx) + 1] = row /\ DOMAIN rx' = 1 .. Len(rx')
  BY <1>1, <1>3, LenProperties
<1> HIDE DEF row
<1>5. TypeOK'
  BY <1>1, <1>4, ChWriterAssumption, BufferFacts DEF Inv, TypeOK
<1>6. FreshestKept'
  <2>1. \A i \in DOMAIN rx' : rx'[i].ver = received + i
    <3>1. SUFFICES ASSUME NEW i \in DOMAIN rx' PROVE rx'[i].ver = received + i
      OBVIOUS
    <3>2. Len(rx) \in Nat /\ received \in Nat /\ sent = received + Len(rx)
          /\ DOMAIN rx = 1 .. Len(rx)
      BY BufferFacts DEF Inv, FreshestKept
    <3>3. i \in 1 .. Len(rx) \/ i = Len(rx) + 1
      BY <1>4, <3>1, <3>2
    <3>4. CASE i \in 1 .. Len(rx)
      BY <1>4, <3>2, <3>4 DEF Inv, FreshestKept
    <3>5. CASE i = Len(rx) + 1
      <4>1. rx'[i].ver = sent + 1
        BY <1>2, <1>4, <3>5
      <4>2. QED
        BY <3>2, <3>5, <4>1
    <3>6. QED
      BY <3>3, <3>4, <3>5
  <2>2. sent' = received + Len(rx')
    BY <1>1, <1>4, BufferFacts DEF Inv, FreshestKept
  <2>3. QED
    BY <1>1, <2>1, <2>2 DEF Inv, FreshestKept
<1>7. OlderSettled' /\ AckedStored'
  BY <1>1 DEF Inv, OlderSettled, AckedStored
<1>8. QED
  BY <1>5, <1>6, <1>7 DEF Inv

\* The buffer after a row was pushed and the oldest above the cap dropped.
LEMMA PushFacts ==
  ASSUME Inv, RecvRow
  PROVE  /\ batch' \in Seq(Row) /\ received' = received + 1
         /\ Len(batch') <= MaxBufferRows
         /\ \A i \in DOMAIN batch' : batch'[i].ver = received' - Len(batch') + i
         /\ \/ Len(batch') = Len(batch) + 1 /\ dropped' = dropped
            \/ /\ Len(batch') = Len(batch)
               /\ \E row \in Row : /\ row.ver = received - Len(batch) + 1
                                   /\ dropped' = dropped \cup {row}
<1> DEFINE h == Head(rx)
           pushed == Append(batch, h)
           n == Excess(pushed)
           kept == SubSeq(pushed, n + 1, Len(pushed))
<1>1. /\ rx # <<>> /\ received' = received + 1 /\ batch' = kept
      /\ dropped' = dropped \cup RowsOf(SubSeq(pushed, 1, n))
  BY DEF RecvRow
<1>2. h \in Row /\ h.ver = received + 1
  <2>1. rx \in Seq(Row) /\ Len(rx) \in Nat \ {0}
    BY <1>1, EmptySeq DEF Inv, TypeOK
  <2>2. h = rx[1] /\ 1 \in DOMAIN rx
    BY <2>1, LenProperties
  <2>3. QED
    BY <2>1, <2>2, BufferFacts DEF Inv, FreshestKept
<1> HIDE DEF h
<1>3. /\ pushed \in Seq(Row) /\ Len(pushed) = Len(batch) + 1
      /\ \A i \in 1 .. Len(batch) : pushed[i] = batch[i]
      /\ pushed[Len(batch) + 1] = h
  BY <1>2, AppendProperties DEF Inv, TypeOK
<1> HIDE DEF pushed
<1>4. Len(batch) \in Nat /\ Len(batch) <= MaxBufferRows /\ received \in Nat
      /\ MaxBufferRows \in Nat \ {0}
  BY BufferFacts DEF Inv, FreshestKept
<1>5. \A i \in 1 .. Len(pushed) : /\ pushed[i] \in Row
                                  /\ pushed[i].ver = received - Len(batch) + i
  <2>1. SUFFICES ASSUME NEW i \in 1 .. Len(pushed)
                 PROVE  pushed[i] \in Row /\ pushed[i].ver = received - Len(batch) + i
    OBVIOUS
  <2>2. i \in 1 .. Len(batch) \/ i = Len(batch) + 1
    BY <1>3, <1>4, <2>1
  <2>3. CASE i \in 1 .. Len(batch)
    <3>1. i \in DOMAIN batch /\ batch[i] \in Row
      BY <2>3, BufferFacts DEF Inv
    <3>2. QED
      BY <1>3, <2>3, <3>1 DEF Inv, FreshestKept
  <2>4. CASE i = Len(batch) + 1
    <3>1. pushed[i] = h /\ received - Len(batch) + i = received + 1
      BY <1>3, <1>4, <2>4
    <3>2. QED
      BY <1>2, <3>1
  <2>5. QED
    BY <2>2, <2>3, <2>4
<1>6. CASE Len(pushed) <= MaxBufferRows
  <2>1. n = 0
    BY <1>3, <1>4, <1>6 DEF Excess
  <2>2. SubSeq(pushed, 1, 0) = <<>>
    BY SubSeqEmpty
  <2>3. RowsOf(SubSeq(pushed, 1, n)) = {}
    BY <2>1, <2>2 DEF RowsOf
  <2>4. SubSeq(pushed, 0 + 1, Len(pushed)) = pushed
    BY <1>3, SubSeqFull
  <2>5. batch' = pushed
    BY <1>1, <2>1, <2>4
  <2>6. DOMAIN pushed = 1 .. Len(pushed)
    BY <1>3, LenProperties
  <2>7. \A i \in 1 .. Len(pushed) : pushed[i].ver = (received + 1) - Len(pushed) + i
    BY <1>3, <1>4, <1>5
  <2>8. dropped' = dropped /\ Len(batch') = Len(batch) + 1
    BY <1>1, <1>3, <2>3, <2>5
  <2>9. \A i \in DOMAIN batch' : batch'[i].ver = received' - Len(batch') + i
    BY <1>1, <2>5, <2>6, <2>7
  <2>10. QED
    BY <1>1, <1>3, <1>6, <2>5, <2>8, <2>9
<1>7. CASE Len(pushed) > MaxBufferRows
  <2>1. n = 1 /\ Len(batch) = MaxBufferRows
    BY <1>3, <1>4, <1>7 DEF Excess
  <2>2. /\ SubSeq(pushed, 2, Len(pushed)) \in Seq(Row)
        /\ Len(SubSeq(pushed, 2, Len(pushed))) = Len(batch)
        /\ \A i \in 1 .. Len(batch) : SubSeq(pushed, 2, Len(pushed))[i] = pushed[i + 1]
    <3>1. \A i \in 2 .. Len(pushed) : pushed[i] \in Row
      BY <1>3, <1>5, <1>4
    <3>2. /\ SubSeq(pushed, 2, Len(pushed)) \in Seq(Row)
          /\ Len(SubSeq(pushed, 2, Len(pushed)))
               = IF 2 <= Len(pushed) THEN Len(pushed) - 2 + 1 ELSE 0
          /\ \A i \in 1 .. Len(pushed) - 2 + 1 :
               SubSeq(pushed, 2, Len(pushed))[i] = pushed[2 + i - 1]
      BY <1>3, <1>4, <3>1, SubSeqProperties
    <3>3. QED
      BY <1>3, <1>4, <2>1, <3>2
  <2>3. /\ SubSeq(pushed, 1, 1) \in Seq(Row)
        /\ Len(SubSeq(pushed, 1, 1)) = 1
        /\ SubSeq(pushed, 1, 1)[1] = pushed[1]
    <3>1. \A i \in 1 .. 1 : pushed[i] \in Row
      BY <1>3, <1>5, <1>4
    <3>2. /\ SubSeq(pushed, 1, 1) \in Seq(Row)
          /\ Len(SubSeq(pushed, 1, 1)) = IF 1 <= 1 THEN 1 - 1 + 1 ELSE 0
          /\ \A i \in 1 .. 1 - 1 + 1 : SubSeq(pushed, 1, 1)[i] = pushed[1 + i - 1]
      BY <3>1, SubSeqProperties
    <3>3. QED
      BY <3>2
  <2>4. RowsOf(SubSeq(pushed, 1, 1)) = {pushed[1]}
    <3>1. DOMAIN SubSeq(pushed, 1, 1) = {1}
      BY <2>3, LenProperties
    <3>2. QED
      BY <2>3, <3>1 DEF RowsOf
  <2>5. batch' = SubSeq(pushed, 2, Len(pushed))
    BY <1>1, <2>1
  <2>6. /\ batch' \in Seq(Row) /\ Len(batch') = Len(batch)
        /\ \A i \in 1 .. Len(batch) : batch'[i] = pushed[i + 1]
        /\ DOMAIN batch' = 1 .. Len(batch)
    BY <2>2, <2>5, LenProperties
  <2>7. \A i \in 1 .. Len(batch) : batch'[i].ver = received + 1 - Len(batch) + i
    BY <1>3, <1>5, <1>4, <2>6
  <2>8. /\ pushed[1] \in Row /\ pushed[1].ver = received - Len(batch) + 1
        /\ dropped' = dropped \cup {pushed[1]}
    BY <1>1, <1>3, <1>5, <1>4, <2>1, <2>4
  <2>9. \A i \in DOMAIN batch' : batch'[i].ver = received' - Len(batch') + i
    <3>1. received' - Len(batch') = received + 1 - Len(batch)
      <4>1. received' = received + 1
        BY <1>1
      <4>2. Len(batch') = Len(batch)
        BY <2>6
      <4>3. QED
        BY <1>4, <4>1, <4>2
    <3>2. \A i \in DOMAIN batch' : batch'[i].ver = (received + 1 - Len(batch)) + i
      BY <2>6, <2>7
    <3>3. QED
      BY <3>1, <3>2
  <2>10. Len(batch') <= MaxBufferRows
    BY <1>4, <2>6
  <2>11. QED
    BY <1>1, <2>6, <2>8, <2>9, <2>10
<1>8. QED
  BY <1>3, <1>4, <1>6, <1>7

\* A row is received.
LEMMA RecvInv ==
  ASSUME Inv, RecvRow
  PROVE  Inv'
<1>1. /\ rx # <<>> /\ rx' = Tail(rx) /\ pc' \in {"select", "post"}
      /\ UNCHANGED <<open, sent, wait, backoff, acked, table, late, stale>>
  BY DEF RecvRow
<1>2. /\ Len(batch) \in Nat /\ received \in Nat /\ Len(rx) \in Nat /\ Len(rx) <= ChannelBound
      /\ Len(batch) <= received /\ sent = received + Len(rx)
      /\ ChannelBound \in Nat
  BY BufferFacts, ChWriterAssumption DEF Inv, OlderSettled, FreshestKept, TypeOK
<1>3. /\ rx' \in Seq(Row) /\ Len(rx') = Len(rx) - 1
      /\ \A i \in 1 .. Len(rx') : rx'[i] = rx[i + 1]
      /\ DOMAIN rx' = 1 .. Len(rx')
  <2>1. /\ Tail(rx) \in Seq(Row) /\ Len(Tail(rx)) = Len(rx) - 1
        /\ \A i \in 1 .. Len(Tail(rx)) : Tail(rx)[i] = rx[i + 1]
    BY <1>1, HeadTailProperties DEF Inv, TypeOK
  <2>2. QED
    BY <1>1, <2>1, LenProperties
<1>4. /\ batch' \in Seq(Row) /\ received' = received + 1
      /\ Len(batch') <= MaxBufferRows
      /\ \A i \in DOMAIN batch' : batch'[i].ver = received' - Len(batch') + i
  BY PushFacts
<1>5. \/ Len(batch') = Len(batch) + 1 /\ dropped' = dropped
      \/ /\ Len(batch') = Len(batch)
         /\ \E row \in Row : /\ row.ver = received - Len(batch) + 1
                             /\ dropped' = dropped \cup {row}
  BY PushFacts
<1>6. TypeOK'
  <2>1. dropped' \subseteq Row
    BY <1>5 DEF Inv, TypeOK
  <2>2. Len(rx') <= ChannelBound /\ received' \in Nat
    BY <1>2, <1>3, <1>4
  <2>3. QED
    BY <1>1, <1>3, <1>4, <2>1, <2>2 DEF Inv, TypeOK
<1>7. FreshestKept'
  <2>1. \A i \in DOMAIN rx' : rx'[i].ver = received' + i
    <3>1. SUFFICES ASSUME NEW i \in 1 .. Len(rx') PROVE rx'[i].ver = received + 1 + i
      BY <1>3, <1>4
    <3>2. i + 1 \in 1 .. Len(rx) /\ i \in Nat
      BY <1>2, <1>3, <3>1
    <3>3. rx[i + 1].ver = received + (i + 1)
      BY <3>2, BufferFacts DEF Inv, FreshestKept
    <3>4. received + (i + 1) = received + 1 + i
      BY <1>2, <3>2
    <3>5. QED
      BY <1>3, <3>1, <3>3, <3>4
  <2>2. sent' = received' + Len(rx')
    BY <1>1, <1>2, <1>3, <1>4
  <2>3. QED
    BY <1>4, <2>1, <2>2 DEF FreshestKept
<1>8. OlderSettled'
  <2> DEFINE d == received - Len(batch)
             old == acked \cup dropped
  <2>1. /\ d \in Nat /\ acked \cap dropped = {}
        /\ \A r \in old : r.ver <= d
        /\ \A v \in 1 .. d : \E r \in old : r.ver = v
    BY <1>2 DEF Inv, OlderSettled
  <2>2. CASE Len(batch') = Len(batch) + 1 /\ dropped' = dropped
    <3>1. received' - Len(batch') = d /\ Len(batch') <= received' /\ acked' = acked
      BY <1>1, <1>2, <1>4, <2>2
    <3>2. QED
      BY <2>1, <2>2, <3>1 DEF OlderSettled
  <2>3. ASSUME Len(batch') = Len(batch), NEW row \in Row, row.ver = d + 1,
               dropped' = dropped \cup {row}
        PROVE  OlderSettled'
    <3>1. received' - Len(batch') = d + 1 /\ Len(batch') <= received' /\ acked' = acked
      BY <1>1, <1>2, <1>4, <2>3
    <3> HIDE DEF d
    <3>2. row \notin acked
      BY <2>1, <2>3
    <3>3. acked' \cap dropped' = {}
      BY <2>1, <2>3, <3>1, <3>2
    <3>4. \A r \in acked \cup dropped : r.ver \in Nat
      BY DEF Inv, TypeOK, Row
    <3>5. \A r \in acked' \cup dropped' : r.ver <= d + 1
      BY <2>1, <2>3, <3>1, <3>4
    <3>6. \A v \in 1 .. d + 1 : \E r \in acked' \cup dropped' : r.ver = v
      <4>1. SUFFICES ASSUME NEW v \in 1 .. d + 1
                     PROVE  \E r \in acked' \cup dropped' : r.ver = v
        OBVIOUS
      <4>2. v \in 1 .. d \/ v = d + 1
        BY <2>1, <4>1
      <4>3. QED
        BY <2>1, <2>3, <3>1, <4>2
    <3>7. QED
      BY <3>1, <3>3, <3>5, <3>6 DEF OlderSettled
  <2>4. QED
    BY <1>5, <2>2, <2>3
<1>9. AckedStored'
  BY <1>1 DEF Inv, AckedStored
<1>10. QED
  BY <1>6, <1>7, <1>8, <1>9 DEF Inv

\* A batch that is applied shows, for each of its keys, something newer than
\* every row acknowledged before it and nothing older than its own rows.
LEMMA ApplyKeepsAcked ==
  ASSUME Inv, NEW r \in acked \cup RowsOf(batch),
         r \in acked => r.key \in stale \/ table[r.key] >= r.ver
  PROVE  \/ r \in acked /\ r.key \in stale
         \/ Apply(table, batch)[r.key] >= r.ver
<1>1. /\ table \in [Keys -> Nat] /\ batch \in Seq(Row) /\ acked \subseteq Row
      /\ Len(batch) \in Nat /\ received \in Nat /\ DOMAIN batch = 1 .. Len(batch)
  BY BufferFacts DEF Inv, TypeOK
<1>2. r \in Row /\ r.key \in Keys /\ r.ver \in Nat
  BY <1>1, BufferFacts DEF Inv, RowsOf, Row
<1>3. \A i \in DOMAIN batch : batch[i].ver = received - Len(batch) + i
  BY DEF Inv, FreshestKept
<1>4. \/ /\ \A i \in DOMAIN batch : batch[i].key # r.key
         /\ Apply(table, batch)[r.key] = table[r.key]
      \/ \E i \in DOMAIN batch :
           /\ \A j \in DOMAIN batch : batch[j].key = r.key => j <= i
           /\ Apply(table, batch)[r.key] = batch[i].ver
  BY <1>1, <1>2, ApplyShowsLast
<1>5. CASE /\ \A i \in DOMAIN batch : batch[i].key # r.key
           /\ Apply(table, batch)[r.key] = table[r.key]
  <2>1. r \in acked
    BY <1>5 DEF RowsOf
  <2>2. QED
    BY <1>5, <2>1
<1>6. ASSUME NEW i \in DOMAIN batch,
             \A j \in DOMAIN batch : batch[j].key = r.key => j <= i,
             Apply(table, batch)[r.key] = batch[i].ver
      PROVE  Apply(table, batch)[r.key] >= r.ver
  <2>1. CASE r \in acked
    <3>1. r.ver <= received - Len(batch)
      BY <2>1 DEF Inv, OlderSettled
    <3>2. QED
      BY <1>1, <1>2, <1>3, <1>6, <3>1
  <2>2. CASE r \in RowsOf(batch)
    <3>1. PICK j \in DOMAIN batch : r = batch[j]
      BY <2>2 DEF RowsOf
    <3>2. j <= i
      BY <1>6, <3>1
    <3>3. r.ver = received - Len(batch) + j
      BY <1>3, <3>1
    <3>4. QED
      BY <1>1, <1>3, <1>6, <3>2, <3>3
  <2>3. QED
    BY <2>1, <2>2
<1>7. QED
  BY <1>4, <1>5, <1>6

\* An INSERT is acknowledged.
LEMMA PostOkInv ==
  ASSUME Inv, PostOk
  PROVE  Inv'
<1> DEFINE d == received - Len(batch)
<1>1. /\ table' = Apply(table, batch) /\ acked' = acked \cup RowsOf(batch)
      /\ batch' = <<>> /\ backoff' = FlushInterval /\ wait' = 0
      /\ pc' \in {"select", "done"}
      /\ UNCHANGED <<rx, open, sent, received, dropped, late, stale>>
  BY DEF PostOk, AfterFlush
<1>2. <<>> \in Seq(Row) /\ Len(<<>>) = 0
  BY EmptySeq
<1>3. /\ Len(batch) \in Nat /\ received \in Nat /\ Len(batch) <= received
      /\ DOMAIN batch = 1 .. Len(batch)
      /\ \A i \in DOMAIN batch : batch[i].ver = d + i
      /\ \A i \in DOMAIN batch : batch[i] \in Row
  BY BufferFacts DEF Inv, FreshestKept, OlderSettled
<1>4. TypeOK'
  <2>1. acked' \subseteq Row
    BY <1>1, <1>3 DEF Inv, TypeOK, RowsOf
  <2>2. table' \in [Keys -> Nat]
    BY <1>1, ApplyShowsLast DEF Inv, TypeOK
  <2>3. QED
    BY <1>1, <1>2, <2>1, <2>2, ChWriterAssumption DEF Inv, TypeOK
<1>5. FreshestKept'
  BY <1>1, <1>2, ChWriterAssumption DEF Inv, FreshestKept
<1>6. OlderSettled'
  <2>1. d \in Nat /\ received = d + Len(batch)
    BY <1>3
  <2>2. /\ acked \cap dropped = {}
        /\ \A r \in acked \cup dropped : r.ver <= d
        /\ \A v \in 1 .. d : \E r \in acked \cup dropped : r.ver = v
        /\ \A r \in acked \cup dropped : r.ver \in Nat
    BY DEF Inv, OlderSettled, TypeOK, Row
  <2> HIDE DEF d
  <2>3. \A r \in RowsOf(batch) : r.ver \in d + 1 .. received
    BY <1>3, <2>1 DEF RowsOf
  <2>4. \A v \in d + 1 .. received : \E r \in RowsOf(batch) : r.ver = v
    <3>1. SUFFICES ASSUME NEW v \in d + 1 .. received
                   PROVE  \E r \in RowsOf(batch) : r.ver = v
      OBVIOUS
    <3>2. v - d \in DOMAIN batch /\ d + (v - d) = v
      BY <1>3, <2>1, <3>1
    <3>3. batch[v - d].ver = v /\ batch[v - d] \in RowsOf(batch)
      BY <1>3, <3>2 DEF RowsOf
    <3>4. QED
      BY <3>3
  <2>5. RowsOf(batch) \cap dropped = {}
    BY <2>1, <2>2, <2>3
  <2>6. acked' \cap dropped' = {}
    BY <1>1, <2>2, <2>5
  <2>7. received' - Len(batch') = received /\ Len(batch') <= received'
    BY <1>1, <1>2, <1>3
  <2>8. \A r \in acked' \cup dropped' : r.ver <= received
    BY <1>1, <1>3, <2>1, <2>2, <2>3
  <2>9. \A v \in 1 .. received : \E r \in acked' \cup dropped' : r.ver = v
    <3>1. SUFFICES ASSUME NEW v \in 1 .. received
                   PROVE  \E r \in acked' \cup dropped' : r.ver = v
      OBVIOUS
    <3>2. v \in 1 .. d \/ v \in d + 1 .. received
      BY <1>3, <2>1, <3>1
    <3>3. QED
      BY <1>1, <2>2, <2>4, <3>2
  <2>10. QED
    BY <2>6, <2>7, <2>8, <2>9 DEF OlderSettled
<1>7. AckedStored'
  BY <1>1, ApplyKeepsAcked DEF Inv, AckedStored
<1>8. QED
  BY <1>4, <1>5, <1>6, <1>7 DEF Inv

\* An INSERT fails, whatever the server did with it.
LEMMA FlushFailedInv ==
  ASSUME Inv, PostRefused \/ PostAnswerLost \/ PostTimedOut
  PROVE  Inv'
<1>1. /\ pc' \in {"select", "done"} /\ wait' \in Nat /\ backoff' \in Nat
      /\ UNCHANGED <<rx, open, sent, batch, received, acked, dropped, stale>>
  BY ChWriterAssumption
     DEF PostRefused, PostAnswerLost, PostTimedOut, FlushFailed, AfterFlush, Inv, TypeOK
<1>2. /\ table' = table \/ table' = Apply(table, batch)
      /\ late' = late \/ late' = late \cup {batch}
  BY DEF PostRefused, PostAnswerLost, PostTimedOut
<1>3. TypeOK'
  <2>1. table' \in [Keys -> Nat] /\ late' \subseteq Seq(Row)
    BY <1>2, ApplyShowsLast DEF Inv, TypeOK
  <2>2. QED
    BY <1>1, <2>1 DEF Inv, TypeOK
<1>4. FreshestKept' /\ OlderSettled'
  BY <1>1 DEF Inv, FreshestKept, OlderSettled
<1>5. AckedStored'
  BY <1>1, <1>2, ApplyKeepsAcked DEF Inv, AckedStored
<1>6. QED
  BY <1>3, <1>4, <1>5 DEF Inv

\* An abandoned INSERT is applied: it can only harm keys marked stale.
LEMMA ApplyLateInv ==
  ASSUME Inv, NEW rows \in late, ApplyLate(rows)
  PROVE  Inv'
<1>1. /\ table' = Apply(table, rows) /\ late' = late \ {rows}
      /\ stale' = stale \cup {r.key : r \in RowsOf(rows)}
      /\ UNCHANGED <<rx, open, sent, pc, batch, wait, backoff, received, acked, dropped>>
  BY DEF ApplyLate
<1>2. rows \in Seq(Row) /\ table \in [Keys -> Nat] /\ acked \subseteq Row
  BY DEF Inv, TypeOK
<1>3. \A i \in DOMAIN rows : rows[i] \in Row
  BY <1>2, LenProperties, ElementOfSeq
<1>4. TypeOK'
  <2>1. stale' \subseteq Keys
    BY <1>1, <1>3 DEF Inv, TypeOK, RowsOf, Row
  <2>2. table' \in [Keys -> Nat]
    BY <1>1, <1>2, ApplyShowsLast
  <2>3. QED
    BY <1>1, <2>1, <2>2 DEF Inv, TypeOK
<1>5. FreshestKept' /\ OlderSettled'
  BY <1>1 DEF Inv, FreshestKept, OlderSettled
<1>6. AckedStored'
  <2>1. SUFFICES ASSUME NEW r \in acked, r.key \notin stale'
                 PROVE  table'[r.key] >= r.ver
    BY <1>1 DEF AckedStored
  <2>2. \A i \in DOMAIN rows : rows[i].key # r.key
    BY <1>1, <2>1 DEF RowsOf
  <2>3. r.key \in Keys
    BY <1>2, <2>1 DEF Row
  <2>4. Apply(table, rows)[r.key] = table[r.key]
    BY <1>2, <2>2, <2>3, ApplyShowsLast
  <2>5. QED
    BY <1>1, <2>1, <2>4 DEF Inv, AckedStored
<1>7. QED
  BY <1>4, <1>5, <1>6 DEF Inv

\* Every reachable state satisfies the inductive invariant.
LEMMA Invariance == Spec => []Inv
<1>1. Inv /\ [Next]_vars => Inv'
  <2> SUFFICES ASSUME Inv, [Next]_vars PROVE Inv'
    OBVIOUS
  <2>1. CASE CloseChannel
    BY <2>1 DEF CloseChannel, Inv, TypeOK, FreshestKept, OlderSettled, AckedStored
  <2>2. CASE RecvNone
    BY <2>2 DEF RecvNone, Inv, TypeOK, FreshestKept, OlderSettled, AckedStored
  <2>3. CASE TickFlush
    BY <2>3 DEF TickFlush, Inv, TypeOK, FreshestKept, OlderSettled, AckedStored
  <2>4. CASE Elapse
    BY <2>4 DEF Elapse, Inv, TypeOK, FreshestKept, OlderSettled, AckedStored
  <2>5. CASE UNCHANGED vars
    BY <2>5 DEF vars, Inv, TypeOK, FreshestKept, OlderSettled, AckedStored
  <2>6. QED
    BY <2>1, <2>2, <2>3, <2>4, <2>5, SendInv, RecvInv, PostOkInv, FlushFailedInv,
       ApplyLateInv DEF Next
<1>2. QED
  BY InitInv, <1>1, PTL DEF Spec

-----------------------------------------------------------------------------
(***************************************************************************)
(* Types hold, the channel within its capacity.                            *)
(***************************************************************************)
THEOREM TypesHold == Spec => []TypeOK
<1>1. Inv => TypeOK
  BY DEF Inv
<1>2. QED
  BY Invariance, <1>1, PTL

(***************************************************************************)
(* The buffer is within its cap and holds exactly the freshest rows        *)
(* received, in order, however many flushes failed.                        *)
(***************************************************************************)
THEOREM BufferHoldsFreshest == Spec => []FreshestKept
<1>1. Inv => FreshestKept
  BY DEF Inv
<1>2. QED
  BY Invariance, <1>1, PTL

(***************************************************************************)
(* Each row received is counted in rows_ok, counted in rows_dropped or     *)
(* buffered, and exactly one of the three.                                 *)
(***************************************************************************)
THEOREM RowsAccounted == Spec => []EveryRowAccounted
<1>1. Inv => EveryRowAccounted
  <2> SUFFICES ASSUME Inv PROVE EveryRowAccounted
    OBVIOUS
  <2> DEFINE d == received - Len(batch)
             old == acked \cup dropped
  <2>1. /\ Len(batch) \in Nat /\ received \in Nat /\ Len(batch) <= received
        /\ DOMAIN batch = 1 .. Len(batch)
        /\ \A i \in DOMAIN batch : batch[i].ver = d + i
    BY BufferFacts DEF Inv, FreshestKept, OlderSettled
  <2>2. d \in Nat /\ received = d + Len(batch)
    BY <2>1
  <2>3. /\ acked \cap dropped = {}
        /\ \A r \in old : r.ver <= d /\ r.ver \in Nat \ {0}
        /\ \A v \in 1 .. d : \E r \in old : r.ver = v
    BY DEF Inv, OlderSettled, TypeOK, Row
  <2> HIDE DEF d
  <2>4. \A r \in RowsOf(batch) : r.ver \in d + 1 .. received
    BY <2>1, <2>2 DEF RowsOf
  <2>5. old \cap RowsOf(batch) = {}
    BY <2>2, <2>3, <2>4
  <2>6. ASSUME NEW r \in old \cup RowsOf(batch) PROVE r.ver \in 1 .. received
    BY <2>1, <2>2, <2>3, <2>4
  <2>7. ASSUME NEW v \in 1 .. received PROVE \E r \in old \cup RowsOf(batch) : r.ver = v
    <3>1. CASE v \in 1 .. d
      BY <2>3, <3>1
    <3>2. CASE v \notin 1 .. d
      <4>1. v - d \in DOMAIN batch /\ d + (v - d) = v
        BY <2>1, <2>2, <3>2
      <4>2. batch[v - d].ver = v /\ batch[v - d] \in RowsOf(batch)
        BY <2>1, <4>1 DEF RowsOf
      <4>3. QED
        BY <4>2
    <3>3. QED
      BY <3>1, <3>2
  <2>8. {r.ver : r \in old \cup RowsOf(batch)} = 1 .. received
    BY <2>6, <2>7
  <2>9. QED
    BY <2>3, <2>5, <2>8 DEF EveryRowAccounted
<1>2. QED
  BY Invariance, <1>1, PTL

(***************************************************************************)
(* A row counted in rows_ok is in the table or replaced by a newer one,    *)
(* unless an INSERT given up on was applied late to its key.               *)
(***************************************************************************)
THEOREM AckedRowsStored == Spec => []AckedStored
<1>1. Inv => AckedStored
  BY DEF Inv
<1>2. QED
  BY Invariance, <1>1, PTL
=============================================================================
