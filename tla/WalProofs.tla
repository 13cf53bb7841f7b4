------------------------------- MODULE WalProofs -------------------------------
(***************************************************************************)
(* The write-ahead log is a durable log, and gives a careful caller what   *)
(* it promises, for every set of payloads and their lengths, every length  *)
(* of the header, and any number of appends, failures, syncs, crashes,     *)
(* cuts and writers.                                                       *)
(*                                                                         *)
(* What the reader finds is defined by recursion over offsets.  An offset  *)
(* after a frame is larger than the one before it, so facts about it are   *)
(* shown for the largest offset that would violate them.                   *)
(***************************************************************************)
EXTENDS Wal, SequenceTheorems, FiniteSetTheorems, WellFoundedInduction, TLAPS

\* a is how the file b begins.
Begins(a, b) ==
  /\ a \in Seq(Unit) /\ b \in Seq(Unit)
  /\ Len(a) <= Len(b)
  /\ \A i \in 1 .. Len(a) : a[i] = b[i]

-----------------------------------------------------------------------------
(* Offsets.                                                                *)

\* A non-empty set of offsets of a file has a largest one.
LEMMA LastOffset ==
  ASSUME NEW n \in Nat, NEW T \in SUBSET (0 .. n), T # {}
  PROVE  \E x \in T : \A y \in T : y <= x
<1> DEFINE D == {n - x : x \in T}
<1>1. D \in SUBSET Nat /\ D # {}
  <2>1. \A x \in T : n - x \in Nat
    OBVIOUS
  <2> QED BY <2>1
<1>2. PICK d \in D : \A e \in D : ~(<<e, d>> \in OpToRel(<, Nat))
  <2> HIDE DEF D
  <2> QED BY <1>1, NatLessThanWellFounded, WFMin
<1>3. \A e \in D : d <= e
  <2> HIDE DEF D
  <2>1. \A e \in D : ~(e < d)
    BY <1>1, <1>2 DEF OpToRel
  <2>2. d \in Nat /\ D \subseteq Nat
    BY <1>1, <1>2
  <2> QED BY <2>1, <2>2
<1>4. PICK x \in T : d = n - x
  BY <1>2
<1>5. \A y \in T : n - y \in D
  OBVIOUS
<1>6. \A y \in T : y <= x
  BY <1>3, <1>4, <1>5
<1> QED BY <1>6

\* next_frame moves forward inside the file when it finds a frame and not at all
\* otherwise.
LEMMA NextFrameFacts ==
  ASSUME NEW file \in Seq(Unit), NEW o \in 0 .. Len(file)
  PROVE  LET r == next_frame(file, o)
         IN  /\ r.found \in BOOLEAN
             /\ r.found => r.frame \in Frames /\ r.next \in (o + 1) .. Len(file)
             /\ ~r.found => r.next = o
<1>1. Len(file) \in Nat /\ o \in Nat /\ HeaderLen \in Nat /\ HeaderLen > 0
  BY HeaderAssumption, LenProperties
<1>2. CASE o + HeaderLen > Len(file)
  BY <1>2 DEF next_frame, End
<1>3. CASE ~(o + HeaderLen > Len(file))
  <2> DEFINE f == file[o + 1].frame
             end == o + HeaderLen + PayloadLen(f)
  <2>1. o + 1 \in 1 .. Len(file)
    BY <1>1, <1>3
  <2>2. file[o + 1] \in Unit
    BY <2>1, ElementOfSeq
  <2>3. f \in Frames
    BY <2>2 DEF Unit
  <2> HIDE DEF f
  <2>4. PayloadLen(f) \in Nat
    BY <2>3, HeaderAssumption
  <2>5. next_frame(file, o)
          = IF end <= Len(file) /\ SubSeq(file, o + 1, end) = Units(f)
            THEN [found |-> TRUE, frame |-> f, next |-> end]
            ELSE [found |-> FALSE, frame |-> "none", next |-> o]
    BY <1>3 DEF next_frame, End, f
  <2> QED BY <1>1, <2>3, <2>4, <2>5
<1> QED BY <1>2, <1>3

\* A frame that lies in what two files have in common is found in both.
LEMMA SameFrame ==
  ASSUME NEW a \in Seq(Unit), NEW b \in Seq(Unit), NEW n \in Nat,
         n <= Len(a), n <= Len(b), \A i \in 1 .. n : a[i] = b[i],
         NEW o \in 0 .. n, next_frame(a, o).found, next_frame(a, o).next <= n
  PROVE  next_frame(b, o) = next_frame(a, o)
<1> DEFINE f == a[o + 1].frame
           end == o + HeaderLen + PayloadLen(f)
<1>1. Len(a) \in Nat /\ Len(b) \in Nat /\ HeaderLen \in Nat /\ HeaderLen > 0
  BY HeaderAssumption, LenProperties
<1>2. ~(o + HeaderLen > Len(a))
  BY DEF next_frame, End
<1>3. next_frame(a, o)
        = IF end <= Len(a) /\ SubSeq(a, o + 1, end) = Units(f)
          THEN [found |-> TRUE, frame |-> f, next |-> end]
          ELSE [found |-> FALSE, frame |-> "none", next |-> o]
  BY <1>2 DEF next_frame, End
<1>4. /\ end <= n /\ SubSeq(a, o + 1, end) = Units(f)
      /\ next_frame(a, o) = [found |-> TRUE, frame |-> f, next |-> end]
  BY <1>3
<1>5. PayloadLen(f) \in Nat
  <2>1. o + 1 \in 1 .. Len(a)
    BY <1>1, <1>2
  <2>2. a[o + 1] \in Unit
    BY <2>1, ElementOfSeq
  <2> QED BY <2>2, HeaderAssumption DEF Unit
<1>6. end \in Nat /\ o + 1 <= n /\ o + HeaderLen <= n
  BY <1>1, <1>4, <1>5
<1>7. b[o + 1] = a[o + 1]
  BY <1>6
<1>8. SubSeq(b, o + 1, end) = SubSeq(a, o + 1, end)
  <2>1. \A i \in 1 .. end - (o + 1) + 1 : a[o + 1 + i - 1] = b[o + 1 + i - 1]
    BY <1>4, <1>6
  <2> HIDE DEF end
  <2>2. \A i \in (o + 1) .. end : a[i] = b[i]
    BY <1>4, <1>6
  <2> QED BY <1>6, <2>1, <2>2
<1>9. end <= Len(b) /\ ~(o + HeaderLen > Len(b))
  BY <1>1, <1>4, <1>6
<1> QED
  BY <1>4, <1>7, <1>8, <1>9 DEF next_frame

-----------------------------------------------------------------------------
(* What a reader finds.                                                    *)

\* The reader's loop is well defined: it always comes to an end.
LEMMA ReadFromUnfolds ==
  ASSUME NEW file \in Seq(Unit)
  PROVE  /\ DOMAIN ReadFrom(file) = 0 .. Len(file)
         /\ \A o \in 0 .. Len(file) :
              ReadFrom(file)[o] = ReadStep(file, ReadFrom(file), o)
<1> DEFINE L == Len(file)
           Tail_(g, a) == g = [o \in a .. L |-> ReadStep(file, g, o)]
           T == {a \in 0 .. L : ~\E g : Tail_(g, a)}
<1>1. L \in Nat
  BY LenProperties
<1>2. T = {}
  <2> SUFFICES ASSUME T # {} PROVE FALSE
    OBVIOUS
  <2>1. PICK a \in T : \A y \in T : y <= a
    BY <1>1, LastOffset
  <2>2. a \in 0 .. L /\ ~\E g : Tail_(g, a)
    BY <2>1
  <2>3. CASE a = L
    <3> DEFINE g == [o \in L .. L |-> [frames |-> <<>>, offset |-> L]]
    <3>1. ~next_frame(file, L).found /\ next_frame(file, L).next = L
      BY <1>1, NextFrameFacts
    <3>2. \A o \in L .. L : ReadStep(file, g, o) = [frames |-> <<>>, offset |-> L]
      BY <1>1, <3>1 DEF ReadStep
    <3>3. Tail_(g, a)
      BY <2>3, <3>2
    <3> QED BY <2>2, <3>3
  <2>4. CASE a # L
    <3>1. a + 1 \in 0 .. L /\ a + 1 \notin T
      BY <1>1, <2>1, <2>2, <2>4
    <3>2. PICK h : Tail_(h, a + 1)
      BY <3>1
    <3> DEFINE g == [o \in a .. L |-> IF o = a THEN ReadStep(file, h, a) ELSE h[o]]
    <3>3. ASSUME NEW o \in a .. L PROVE ReadStep(file, g, o) = ReadStep(file, h, o)
      <4>1. next_frame(file, o).found => next_frame(file, o).next \in (o + 1) .. L
        BY <1>1, <2>2, NextFrameFacts
      <4>2. next_frame(file, o).found => g[next_frame(file, o).next] = h[next_frame(file, o).next]
        BY <1>1, <2>2, <4>1
      <4> HIDE DEF g
      <4> QED BY <4>2 DEF ReadStep
    <3>4. \A o \in (a + 1) .. L : h[o] = ReadStep(file, h, o)
      <4> DEFINE r == [o \in (a + 1) .. L |-> ReadStep(file, h, o)]
      <4>1. h = r
        BY <3>2
      <4>2. \A o \in (a + 1) .. L : r[o] = ReadStep(file, h, o)
        OBVIOUS
      <4> HIDE DEF r
      <4> QED BY <4>1, <4>2
    <3>5. \A o \in a .. L : g[o] = ReadStep(file, g, o)
      BY <1>1, <2>2, <3>3, <3>4
    <3>6. Tail_(g, a)
      BY <3>5
    <3> QED BY <2>2, <3>6
  <2> QED BY <2>3, <2>4
<1>3. \E g : Tail_(g, 0)
  BY <1>1, <1>2
<1>4. Tail_(ReadFrom(file), 0)
  BY <1>3 DEF ReadFrom
<1>5. \A g : Tail_(g, 0) =>
        DOMAIN g = 0 .. L /\ \A o \in 0 .. L : g[o] = ReadStep(file, g, o)
  <2> TAKE g
  <2> HAVE Tail_(g, 0)
  <2> DEFINE r == [o \in 0 .. L |-> ReadStep(file, g, o)]
  <2>1. g = r
    OBVIOUS
  <2>2. DOMAIN r = 0 .. L /\ \A o \in 0 .. L : r[o] = ReadStep(file, g, o)
    OBVIOUS
  <2> HIDE DEF r
  <2> QED BY <2>1, <2>2
<1> QED BY <1>4, <1>5

\* The frames found are frames, and the reader stops at or after where it starts.
LEMMA ReadTyped ==
  ASSUME NEW file \in Seq(Unit)
  PROVE  \A o \in 0 .. Len(file) :
           /\ ReadFrom(file)[o].frames \in Seq(Frames)
           /\ ReadFrom(file)[o].offset \in o .. Len(file)
<1> DEFINE L == Len(file)
           R == ReadFrom(file)
           Typed(o) == R[o].frames \in Seq(Frames) /\ R[o].offset \in o .. L
           T == {o \in 0 .. L : ~Typed(o)}
<1>1. L \in Nat
  BY LenProperties
<1>2. T = {}
  <2> SUFFICES ASSUME T # {} PROVE FALSE
    OBVIOUS
  <2>1. PICK o \in T : \A y \in T : y <= o
    BY <1>1, LastOffset
  <2>2. o \in 0 .. L /\ ~Typed(o) /\ R[o] = ReadStep(file, R, o)
    BY <2>1, ReadFromUnfolds
  <2> DEFINE r == next_frame(file, o)
  <2>3. /\ r.found \in BOOLEAN
        /\ r.found => r.frame \in Frames /\ r.next \in (o + 1) .. L
        /\ ~r.found => r.next = o
    BY <2>2, NextFrameFacts
  <2> HIDE DEF R
  <2>4. CASE ~r.found
    <3>1. R[o] = [frames |-> <<>>, offset |-> o]
      BY <2>2, <2>3, <2>4 DEF ReadStep
    <3> QED BY <1>1, <2>2, <3>1
  <2>5. CASE r.found
    <3>1. r.next \in 0 .. L /\ ~(r.next <= o)
      BY <1>1, <2>2, <2>3, <2>5
    <3>2. Typed(r.next)
      BY <2>1, <3>1
    <3>3. R[o] = [frames |-> <<r.frame>> \o R[r.next].frames, offset |-> R[r.next].offset]
      BY <2>2, <2>5 DEF ReadStep
    <3> HIDE DEF r
    <3>4. <<r.frame>> \in Seq(Frames)
      BY <2>3, <2>5
    <3>5. <<r.frame>> \o R[r.next].frames \in Seq(Frames)
      BY <3>2, <3>4, ConcatProperties
    <3>6. R[o].frames \in Seq(Frames)
      BY <3>3, <3>5
    <3>7. R[o].offset \in o .. L
      BY <1>1, <2>2, <2>3, <2>5, <3>2, <3>3
    <3> QED BY <2>2, <3>6, <3>7
  <2> QED BY <2>3, <2>4, <2>5
<1> QED BY <1>2

\* Sequences of frames: concatenation is associative.
LEMMA FramesAssociate ==
  \A s, t, u \in Seq(Frames) : (s \o t) \o u = s \o (t \o u)
BY ConcatAssociative, SMTT(40)

(***************************************************************************)
(* A file and what was written on: the longer one reads as the shorter     *)
(* one, and then as from where the shorter one's reader stopped.           *)
(***************************************************************************)
LEMMA ReadOn ==
  ASSUME NEW a, NEW b, Begins(a, b)
  PROVE  \A o \in 0 .. Len(a) :
           /\ ReadFrom(b)[o].frames
                = ReadFrom(a)[o].frames \o ReadFrom(b)[ReadFrom(a)[o].offset].frames
           /\ ReadFrom(b)[o].offset = ReadFrom(b)[ReadFrom(a)[o].offset].offset
<1> DEFINE n == Len(a)
           A == ReadFrom(a)
           B == ReadFrom(b)
           Goes(o) == /\ B[o].frames = A[o].frames \o B[A[o].offset].frames
                      /\ B[o].offset = B[A[o].offset].offset
           T == {o \in 0 .. n : ~Goes(o)}
<1>1. /\ a \in Seq(Unit) /\ b \in Seq(Unit) /\ n \in Nat /\ Len(b) \in Nat /\ n <= Len(b)
      /\ \A i \in 1 .. n : a[i] = b[i]
  BY LenProperties DEF Begins
<1>2. T = {}
  <2> SUFFICES ASSUME T # {} PROVE FALSE
    OBVIOUS
  <2>1. PICK o \in T : \A y \in T : y <= o
    BY <1>1, LastOffset
  <2>2. /\ o \in 0 .. n /\ o \in 0 .. Len(b) /\ ~Goes(o)
        /\ A[o] = ReadStep(a, A, o) /\ B[o] = ReadStep(b, B, o)
    <3>1. o \in 0 .. n /\ o \in 0 .. Len(b)
      BY <1>1, <2>1
    <3>2. A[o] = ReadStep(a, A, o) /\ B[o] = ReadStep(b, B, o)
      BY <1>1, <3>1, ReadFromUnfolds
    <3>3. ~Goes(o)
      <4> HIDE DEF Goes
      <4> QED BY <2>1
    <3> QED BY <3>1, <3>2, <3>3, Zenon
  <2>3. A[o].frames \in Seq(Frames) /\ B[o].frames \in Seq(Frames)
    BY <1>1, <2>2, ReadTyped
  <2> DEFINE r == next_frame(a, o)
  <2>4. /\ r.found \in BOOLEAN
        /\ r.found => r.frame \in Frames /\ r.next \in (o + 1) .. n
        /\ ~r.found => r.next = o
    BY <1>1, <2>2, NextFrameFacts
  <2>5. CASE ~r.found
    <3> HIDE DEF A, B
    <3>1. A[o] = [frames |-> <<>>, offset |-> o]
      BY <2>2, <2>4, <2>5 DEF ReadStep
    <3>2. <<>> \o B[o].frames = B[o].frames
      BY <2>3, ConcatEmptySeq
    <3>3. A[o].frames = <<>> /\ A[o].offset = o
      BY <3>1
    <3>4. Goes(o)
      BY <3>2, <3>3, Zenon
    <3> QED BY <2>2, <3>4
  <2>6. CASE r.found
    <3>1. r.next \in 0 .. n /\ ~(r.next <= o) /\ r.next <= n
      BY <1>1, <2>2, <2>4, <2>6
    <3>2. Goes(r.next)
      BY <2>1, <3>1
    <3>3. next_frame(b, o) = r
      BY <1>1, <2>2, <2>6, <3>1, SameFrame
    <3>4. A[r.next].frames \in Seq(Frames) /\ A[r.next].offset \in 0 .. Len(b)
      <4>1. A[r.next].frames \in Seq(Frames) /\ A[r.next].offset \in r.next .. n
        BY <1>1, <3>1, ReadTyped
      <4> QED BY <1>1, <3>1, <4>1
    <3> DEFINE rest == B[A[r.next].offset].frames
    <3>5. rest \in Seq(Frames)
      BY <1>1, <3>4, ReadTyped
    <3> HIDE DEF A, B
    <3>6. A[o] = [frames |-> <<r.frame>> \o A[r.next].frames, offset |-> A[r.next].offset]
      BY <2>2, <2>6 DEF ReadStep
    <3>7. B[o] = [frames |-> <<r.frame>> \o B[r.next].frames, offset |-> B[r.next].offset]
      BY <2>2, <2>6, <3>3 DEF ReadStep
    <3> HIDE DEF r
    <3>8. <<r.frame>> \in Seq(Frames)
      BY <2>4, <2>6
    <3>9. <<r.frame>> \o (A[r.next].frames \o rest) = (<<r.frame>> \o A[r.next].frames) \o rest
      BY <3>4, <3>5, <3>8, FramesAssociate
    <3>10. /\ A[o].frames = <<r.frame>> \o A[r.next].frames
           /\ A[o].offset = A[r.next].offset
           /\ B[o].frames = <<r.frame>> \o B[r.next].frames
           /\ B[o].offset = B[r.next].offset
      <4> DEFINE s == <<r.frame>> \o A[r.next].frames
                 t == <<r.frame>> \o B[r.next].frames
      <4>1. A[o] = [frames |-> s, offset |-> A[r.next].offset]
        BY <3>6
      <4>2. B[o] = [frames |-> t, offset |-> B[r.next].offset]
        BY <3>7
      <4> HIDE DEF s, t
      <4>3. A[o].frames = s /\ A[o].offset = A[r.next].offset
        BY <4>1
      <4>4. B[o].frames = t /\ B[o].offset = B[r.next].offset
        BY <4>2
      <4> QED BY <4>3, <4>4 DEF s, t
    <3>11. Goes(o)
      BY <3>2, <3>9, <3>10, Zenon
    <3> QED BY <2>2, <3>11
  <2> QED BY <2>4, <2>5, <2>6
<1> QED BY <1>2

\* Where a reader stops there is no frame.
LEMMA StopIsNoFrame ==
  ASSUME NEW a \in Seq(Unit)
  PROVE  \A o \in 0 .. Len(a) : ~next_frame(a, ReadFrom(a)[o].offset).found
<1> DEFINE n == Len(a)
           A == ReadFrom(a)
           Stops(o) == ~next_frame(a, A[o].offset).found
           T == {o \in 0 .. n : ~Stops(o)}
<1>1. n \in Nat
  BY LenProperties
<1>2. T = {}
  <2> SUFFICES ASSUME T # {} PROVE FALSE
    OBVIOUS
  <2>1. PICK o \in T : \A y \in T : y <= o
    BY <1>1, LastOffset
  <2>2. o \in 0 .. n /\ ~Stops(o) /\ A[o] = ReadStep(a, A, o)
    BY <1>1, <2>1, ReadFromUnfolds
  <2> DEFINE r == next_frame(a, o)
  <2>3. /\ r.found \in BOOLEAN
        /\ r.found => r.frame \in Frames /\ r.next \in (o + 1) .. n
        /\ ~r.found => r.next = o
    BY <1>1, <2>2, NextFrameFacts
  <2>4. CASE ~r.found
    <3> HIDE DEF A
    <3>1. A[o] = [frames |-> <<>>, offset |-> o]
      BY <2>2, <2>3, <2>4 DEF ReadStep
    <3>2. A[o].offset = o
      BY <3>1
    <3> QED BY <2>2, <2>4, <3>2, Zenon
  <2>5. CASE r.found
    <3>1. r.next \in 0 .. n /\ ~(r.next <= o)
      BY <1>1, <2>2, <2>3, <2>5
    <3>2. Stops(r.next)
      BY <2>1, <3>1
    <3> HIDE DEF A
    <3>3. A[o] = [frames |-> <<r.frame>> \o A[r.next].frames, offset |-> A[r.next].offset]
      BY <2>2, <2>5 DEF ReadStep
    <3>4. A[o].offset = A[r.next].offset
      <4> HIDE DEF r
      <4> QED BY <3>3
    <3> QED BY <2>2, <3>2, <3>4, Zenon
  <2> QED BY <2>3, <2>4, <2>5
<1> QED BY <1>2

(***************************************************************************)
(* A file cut where its reader stops, or later, reads the same.            *)
(***************************************************************************)
LEMMA CutAtStop ==
  ASSUME NEW a, NEW b, Begins(a, b)
  PROVE  \A o \in 0 .. Len(a) :
           ReadFrom(b)[o].offset <= Len(a) => ReadFrom(a)[o] = ReadFrom(b)[o]
<1> DEFINE n == Len(a)
           A == ReadFrom(a)
           B == ReadFrom(b)
           Same(o) == B[o].offset <= n => A[o] = B[o]
           T == {o \in 0 .. n : ~Same(o)}
<1>1. /\ a \in Seq(Unit) /\ b \in Seq(Unit) /\ n \in Nat /\ Len(b) \in Nat /\ n <= Len(b)
      /\ \A i \in 1 .. n : b[i] = a[i]
  BY LenProperties DEF Begins
<1>2. T = {}
  <2> SUFFICES ASSUME T # {} PROVE FALSE
    OBVIOUS
  <2>1. PICK o \in T : \A y \in T : y <= o
    BY <1>1, LastOffset
  <2>2. /\ o \in 0 .. n /\ o \in 0 .. Len(b) /\ ~Same(o)
        /\ A[o] = ReadStep(a, A, o) /\ B[o] = ReadStep(b, B, o)
    BY <1>1, <2>1, ReadFromUnfolds
  <2> DEFINE r == next_frame(b, o)
  <2>3. /\ r.found \in BOOLEAN
        /\ r.found => r.frame \in Frames /\ r.next \in (o + 1) .. Len(b)
        /\ ~r.found => r.next = o
    BY <1>1, <2>2, NextFrameFacts
  <2>4. CASE ~r.found
    <3>1. /\ next_frame(a, o).found \in BOOLEAN
          /\ next_frame(a, o).found => next_frame(a, o).next \in (o + 1) .. n
          /\ ~next_frame(a, o).found => next_frame(a, o).next = o
      BY <1>1, <2>2, NextFrameFacts
    <3>2. ~next_frame(a, o).found
      <4> SUFFICES ASSUME next_frame(a, o).found PROVE FALSE
        BY <3>1
      <4>1. next_frame(a, o).next <= n
        BY <1>1, <2>2, <3>1
      <4>2. next_frame(b, o) = next_frame(a, o)
        BY <1>1, <2>2, <4>1, SameFrame
      <4> QED BY <2>4, <4>2
    <3> HIDE DEF A, B
    <3>3. B[o] = [frames |-> <<>>, offset |-> o]
      BY <2>2, <2>3, <2>4 DEF ReadStep
    <3>4. A[o] = [frames |-> <<>>, offset |-> o]
      BY <2>2, <3>1, <3>2 DEF ReadStep
    <3> QED BY <2>2, <3>3, <3>4
  <2>5. CASE r.found
    <3>1. B[r.next].offset \in r.next .. Len(b) /\ r.next \in 0 .. Len(b)
      <4>1. r.next \in 0 .. Len(b)
        BY <1>1, <2>2, <2>3, <2>5
      <4> QED BY <1>1, <4>1, ReadTyped
    <3>2. B[o] = [frames |-> <<r.frame>> \o B[r.next].frames, offset |-> B[r.next].offset]
      <4> HIDE DEF A, B
      <4> QED BY <2>2, <2>5 DEF ReadStep
    <3>3. B[o].offset <= n /\ B[r.next].offset <= n
      <4> HIDE DEF A, B, r
      <4> QED BY <2>2, <3>2
    <3>4. r.next \in 0 .. n /\ ~(r.next <= o) /\ r.next <= n
      <4> HIDE DEF A, B, r
      <4> QED BY <1>1, <2>2, <2>3, <2>5, <3>1, <3>3
    <3>5. Same(r.next)
      BY <2>1, <3>4
    <3>6. next_frame(a, o) = r
      BY <1>1, <2>2, <2>5, <3>4, SameFrame
    <3> HIDE DEF A, B
    <3>7. A[o] = [frames |-> <<r.frame>> \o A[r.next].frames, offset |-> A[r.next].offset]
      BY <2>2, <2>5, <3>6 DEF ReadStep
    <3> HIDE DEF r
    <3> QED BY <2>2, <3>2, <3>3, <3>5, <3>7
  <2> QED BY <2>3, <2>4, <2>5
<1> QED BY <1>2

-----------------------------------------------------------------------------
(* Files as sequences.                                                     *)

\* Concatenation of units.
LEMMA Joined ==
  ASSUME NEW a \in Seq(Unit), NEW b \in Seq(Unit)
  PROVE  /\ a \o b \in Seq(Unit)
         /\ Len(a \o b) = Len(a) + Len(b)
         /\ Begins(a, a \o b)
         /\ a \o <<>> = a
<1>1. /\ a \o b \in Seq(Unit) /\ Len(a \o b) = Len(a) + Len(b)
      /\ \A i \in 1 .. Len(a) + Len(b) :
           (a \o b)[i] = IF i <= Len(a) THEN a[i] ELSE b[i - Len(a)]
  BY ConcatProperties
<1>2. Len(a) \in Nat /\ Len(b) \in Nat
  BY LenProperties
<1>3. Begins(a, a \o b)
  BY <1>1, <1>2 DEF Begins
<1>4. a \o <<>> = a
  BY ConcatEmptySeq
<1> QED BY <1>1, <1>3, <1>4

\* The beginning of a file.
LEMMA Beginning ==
  ASSUME NEW a \in Seq(Unit), NEW n \in 0 .. Len(a)
  PROVE  /\ SubSeq(a, 1, n) \in Seq(Unit)
         /\ Len(SubSeq(a, 1, n)) = n
         /\ Begins(SubSeq(a, 1, n), a)
<1>1. Len(a) \in Nat /\ n \in Nat
  BY LenProperties
<1>2. \A i \in 1 .. n : a[i] \in Unit
  BY <1>1, ElementOfSeq
<1>3. /\ SubSeq(a, 1, n) \in Seq(Unit)
      /\ Len(SubSeq(a, 1, n)) = IF 1 <= n THEN n - 1 + 1 ELSE 0
      /\ \A i \in 1 .. n - 1 + 1 : SubSeq(a, 1, n)[i] = a[1 + i - 1]
  BY <1>1, <1>2, SubSeqProperties
<1>4. Len(SubSeq(a, 1, n)) = n /\ \A i \in 1 .. n : SubSeq(a, 1, n)[i] = a[i]
  BY <1>1, <1>3
<1> QED BY <1>1, <1>3, <1>4 DEF Begins

\* The units of a frame.
LEMMA UnitsFacts ==
  ASSUME NEW f \in Frames
  PROVE  /\ Units(f) \in Seq(Unit)
         /\ Len(Units(f)) = HeaderLen + PayloadLen(f)
         /\ HeaderLen + PayloadLen(f) \in Nat \ {0}
         /\ \A i \in 1 .. HeaderLen + PayloadLen(f) : Units(f)[i] = [frame |-> f, at |-> i]
<1> DEFINE n == HeaderLen + PayloadLen(f)
<1>1. n \in Nat \ {0}
  BY HeaderAssumption
<1>2. Units(f) = [i \in 1 .. n |-> [frame |-> f, at |-> i]]
  BY DEF Units
<1> HIDE DEF n
<1>3. \A i \in 1 .. n : [frame |-> f, at |-> i] \in Unit
  BY <1>1 DEF Unit
<1>4. Units(f) \in [1 .. n -> Unit]
  BY <1>2, <1>3
<1>5. Units(f) \in Seq(Unit) /\ Len(Units(f)) = n
  BY <1>1, <1>4, IsASeq
<1> QED BY <1>1, <1>2, <1>5 DEF n

\* A frame written at the end of a file is read back from there.
LEMMA LastFrame ==
  ASSUME NEW a \in Seq(Unit), NEW f \in Frames
  PROVE  ReadFrom(a \o Units(f))[Len(a)]
           = [frames |-> <<f>>, offset |-> Len(a \o Units(f))]
<1> DEFINE b == a \o Units(f)
           n == Len(a)
           k == HeaderLen + PayloadLen(f)
           R == ReadFrom(b)
<1>1. /\ n \in Nat /\ k \in Nat \ {0} /\ HeaderLen \in Nat /\ HeaderLen > 0
      /\ PayloadLen(f) \in Nat /\ Units(f) \in Seq(Unit) /\ Len(Units(f)) = k
  BY HeaderAssumption, LenProperties, UnitsFacts
<1>2. /\ b \in Seq(Unit) /\ Len(b) = n + k
      /\ \A i \in 1 .. n + k : b[i] = IF i <= n THEN a[i] ELSE Units(f)[i - n]
  BY <1>1, ConcatProperties
<1>3. b[n + 1].frame = f
  <2>1. b[n + 1] = Units(f)[1]
    BY <1>1, <1>2
  <2>2. Units(f)[1] = [frame |-> f, at |-> 1]
    BY <1>1, UnitsFacts
  <2> HIDE DEF b, n, k
  <2>3. b[n + 1] = [frame |-> f, at |-> 1]
    BY <2>1, <2>2
  <2> QED BY <2>3
<1>4. SubSeq(b, n + 1, n + k) = Units(f)
  <2>1. \A i \in n + 1 .. n + k : b[i] \in Unit
    BY <1>1, <1>2, ElementOfSeq
  <2> HIDE DEF b, n, k
  <2>2. /\ SubSeq(b, n + 1, n + k) \in Seq(Unit)
        /\ Len(SubSeq(b, n + 1, n + k)) = k
        /\ \A i \in 1 .. k : SubSeq(b, n + 1, n + k)[i] = b[n + i]
    <3>1. /\ SubSeq(b, n + 1, n + k) \in Seq(Unit)
          /\ Len(SubSeq(b, n + 1, n + k))
               = IF n + 1 <= n + k THEN (n + k) - (n + 1) + 1 ELSE 0
          /\ \A i \in 1 .. (n + k) - (n + 1) + 1 :
               SubSeq(b, n + 1, n + k)[i] = b[(n + 1) + i - 1]
      <4>1. n + 1 \in Int /\ n + k \in Int
        BY <1>1
      <4> QED BY <2>1, <4>1, SubSeqProperties, SMTT(40)
    <3> QED BY <1>1, <3>1
  <2>3. \A i \in 1 .. k : SubSeq(b, n + 1, n + k)[i] = Units(f)[i]
    BY <1>1, <1>2, <2>2
  <2> QED BY <1>1, <2>2, <2>3, SeqEqual
<1>5. next_frame(b, n) = [found |-> TRUE, frame |-> f, next |-> n + k]
  <2>1. ~(n + HeaderLen > Len(b)) /\ n + HeaderLen + PayloadLen(f) = n + k
        /\ n + k <= Len(b)
    BY <1>1, <1>2
  <2> HIDE DEF b, n, k
  <2> QED BY <1>3, <1>4, <2>1 DEF next_frame
<1>6. ~next_frame(b, n + k).found /\ next_frame(b, n + k).next = n + k
  <2>1. n + k \in 0 .. Len(b)
    BY <1>1, <1>2
  <2> HIDE DEF b, n, k
  <2>2. /\ next_frame(b, n + k).found \in BOOLEAN
        /\ next_frame(b, n + k).found => next_frame(b, n + k).next \in (n + k + 1) .. Len(b)
        /\ ~next_frame(b, n + k).found => next_frame(b, n + k).next = n + k
    BY <1>2, <2>1, NextFrameFacts
  <2> QED BY <1>1, <1>2, <2>2
<1>7. R[n] = ReadStep(b, R, n) /\ R[n + k] = ReadStep(b, R, n + k)
  <2>1. n \in 0 .. Len(b) /\ n + k \in 0 .. Len(b)
    BY <1>1, <1>2
  <2> QED BY <1>2, <2>1, ReadFromUnfolds
<1> HIDE DEF b, n, k, R
<1>8. R[n + k] = [frames |-> <<>>, offset |-> n + k]
  BY <1>6, <1>7 DEF ReadStep
<1>9. R[n] = [frames |-> <<f>> \o R[n + k].frames, offset |-> R[n + k].offset]
  <2> DEFINE r == next_frame(b, n)
  <2>1. r.found = TRUE /\ r.frame = f /\ r.next = n + k
    BY <1>5
  <2> HIDE DEF r
  <2>2. R[n] = IF r.found
               THEN [frames |-> <<r.frame>> \o R[r.next].frames, offset |-> R[r.next].offset]
               ELSE [frames |-> <<>>, offset |-> r.next]
    BY <1>7, Zenon DEF ReadStep, r
  <2> QED BY <2>1, <2>2
<1>10. <<f>> \o <<>> = <<f>>
  <2>1. <<f>> \in Seq(Frames)
    OBVIOUS
  <2> QED BY <2>1, ConcatEmptySeq
<1>11. R[n] = [frames |-> <<f>>, offset |-> Len(b)]
  BY <1>2, <1>8, <1>9, <1>10
<1> QED BY <1>11 DEF b, n, R

\* Frames that are the beginning of others.
LEMMA FramesBegin ==
  ASSUME NEW s \in Seq(Frames), NEW u \in Seq(Frames)
  PROVE  Len(s) \in 0 .. Len(s \o u) /\ SubSeq(s \o u, 1, Len(s)) = s
<1> DEFINE w == s \o u
           n == Len(s)
<1>1. /\ w \in Seq(Frames) /\ Len(w) = n + Len(u)
      /\ \A i \in 1 .. n + Len(u) : w[i] = IF i <= n THEN s[i] ELSE u[i - n]
  BY ConcatProperties
<1>2. n \in Nat /\ Len(u) \in Nat
  BY LenProperties
<1> HIDE DEF w, n
<1>3. \A i \in 1 .. n : w[i] \in Frames
  BY <1>1, <1>2, ElementOfSeq
<1>4. /\ SubSeq(w, 1, n) \in Seq(Frames)
      /\ Len(SubSeq(w, 1, n)) = IF 1 <= n THEN n - 1 + 1 ELSE 0
      /\ \A i \in 1 .. n - 1 + 1 : SubSeq(w, 1, n)[i] = w[1 + i - 1]
  BY <1>2, <1>3, SubSeqProperties, SMTT(40)
<1>5. Len(SubSeq(w, 1, n)) = n /\ \A i \in 1 .. n : SubSeq(w, 1, n)[i] = s[i]
  BY <1>1, <1>2, <1>4
<1>6. SubSeq(w, 1, n) = s
  BY <1>4, <1>5, SeqEqual DEF n
<1> QED BY <1>1, <1>2, <1>6 DEF w, n

\* A beginning of a beginning of a file.
LEMMA BeginningTwice ==
  ASSUME NEW a \in Seq(Unit), NEW n \in 0 .. Len(a), NEW m \in 0 .. n
  PROVE  SubSeq(SubSeq(a, 1, n), 1, m) = SubSeq(a, 1, m)
<1> DEFINE c == SubSeq(a, 1, n)
           d == SubSeq(c, 1, m)
           e == SubSeq(a, 1, m)
<1>1. Len(a) \in Nat /\ n \in Nat /\ m \in Nat /\ m \in 0 .. Len(a)
  BY LenProperties
<1>2. c \in Seq(Unit) /\ Len(c) = n /\ \A i \in 1 .. n : c[i] = a[i]
  BY Beginning DEF Begins
<1>3. e \in Seq(Unit) /\ Len(e) = m /\ \A i \in 1 .. m : e[i] = a[i]
  BY <1>1, Beginning DEF Begins
<1> HIDE DEF c, e
<1>4. d \in Seq(Unit) /\ Len(d) = m /\ \A i \in 1 .. m : d[i] = c[i]
  BY <1>2, Beginning DEF Begins
<1> HIDE DEF d
<1>5. \A i \in 1 .. m : d[i] = e[i]
  BY <1>1, <1>2, <1>3, <1>4
<1>6. d = e
  BY <1>3, <1>4, <1>5, SeqEqual
<1> QED BY <1>6 DEF c, d, e

\* Files of which both are beginnings of a third.
LEMMA BeginningsNest ==
  ASSUME NEW a \in Seq(Unit), NEW n \in 0 .. Len(a), NEW m \in 0 .. n
  PROVE  Begins(SubSeq(a, 1, m), SubSeq(a, 1, n))
<1>1. Len(a) \in Nat /\ n \in Nat /\ m \in Nat /\ m \in 0 .. Len(a)
  BY LenProperties
<1>2. SubSeq(a, 1, n) \in Seq(Unit) /\ Len(SubSeq(a, 1, n)) = n
  BY Beginning
<1> DEFINE c == SubSeq(a, 1, n)
<1> HIDE DEF c
<1>3. c \in Seq(Unit) /\ m \in 0 .. Len(c)
  BY <1>1, <1>2 DEF c
<1>4. Begins(SubSeq(c, 1, m), c)
  BY <1>3, Beginning
<1>5. SubSeq(c, 1, m) = SubSeq(a, 1, m)
  BY BeginningTwice DEF c
<1> QED BY <1>4, <1>5 DEF c

\* A file written on keeps its beginnings, and begins with itself.
LEMMA BeginningKept ==
  ASSUME NEW a \in Seq(Unit), NEW u \in Seq(Unit), NEW m \in 0 .. Len(a)
  PROVE  SubSeq(a \o u, 1, m) = SubSeq(a, 1, m) /\ SubSeq(a, 1, Len(a)) = a
<1> DEFINE c == a \o u
<1>1. c \in Seq(Unit) /\ Len(c) = Len(a) + Len(u) /\ Begins(a, c)
  BY Joined
<1>2. Len(a) \in Nat /\ Len(u) \in Nat /\ m \in Nat
  BY LenProperties
<1> HIDE DEF c
<1>3. m \in 0 .. Len(c) /\ Len(a) \in 0 .. Len(a)
  BY <1>1, <1>2
<1>4. /\ SubSeq(c, 1, m) \in Seq(Unit) /\ Len(SubSeq(c, 1, m)) = m
      /\ Begins(SubSeq(c, 1, m), c)
  BY <1>1, <1>3, Beginning
<1>5. /\ SubSeq(a, 1, m) \in Seq(Unit) /\ Len(SubSeq(a, 1, m)) = m
      /\ Begins(SubSeq(a, 1, m), a)
  BY Beginning
<1>6. \A i \in 1 .. m : SubSeq(c, 1, m)[i] = SubSeq(a, 1, m)[i]
  BY <1>1, <1>2, <1>4, <1>5 DEF Begins
<1>7. SubSeq(c, 1, m) = SubSeq(a, 1, m)
  BY <1>4, <1>5, <1>6, SeqEqual
<1>8. /\ SubSeq(a, 1, Len(a)) \in Seq(Unit) /\ Len(SubSeq(a, 1, Len(a))) = Len(a)
      /\ Begins(SubSeq(a, 1, Len(a)), a)
  BY <1>3, Beginning
<1>9. \A i \in 1 .. Len(a) : SubSeq(a, 1, Len(a))[i] = a[i]
  BY <1>8 DEF Begins
<1>10. SubSeq(a, 1, Len(a)) = a
  BY <1>8, <1>9, SeqEqual
<1> QED BY <1>7, <1>10 DEF c

-----------------------------------------------------------------------------
(* A frame, or the beginning of one, at the end of a file.                 *)

(***************************************************************************)
(* Where a reader stopped inside the file it still stops, for the units    *)
(* now at the end start a frame and continue none; and where it stopped at *)
(* the end it still stops, unless they are a whole frame.                  *)
(***************************************************************************)
LEMMA NotYetAFrame ==
  ASSUME NEW a \in Seq(Unit), NEW f \in Frames, NEW k \in 0 .. Len(Units(f)),
         NEW e \in 0 .. Len(a), ~next_frame(a, e).found,
         e < Len(a) \/ k < Len(Units(f))
  PROVE  ~next_frame(a \o SubSeq(Units(f), 1, k), e).found
<1> DEFINE u == SubSeq(Units(f), 1, k)
           b == a \o u
           n == Len(a)
<1>1. /\ Units(f) \in Seq(Unit) /\ Len(Units(f)) = HeaderLen + PayloadLen(f)
      /\ HeaderLen + PayloadLen(f) \in Nat
      /\ \A i \in 1 .. HeaderLen + PayloadLen(f) : Units(f)[i] = [frame |-> f, at |-> i]
  BY UnitsFacts
<1>2. u \in Seq(Unit) /\ Len(u) = k /\ Begins(u, Units(f))
  BY <1>1, Beginning
<1>3. /\ n \in Nat /\ k \in Nat /\ e \in Nat /\ e <= n /\ k <= Len(Units(f))
      /\ HeaderLen \in Nat /\ HeaderLen > 0
  BY <1>1, LenProperties, HeaderAssumption
<1>4. \A i \in 1 .. k : u[i] = [frame |-> f, at |-> i]
  BY <1>1, <1>2, <1>3 DEF Begins
<1> HIDE DEF u
<1>5. /\ b \in Seq(Unit) /\ Len(b) = n + k /\ Begins(a, b)
      /\ \A i \in 1 .. n + k : b[i] = IF i <= n THEN a[i] ELSE u[i - n]
  <2>1. b \in Seq(Unit) /\ Len(b) = n + k /\ Begins(a, b)
    BY <1>2, Joined
  <2>2. \A i \in 1 .. Len(a) + Len(u) : (a \o u)[i] = IF i <= Len(a) THEN a[i] ELSE u[i - Len(a)]
    BY <1>2, ConcatProperties
  <2>3. \A i \in 1 .. n + k : b[i] = IF i <= n THEN a[i] ELSE u[i - n]
    BY <1>2, <2>2
  <2> QED BY <2>1, <2>3
<1> HIDE DEF b, n
<1> DEFINE First == k >= 1 => b[n + 1] = u[1]
<1>5a. First
  <2> SUFFICES ASSUME k >= 1 PROVE b[n + 1] = u[1]
    OBVIOUS
  <2> DEFINE j == n + 1
  <2>1. j \in 1 .. n + k /\ ~(j <= n) /\ j - n = 1
    BY <1>3
  <2> HIDE DEF j
  <2>2. b[j] = IF j <= n THEN a[j] ELSE u[j - n]
    BY <1>5, <2>1
  <2>3. b[j] = u[1]
    BY <2>1, <2>2
  <2> QED BY <2>3 DEF j
<1> SUFFICES ASSUME next_frame(b, e).found PROVE FALSE
  <2>1. e \in 0 .. Len(b)
    BY <1>3, <1>5
  <2>2. next_frame(b, e).found \in BOOLEAN
    BY <1>5, <2>1, NextFrameFacts
  <2> QED BY <2>2 DEF b, u
<1> DEFINE g == b[e + 1].frame
           end == e + HeaderLen + PayloadLen(g)
<1>6. ~(e + HeaderLen > Len(b))
  BY DEF next_frame, End
<1>7. g \in Frames /\ PayloadLen(g) \in Nat
  <2>1. e + 1 \in 1 .. Len(b)
    BY <1>3, <1>5, <1>6
  <2>2. b[e + 1] \in Unit
    BY <1>5, <2>1, ElementOfSeq
  <2> QED BY <2>2, HeaderAssumption DEF Unit
<1>8. next_frame(b, e)
        = IF end <= Len(b) /\ SubSeq(b, e + 1, end) = Units(g)
          THEN [found |-> TRUE, frame |-> g, next |-> end]
          ELSE [found |-> FALSE, frame |-> "none", next |-> e]
  BY <1>6 DEF next_frame, End
<1>9. end <= Len(b) /\ SubSeq(b, e + 1, end) = Units(g) /\ next_frame(b, e).next = end
  BY <1>8
<1>10. g = b[e + 1].frame
  OBVIOUS
<1> HIDE DEF g
<1>11. /\ Units(g) \in Seq(Unit)
       /\ \A i \in 1 .. HeaderLen + PayloadLen(g) : Units(g)[i] = [frame |-> g, at |-> i]
  BY <1>7, UnitsFacts
<1>12. \A i \in 1 .. HeaderLen + PayloadLen(g) : b[e + i] = [frame |-> g, at |-> i]
  <2>1. \A i \in e + 1 .. end : b[i] \in Unit
    <3>1. \A i \in e + 1 .. end : i \in 1 .. Len(b)
      BY <1>3, <1>5, <1>7, <1>9
    <3> HIDE DEF end
    <3> QED BY <1>5, <3>1, ElementOfSeq
  <2>2. \A i \in 1 .. end - (e + 1) + 1 : SubSeq(b, e + 1, end)[i] = b[(e + 1) + i - 1]
    <3>1. e + 1 \in Int /\ end \in Int
      BY <1>3, <1>7
    <3> HIDE DEF end
    <3> QED BY <2>1, <3>1, SubSeqProperties, SMTT(40)
  <2> DEFINE l == HeaderLen + PayloadLen(g)
             w == SubSeq(b, e + 1, end)
  <2>3. \A i \in 1 .. l : w[i] = b[(e + 1) + i - 1]
    <3>1. l \in Nat /\ end = e + l
      BY <1>3, <1>7
    <3>2. end - (e + 1) + 1 = l
      <4> HIDE DEF l, end
      <4> QED BY <1>3, <3>1
    <3> QED BY <2>2, <3>2
  <2>4. w = Units(g) /\ l \in Nat
    BY <1>3, <1>7, <1>9
  <2>5. \A i \in 1 .. l : Units(g)[i] = [frame |-> g, at |-> i]
    BY <1>11
  <2> HIDE DEF l, w
  <2>6. \A i \in 1 .. l : (e + 1) + i - 1 = e + i
    BY <1>3, <2>4
  <2>7. \A i \in 1 .. l : b[e + i] = [frame |-> g, at |-> i]
    BY <2>3, <2>4, <2>5, <2>6
  <2> QED BY <2>7 DEF l
<1>13. CASE e < n
  <2>1. CASE end <= n
    <3>1. /\ \A i \in 1 .. n : b[i] = a[i]
          /\ n <= Len(a) /\ n <= Len(b) /\ e \in 0 .. n
      BY <1>3, <1>5, <1>13 DEF Begins, n
    <3>2. next_frame(b, e).next <= n
      BY <1>9, <2>1
    <3>3. next_frame(a, e) = next_frame(b, e)
      BY <1>3, <1>5, <3>1, <3>2, SameFrame
    <3> QED BY <3>3
  <2>2. CASE ~(end <= n)
    <3> DEFINE i == n + 1 - e
    <3>1. i \in 1 .. HeaderLen + PayloadLen(g) /\ e + i = n + 1 /\ i # 1 /\ k >= 1
      <4> DEFINE l == HeaderLen + PayloadLen(g)
                 m == Len(b)
      <4>1. /\ l \in Nat /\ e \in Nat /\ n \in Nat /\ k \in Nat /\ m = n + k
            /\ e + l <= m /\ ~(e + l <= n) /\ e < n
        BY <1>3, <1>5, <1>7, <1>9, <1>13, <2>2
      <4> HIDE DEF l, m
      <4>2. i \in 1 .. l /\ e + i = n + 1 /\ i # 1 /\ k >= 1
        BY <4>1
      <4> QED BY <4>2 DEF l
    <3> HIDE DEF i
    <3>2. b[n + 1] = [frame |-> g, at |-> i]
      BY <1>12, <3>1
    <3>3. b[n + 1] = u[1]
      BY <1>5a, <3>1
    <3>4. u[1] = [frame |-> f, at |-> 1]
      BY <1>3, <1>4, <3>1
    <3>5. [frame |-> g, at |-> i] = [frame |-> f, at |-> 1]
      BY <3>2, <3>3, <3>4, Zenon
    <3>6. [frame |-> g, at |-> i].at = i /\ [frame |-> f, at |-> 1].at = 1
      OBVIOUS
    <3>7. i = 1
      BY <3>5, <3>6
    <3> QED BY <3>1, <3>7
  <2> QED BY <2>1, <2>2
<1>14. CASE ~(e < n)
  <2>1. e = n /\ k < Len(Units(f))
    BY <1>3, <1>14 DEF n
  <2>2. k >= 1
    BY <1>3, <1>5, <1>6, <2>1
  <2>3. b[n + 1] = u[1]
    BY <1>5a, <2>2
  <2>4. u[1] = [frame |-> f, at |-> 1]
    BY <1>3, <1>4, <2>2
  <2>5. b[e + 1] = [frame |-> f, at |-> 1]
    BY <2>1, <2>3, <2>4, Zenon
  <2>6. g = f
    BY <1>10, <2>5
  <2>7. HeaderLen + PayloadLen(f) <= k
    BY <1>1, <1>3, <1>5, <1>7, <1>9, <2>1, <2>6
  <2> QED BY <1>1, <1>3, <2>1, <2>7
<1> QED BY <1>13, <1>14

\* b is the file a with the first k units of the frame f at its end.
Adds(a, f, k, b) ==
  /\ a \in Seq(Unit) /\ f \in Frames /\ k \in 0 .. Len(Units(f))
  /\ b = a \o SubSeq(Units(f), 1, k)

(***************************************************************************)
(* The beginning of a frame at the end of a file changes nothing for a     *)
(* reader; a whole one, at the end of a file it gets through, is one frame *)
(* more; behind damage not even a whole one is found.                      *)
(***************************************************************************)
LEMMA FrameWritten ==
  ASSUME NEW a, NEW f, NEW k, NEW b, Adds(a, f, k, b)
  PROVE  /\ b \in Seq(Unit)
         /\ Begins(a, b)
         /\ ~(Whole(a) /\ k = Len(Units(f))) => ReadAll(b).frames = ReadAll(a).frames
         /\ Whole(a) /\ k = Len(Units(f)) =>
              ReadAll(b).frames = Append(ReadAll(a).frames, f) /\ Whole(b)
<1> DEFINE e == ReadFrom(a)[0].offset
           A == ReadFrom(a)
           B == ReadFrom(b)
<1>0. /\ a \in Seq(Unit) /\ f \in Frames /\ k \in 0 .. Len(Units(f))
      /\ b = a \o SubSeq(Units(f), 1, k)
  BY DEF Adds
<1>1. Units(f) \in Seq(Unit) /\ Len(Units(f)) \in Nat
  BY <1>0, UnitsFacts
<1>2. SubSeq(Units(f), 1, k) \in Seq(Unit)
  BY <1>0, <1>1, Beginning
<1>3. b \in Seq(Unit) /\ Begins(a, b) /\ Len(a) \in Nat /\ Len(b) \in Nat /\ Len(a) <= Len(b)
  BY <1>0, <1>2, Joined, LenProperties DEF Begins
<1>4. 0 \in 0 .. Len(a)
  BY <1>3
<1>5. e \in 0 .. Len(a) /\ A[0].frames \in Seq(Frames) /\ ~next_frame(a, e).found
  BY <1>0, <1>4, ReadTyped, StopIsNoFrame
<1>6. B[0].frames = A[0].frames \o B[e].frames /\ B[0].offset = B[e].offset
  BY <1>3, <1>4, ReadOn
<1>7. e \in 0 .. Len(b) /\ B[e] = ReadStep(b, B, e)
  <2>1. e \in 0 .. Len(b)
    <3> HIDE DEF e
    <3> QED BY <1>3, <1>5
  <2> QED BY <1>3, <2>1, ReadFromUnfolds
<1>8. ASSUME ~(Whole(a) /\ k = Len(Units(f)))
      PROVE  ReadAll(b).frames = ReadAll(a).frames
  <2>1. e < Len(a) \/ k < Len(Units(f))
    <3>1. ~(e = Len(a) /\ k = Len(Units(f)))
      BY <1>8 DEF Whole, ReadAll
    <3> HIDE DEF e
    <3> QED BY <1>0, <1>1, <1>3, <1>5, <3>1
  <2>2. ~next_frame(b, e).found
    <3> HIDE DEF e
    <3> QED BY <1>0, <1>5, <2>1, NotYetAFrame
  <2> HIDE DEF A, B, e
  <2>3. B[e] = [frames |-> <<>>, offset |-> next_frame(b, e).next]
    BY <1>7, <2>2, Zenon DEF ReadStep
  <2>4. B[e].frames = <<>>
    BY <2>3
  <2>5. A[0].frames \o <<>> = A[0].frames
    BY <1>5, ConcatEmptySeq
  <2>6. B[0].frames = A[0].frames
    BY <1>6, <2>4, <2>5, Zenon
  <2> QED BY <2>6 DEF ReadAll, A, B
<1>9. ASSUME Whole(a), k = Len(Units(f))
      PROVE  ReadAll(b).frames = Append(ReadAll(a).frames, f) /\ Whole(b)
  <2>1. e = Len(a)
    BY <1>9 DEF Whole, ReadAll
  <2>2. b = a \o Units(f)
    <3>1. 0 \in 0 .. Len(Units(f))
      BY <1>1
    <3>2. SubSeq(Units(f), 1, Len(Units(f))) = Units(f)
      BY <1>1, <3>1, BeginningKept
    <3> QED BY <1>0, <1>9, <3>2
  <2>3. ReadFrom(b)[Len(a)] = [frames |-> <<f>>, offset |-> Len(b)]
    BY <1>0, <2>2, LastFrame
  <2> HIDE DEF A, B, e
  <2>4. B[e] = [frames |-> <<f>>, offset |-> Len(b)]
    BY <2>1, <2>3 DEF B
  <2>5. B[e].frames = <<f>> /\ B[e].offset = Len(b)
    BY <2>4
  <2>6. B[0].frames = A[0].frames \o <<f>> /\ B[0].offset = Len(b)
    BY <1>6, <2>5, Zenon
  <2>7. Append(A[0].frames, f) = A[0].frames \o <<f>>
    BY <1>0, <1>5, AppendIsConcat
  <2> QED BY <2>6, <2>7 DEF ReadAll, Whole, A, B
<1> QED BY <1>3, <1>8, <1>9

\* The header of a frame is how its units begin, and the payload is the rest.
LEMMA HeaderAndPayload ==
  ASSUME NEW f \in Frames
  PROVE  /\ Len(Header(f)) = HeaderLen /\ Header(f) \in Seq(Unit)
         /\ HeaderLen \in 0 .. Len(Units(f))
         /\ Header(f) = SubSeq(Units(f), 1, HeaderLen)
         /\ \A k \in 0 .. HeaderLen : SubSeq(Header(f), 1, k) = SubSeq(Units(f), 1, k)
         /\ Len(Payload(f)) = PayloadLen(f)
         /\ \A k \in 0 .. PayloadLen(f) :
              /\ SubSeq(Payload(f), 1, k) \in Seq(Unit)
              /\ Header(f) \o SubSeq(Payload(f), 1, k) = SubSeq(Units(f), 1, HeaderLen + k)
<1> DEFINE U == Units(f)
           h == HeaderLen
           p == PayloadLen(f)
           P == SubSeq(U, h + 1, h + p)
           H == SubSeq(U, 1, h)
<1>1. U \in Seq(Unit) /\ Len(U) = h + p /\ h \in Nat /\ p \in Nat /\ h > 0
  BY UnitsFacts, HeaderAssumption
<1> HIDE DEF U, h, p
<1>2. h \in 0 .. Len(U)
  BY <1>1
<1>3. H \in Seq(Unit) /\ Len(H) = h /\ \A i \in 1 .. h : H[i] = U[i]
  BY <1>1, <1>2, Beginning DEF Begins
<1>4. \A k \in 0 .. h : SubSeq(H, 1, k) = SubSeq(U, 1, k)
  BY <1>1, <1>2, BeginningTwice
<1>5. P \in Seq(Unit) /\ Len(P) = p /\ \A i \in 1 .. p : P[i] = U[h + i]
  <2>1. \A i \in h + 1 .. h + p : U[i] \in Unit
    BY <1>1, ElementOfSeq
  <2>2. /\ P \in Seq(Unit)
        /\ Len(P) = IF h + 1 <= h + p THEN (h + p) - (h + 1) + 1 ELSE 0
        /\ \A i \in 1 .. (h + p) - (h + 1) + 1 : P[i] = U[(h + 1) + i - 1]
    <3>1. h + 1 \in Int /\ h + p \in Int
      BY <1>1
    <3> QED BY <2>1, <3>1, SubSeqProperties, SMTT(40)
  <2> HIDE DEF P
  <2> QED BY <1>1, <2>2
<1> HIDE DEF P, H
<1>6. ASSUME NEW k \in 0 .. p
      PROVE  SubSeq(P, 1, k) \in Seq(Unit) /\ H \o SubSeq(P, 1, k) = SubSeq(U, 1, h + k)
  <2> DEFINE q == SubSeq(P, 1, k)
             v == SubSeq(U, 1, h + k)
             w == H \o q
  <2>1. q \in Seq(Unit) /\ Len(q) = k /\ \A i \in 1 .. k : q[i] = P[i]
    BY <1>1, <1>5, Beginning DEF Begins
  <2>2. h + k \in 0 .. Len(U)
    BY <1>1
  <2>3. v \in Seq(Unit) /\ Len(v) = h + k /\ \A i \in 1 .. h + k : v[i] = U[i]
    BY <1>1, <2>2, Beginning DEF Begins
  <2> HIDE DEF q, v
  <2>4. /\ w \in Seq(Unit) /\ Len(w) = h + k
        /\ \A i \in 1 .. h + k : w[i] = IF i <= h THEN H[i] ELSE q[i - h]
    <3>1. /\ w \in Seq(Unit) /\ Len(w) = Len(H) + Len(q)
          /\ \A i \in 1 .. Len(H) + Len(q) : w[i] = IF i <= Len(H) THEN H[i] ELSE q[i - Len(H)]
      BY <1>3, <2>1, ConcatProperties
    <3> HIDE DEF w
    <3> QED BY <1>3, <2>1, <3>1
  <2> HIDE DEF w
  <2>5. ASSUME NEW i \in 1 .. h + k PROVE w[i] = v[i]
    <3>1. i \in Nat /\ k \in Nat /\ k <= p
      BY <1>1
    <3>2. v[i] = U[i]
      BY <2>3
    <3>3. CASE i <= h
      <4>1. i \in 1 .. h
        BY <1>1, <3>1, <3>3
      <4> QED BY <1>3, <2>4, <3>2, <3>3, <4>1
    <3>4. CASE ~(i <= h)
      <4> DEFINE j == i - h
      <4>1. j \in 1 .. k /\ j \in 1 .. p /\ h + j = i
        BY <1>1, <3>1, <3>4
      <4>2. w[i] = q[j]
        BY <2>4, <3>4
      <4> HIDE DEF j
      <4>3. q[j] = P[j] /\ P[j] = U[h + j]
        BY <1>5, <2>1, <4>1
      <4> QED BY <3>2, <4>1, <4>2, <4>3
    <3> QED BY <3>3, <3>4
  <2>6. w = v
    BY <2>3, <2>4, <2>5, SeqEqual
  <2> QED BY <2>1, <2>6 DEF q, v, w
<1>7. Header(f) = H /\ Payload(f) = P
  BY DEF Header, Payload, H, P, U, h, p
<1>8. /\ Len(Header(f)) = h /\ Header(f) \in Seq(Unit) /\ h \in 0 .. Len(U)
      /\ Header(f) = SubSeq(U, 1, h)
  BY <1>2, <1>3, <1>7 DEF H
<1>9. /\ \A k \in 0 .. h : SubSeq(Header(f), 1, k) = SubSeq(U, 1, k)
      /\ Len(Payload(f)) = p
  BY <1>4, <1>5, <1>7, Zenon
<1>10. \A k \in 0 .. p :
         /\ SubSeq(Payload(f), 1, k) \in Seq(Unit)
         /\ Header(f) \o SubSeq(Payload(f), 1, k) = SubSeq(U, 1, h + k)
  BY <1>6, <1>7, Zenon
<1> QED BY <1>8, <1>9, <1>10 DEF U, h, p

-----------------------------------------------------------------------------
(* The invariant.                                                          *)

\* Between the two writes of an append the file ends with the header; a writer that
\* was not hurt wrote it at the end of a whole file.
HeaderLast(f) ==
  \E base \in Seq(Unit) : contents = base \o Header(f) /\ (~hurt => Whole(base))

(***************************************************************************)
(* A writer that is not hurt, with no failure still to be told, has a file *)
(* that a reader gets through.  That is what it acknowledges, and whatever *)
(* happens to the file later leaves the synced part a reader finds.        *)
(***************************************************************************)
Inv ==
  /\ TypeOK
  /\ ~up => part = <<>> /\ ~err
  /\ up /\ ~hurt /\ ~err /\ part = <<>> => Whole(contents)
  /\ \A f \in Frames : part = <<f>> => PayloadLen(f) # 0 /\ (~err => HeaderLast(f))
  /\ clean <= ReadAll(Disk).offset

\* What is known of the file at any time.
LEMMA FileFacts ==
  ASSUME TypeOK
  PROVE  /\ contents \in Seq(Unit) /\ Len(contents) \in Nat
         /\ durable \in Nat /\ durable \in 0 .. Len(contents)
         /\ Disk \in Seq(Unit) /\ Len(Disk) = durable /\ Begins(Disk, contents)
<1>1. contents \in Seq(Unit) /\ durable \in 0 .. Len(contents) /\ Len(contents) \in Nat
  BY LenProperties DEF TypeOK
<1>2. durable \in Nat
  BY <1>1
<1>3. Disk \in Seq(Unit) /\ Len(Disk) = durable /\ Begins(Disk, contents)
  BY <1>1, Beginning DEF Disk
<1> QED BY <1>1, <1>2, <1>3

\* What is known of a reader.
LEMMA ReaderFacts ==
  ASSUME NEW a \in Seq(Unit)
  PROVE  /\ ReadAll(a).frames \in Seq(Frames) /\ Len(ReadAll(a).frames) \in Nat
         /\ ReadAll(a).offset \in 0 .. Len(a) /\ ReadAll(a).offset \in Nat
<1>1. Len(a) \in Nat
  BY LenProperties
<1>2. 0 \in 0 .. Len(a)
  BY <1>1
<1>3. ReadAll(a).frames \in Seq(Frames) /\ ReadAll(a).offset \in 0 .. Len(a)
  BY <1>2, ReadTyped DEF ReadAll
<1>4. Len(ReadAll(a).frames) \in Nat /\ ReadAll(a).offset \in Nat
  <2> DEFINE r == ReadAll(a)
  <2>1. r.frames \in Seq(Frames) /\ r.offset \in 0 .. Len(a)
    BY <1>3
  <2> HIDE DEF r
  <2>2. Len(r.frames) \in Nat /\ r.offset \in Nat
    BY <1>1, <2>1, LenProperties
  <2> QED BY <2>2 DEF r
<1> QED BY <1>3, <1>4

\* A file written on is read at least as far, and its frames begin with the old ones.
LEMMA ReadFurther ==
  ASSUME NEW a, NEW b, Begins(a, b)
  PROVE  /\ ReadAll(a).offset <= ReadAll(b).offset
         /\ \E u \in Seq(Frames) : ReadAll(b).frames = ReadAll(a).frames \o u
<1> DEFINE e == ReadFrom(a)[0].offset
<1>1. a \in Seq(Unit) /\ b \in Seq(Unit) /\ Len(a) \in Nat /\ Len(b) \in Nat /\ Len(a) <= Len(b)
  BY LenProperties DEF Begins
<1>2. 0 \in 0 .. Len(a)
  BY <1>1
<1>3. e \in 0 .. Len(a)
  BY <1>1, <1>2, ReadTyped
<1>4. /\ ReadFrom(b)[0].frames = ReadFrom(a)[0].frames \o ReadFrom(b)[e].frames
      /\ ReadFrom(b)[0].offset = ReadFrom(b)[e].offset
  BY <1>2, ReadOn
<1> HIDE DEF e
<1>5. e \in 0 .. Len(b)
  BY <1>1, <1>3
<1>6. ReadFrom(b)[e].frames \in Seq(Frames) /\ ReadFrom(b)[e].offset \in e .. Len(b)
  BY <1>1, <1>5, ReadTyped
<1>7. ReadAll(a).offset = e /\ ReadAll(b).offset = ReadFrom(b)[e].offset
  BY <1>4 DEF ReadAll, e
<1>8. ReadAll(a).offset <= ReadAll(b).offset
  <2> DEFINE w == ReadFrom(b)[e].offset
  <2>1. w \in e .. Len(b)
    BY <1>6
  <2> HIDE DEF w
  <2>2. e <= w
    BY <1>1, <1>3, <2>1
  <2> QED BY <1>7, <2>2 DEF w
<1>9. \E u \in Seq(Frames) : ReadAll(b).frames = ReadAll(a).frames \o u
  BY <1>4, <1>6 DEF ReadAll
<1> QED BY <1>8, <1>9

\* Before the first writer there is an empty file.
LEMMA InitInv == Init => Inv /\ Log!Init
<1> SUFFICES ASSUME Init PROVE Inv /\ Log!Init
  OBVIOUS
<1>1. /\ contents = <<>> /\ durable = 0 /\ part = <<>>
      /\ bytesWritten = 0 /\ acked = 0 /\ clean = 0
  BY DEF Init
<1>2. up = FALSE /\ err = FALSE /\ hurt = FALSE
  BY DEF Init
<1>3. <<>> \in Seq(Unit) /\ Len(<<>>) = 0
  OBVIOUS
<1>4. TypeOK
  <2>1. up \in BOOLEAN /\ err \in BOOLEAN /\ hurt \in BOOLEAN
    BY <1>2
  <2>2. part \in {<<>>} \cup {<<f>> : f \in Frames}
    BY <1>1
  <2>3. contents \in Seq(Unit) /\ durable \in 0 .. Len(contents)
    BY <1>1, <1>3
  <2>4. bytesWritten \in Nat /\ acked \in Nat /\ clean \in Nat
    BY <1>1
  <2> QED BY <2>1, <2>2, <2>3, <2>4, Zenon DEF TypeOK
<1>5. Disk = <<>>
  <2>1. Disk \in Seq(Unit) /\ Len(Disk) = 0
    BY <1>1, <1>4, FileFacts
  <2> QED BY <2>1, EmptySeq
<1>6. ReadAll(<<>>).frames = <<>> /\ ReadAll(<<>>).offset \in Nat
  <2>1. 0 \in 0 .. Len(<<>>)
    BY <1>3
  <2>2. /\ next_frame(<<>>, 0).found \in BOOLEAN
        /\ next_frame(<<>>, 0).found => next_frame(<<>>, 0).next \in (0 + 1) .. Len(<<>>)
    BY <1>3, <2>1, NextFrameFacts
  <2>3. ~next_frame(<<>>, 0).found
    BY <1>3, <2>2
  <2>4. ReadFrom(<<>>)[0] = ReadStep(<<>>, ReadFrom(<<>>), 0)
    BY <1>3, <2>1, ReadFromUnfolds
  <2>5. ReadFrom(<<>>)[0] = [frames |-> <<>>, offset |-> next_frame(<<>>, 0).next]
    BY <2>3, <2>4, Zenon DEF ReadStep
  <2>6. ReadAll(<<>>).frames = <<>>
    BY <2>5 DEF ReadAll
  <2>7. ReadAll(<<>>).offset \in Nat
    BY <1>3, ReaderFacts
  <2> QED BY <2>6, <2>7
<1>7. clean <= ReadAll(Disk).offset
  BY <1>1, <1>5, <1>6
<1>8. Log!Init
  BY <1>1, <1>3, <1>5, <1>6 DEF Log!Init
<1>9. \A f \in Frames : part # <<f>>
  BY <1>1
<1> QED BY <1>1, <1>2, <1>4, <1>7, <1>8, <1>9 DEF Inv

-----------------------------------------------------------------------------
(* Writing.                                                                *)

\* Sequences of units: concatenation is associative.
LEMMA UnitsAssociate ==
  \A s, t, u \in Seq(Unit) : (s \o t) \o u = s \o (t \o u)
BY ConcatAssociative, SMTT(40)

\* What the log looks like when units of a frame are written at the end of a file.
LEMMA WriteStep ==
  ASSUME TypeOK, NEW a \in Seq(Unit), NEW f \in Frames, NEW k \in 0 .. Len(Units(f)),
         contents' = a \o SubSeq(Units(f), 1, k), durable' = durable,
         durable <= Len(contents), Begins(contents, contents'),
         ReadAll(contents).frames = ReadAll(a).frames
  PROVE  /\ contents' \in Seq(Unit) /\ durable' \in 0 .. Len(contents')
         /\ Disk' = Disk
         /\ [Log!Next]_<<ReadAll(contents).frames, Len(ReadAll(Disk).frames)>>
<1>1. /\ contents \in Seq(Unit) /\ Len(contents) \in Nat /\ durable \in 0 .. Len(contents)
      /\ durable \in Nat
  BY FileFacts
<1>2. /\ contents' \in Seq(Unit)
      /\ \/ ReadAll(contents').frames = ReadAll(a).frames
         \/ ReadAll(contents').frames = Append(ReadAll(a).frames, f)
  <2> DEFINE b == contents'
  <2>1. Adds(a, f, k, b)
    BY DEF Adds
  <2> HIDE DEF b
  <2>2. /\ b \in Seq(Unit)
        /\ ~(Whole(a) /\ k = Len(Units(f))) => ReadAll(b).frames = ReadAll(a).frames
        /\ Whole(a) /\ k = Len(Units(f)) => ReadAll(b).frames = Append(ReadAll(a).frames, f)
    BY <2>1, FrameWritten
  <2> QED BY <2>2 DEF b
<1>3. Len(contents') \in Nat /\ Len(contents) <= Len(contents')
  BY <1>2, LenProperties DEF Begins
<1>4. durable' \in 0 .. Len(contents') /\ durable \in 0 .. Len(contents')
  BY <1>1, <1>3
<1>5. Disk' = Disk
  <2> DEFINE c == contents'
             d == SubSeq(c, 1, durable)
             g == SubSeq(contents, 1, durable)
  <2>1. c \in Seq(Unit) /\ durable \in 0 .. Len(c) /\ Begins(contents, c)
    BY <1>2, <1>4
  <2> HIDE DEF c
  <2>2. d \in Seq(Unit) /\ Len(d) = durable /\ \A i \in 1 .. durable : d[i] = c[i]
    BY <2>1, Beginning DEF Begins
  <2>3. g \in Seq(Unit) /\ Len(g) = durable /\ \A i \in 1 .. durable : g[i] = contents[i]
    BY <1>1, Beginning DEF Begins
  <2>4. \A i \in 1 .. durable : c[i] = contents[i]
    BY <1>1, <2>1 DEF Begins
  <2> HIDE DEF d, g
  <2>5. d = g
    BY <2>2, <2>3, <2>4, SeqEqual
  <2>6. Disk' = SubSeq(contents', 1, durable')
    BY DEF Disk
  <2> QED BY <2>5, <2>6 DEF Disk, c, d, g
<1>6. Len(ReadAll(Disk').frames) = Len(ReadAll(Disk).frames)
  BY <1>5
<1>7. [Log!Next]_<<ReadAll(contents).frames, Len(ReadAll(Disk).frames)>>
  <2>1. CASE ReadAll(contents').frames = ReadAll(a).frames
    <3>1. UNCHANGED <<ReadAll(contents).frames, Len(ReadAll(Disk).frames)>>
      BY <1>6, <2>1, Zenon
    <3> QED BY <3>1
  <2>2. CASE ReadAll(contents').frames = Append(ReadAll(a).frames, f)
    <3>1. ReadAll(contents').frames = Append(ReadAll(contents).frames, f)
      BY <2>2, Zenon
    <3>2. Log!AppendFrame
      BY <1>6, <3>1, Zenon DEF Log!AppendFrame
    <3> QED BY <3>2, Zenon DEF Log!Next
  <2> QED BY <1>2, <2>1, <2>2
<1> QED BY <1>2, <1>4, <1>5, <1>7, Zenon

\* append up to the write of the header.
LEMMA AppendStep ==
  ASSUME Inv, NEW f \in Frames, append(f)
  PROVE  Inv' /\ [Log!Next]_<<ReadAll(contents).frames, Len(ReadAll(Disk).frames)>>
<1>1. /\ TypeOK /\ up /\ ~err /\ part = <<>> /\ (~hurt => Whole(contents))
      /\ clean <= ReadAll(Disk).offset
  BY DEF Inv, append
<1>2. /\ durable' = durable /\ up' = up /\ hurt' = hurt
      /\ acked' = acked /\ clean' = clean
  BY DEF append
<1>3. PICK k \in 0 .. Len(Header(f)) :
        contents' = contents \o SubSeq(Header(f), 1, k) /\ err' = (k < Len(Header(f)))
  BY DEF append, Write
<1>3a. ~err' => ~(k < Len(Header(f)))
  BY <1>3, Zenon
<1>4. /\ Len(Header(f)) = HeaderLen /\ HeaderLen \in 0 .. Len(Units(f)) /\ HeaderLen \in Nat
      /\ Header(f) = SubSeq(Units(f), 1, HeaderLen)
      /\ \A i \in 0 .. HeaderLen : SubSeq(Header(f), 1, i) = SubSeq(Units(f), 1, i)
  BY HeaderAndPayload, HeaderAssumption
<1>5. Len(Units(f)) \in Nat /\ Len(Units(f)) = HeaderLen + PayloadLen(f) /\ PayloadLen(f) \in Nat
  BY UnitsFacts, HeaderAssumption
<1>6. k \in 0 .. Len(Units(f)) /\ contents' = contents \o SubSeq(Units(f), 1, k)
  <2>1. k \in 0 .. HeaderLen
    BY <1>3, <1>4
  <2>2. k \in 0 .. Len(Units(f))
    BY <1>4, <1>5, <2>1
  <2> QED BY <1>3, <1>4, <2>1, <2>2
<1>7. /\ contents \in Seq(Unit) /\ Len(contents) \in Nat /\ durable \in Nat
      /\ durable \in 0 .. Len(contents)
  BY <1>1, FileFacts
<1>8. Begins(contents, contents')
  <2> DEFINE b == contents'
  <2>1. Adds(contents, f, k, b)
    BY <1>6, <1>7 DEF Adds
  <2> HIDE DEF b
  <2>2. Begins(contents, b)
    BY <2>1, FrameWritten
  <2> QED BY <2>2 DEF b
<1>9. durable <= Len(contents)
  BY <1>7
<1>10. /\ contents' \in Seq(Unit) /\ durable' \in 0 .. Len(contents') /\ Disk' = Disk
       /\ [Log!Next]_<<ReadAll(contents).frames, Len(ReadAll(Disk).frames)>>
  BY <1>1, <1>2, <1>6, <1>7, <1>8, <1>9, WriteStep
<1>11. CASE PayloadLen(f) = 0
  <2>1. part' = <<>> /\ bytesWritten' = bytesWritten + HeaderLen
    BY <1>11 DEF append
  <2>2. bytesWritten' \in Nat
    BY <1>1, <1>4, <2>1 DEF TypeOK
  <2>3. err' \in BOOLEAN
    BY <1>3
  <2>4. TypeOK'
    BY <1>1, <1>2, <1>10, <2>1, <2>2, <2>3 DEF TypeOK
  <2>5. ASSUME ~hurt', ~err' PROVE Whole(contents')
    <3>1. k = Len(Units(f))
      <4>1. ~(k < Len(Header(f)))
        BY <1>3a, <2>5, Zenon
      <4> QED BY <1>3, <1>4, <1>5, <1>11, <4>1
    <3>2. Whole(contents)
      BY <1>1, <1>2, <2>5
    <3> DEFINE b == contents'
    <3>3. Adds(contents, f, k, b)
      BY <1>6, <1>7 DEF Adds
    <3> HIDE DEF b
    <3>4. Whole(b)
      BY <3>1, <3>2, <3>3, FrameWritten
    <3> QED BY <3>4 DEF b
  <2>6. clean' <= ReadAll(Disk').offset
    BY <1>1, <1>2, <1>10
  <2>7. \A g \in Frames : part' # <<g>>
    BY <2>1
  <2>8. Inv'
    BY <1>1, <1>2, <2>4, <2>5, <2>6, <2>7 DEF Inv
  <2> QED BY <1>10, <2>8
<1>12. CASE PayloadLen(f) # 0
  <2>1. part' = <<f>> /\ bytesWritten' = bytesWritten
    BY <1>12 DEF append
  <2>2. err' \in BOOLEAN
    BY <1>3
  <2>3. TypeOK'
    BY <1>1, <1>2, <1>10, <2>1, <2>2 DEF TypeOK
  <2>4. ASSUME ~err' PROVE HeaderLast(f)'
    <3>1. k = HeaderLen
      <4>1. ~(k < Len(Header(f)))
        BY <1>3a, <2>4, Zenon
      <4> QED BY <1>3, <1>4, <4>1
    <3>2. contents' = contents \o Header(f)
      BY <1>4, <1>6, <3>1
    <3> QED BY <1>1, <1>2, <1>7, <3>2 DEF HeaderLast
  <2>5. clean' <= ReadAll(Disk').offset
    BY <1>1, <1>2, <1>10
  <2>6. \A g \in Frames : part' = <<g>> => g = f
    BY <2>1
  <2>7. part' # <<>>
    BY <2>1
  <2>8. \A g \in Frames : part' = <<g>> => PayloadLen(g) # 0 /\ (~err' => HeaderLast(g)')
    BY <1>12, <2>4, <2>6
  <2>9. Inv'
    BY <1>1, <1>2, <2>3, <2>5, <2>7, <2>8 DEF Inv
  <2> QED BY <1>10, <2>9
<1> QED BY <1>11, <1>12

\* The write of the payload.
LEMMA PayloadStep ==
  ASSUME Inv, append_payload
  PROVE  Inv' /\ [Log!Next]_<<ReadAll(contents).frames, Len(ReadAll(Disk).frames)>>
<1>1. TypeOK /\ up /\ ~err /\ clean <= ReadAll(Disk).offset
  BY DEF Inv, append_payload
<1>2. /\ durable' = durable /\ up' = up /\ hurt' = hurt /\ part' = <<>>
      /\ acked' = acked /\ clean' = clean
  BY DEF append_payload
<1>3. PICK f \in Frames : /\ part = <<f>> /\ Write(Payload(f))
                          /\ bytesWritten' = bytesWritten + HeaderLen + PayloadLen(f)
  BY DEF append_payload
<1>4. PICK j \in 0 .. Len(Payload(f)) :
        contents' = contents \o SubSeq(Payload(f), 1, j) /\ err' = (j < Len(Payload(f)))
  BY <1>3 DEF Write
<1>4a. ~err' => ~(j < Len(Payload(f)))
  BY <1>4, Zenon
<1>5. PayloadLen(f) # 0 /\ HeaderLast(f)
  BY <1>1, <1>3 DEF Inv
<1>6. PICK base \in Seq(Unit) : contents = base \o Header(f) /\ (~hurt => Whole(base))
  BY <1>5 DEF HeaderLast
<1>7. /\ Len(Header(f)) = HeaderLen /\ Header(f) \in Seq(Unit)
      /\ HeaderLen \in 0 .. Len(Units(f)) /\ HeaderLen \in Nat
      /\ Header(f) = SubSeq(Units(f), 1, HeaderLen)
      /\ Len(Payload(f)) = PayloadLen(f)
      /\ \A i \in 0 .. PayloadLen(f) :
           /\ SubSeq(Payload(f), 1, i) \in Seq(Unit)
           /\ Header(f) \o SubSeq(Payload(f), 1, i) = SubSeq(Units(f), 1, HeaderLen + i)
  BY HeaderAndPayload, HeaderAssumption
<1>8. Len(Units(f)) \in Nat /\ Len(Units(f)) = HeaderLen + PayloadLen(f) /\ PayloadLen(f) \in Nat
  BY UnitsFacts, HeaderAssumption
<1> DEFINE k == HeaderLen + j
<1>9. j \in 0 .. PayloadLen(f) /\ k \in 0 .. Len(Units(f))
  BY <1>4, <1>7, <1>8
<1>10. contents' = base \o SubSeq(Units(f), 1, k)
  <2>1. contents' = (base \o Header(f)) \o SubSeq(Payload(f), 1, j)
    BY <1>4, <1>6
  <2>2. SubSeq(Payload(f), 1, j) \in Seq(Unit)
    BY <1>7, <1>9
  <2>3. (base \o Header(f)) \o SubSeq(Payload(f), 1, j)
          = base \o (Header(f) \o SubSeq(Payload(f), 1, j))
    BY <1>6, <1>7, <2>2, UnitsAssociate
  <2>4. Header(f) \o SubSeq(Payload(f), 1, j) = SubSeq(Units(f), 1, k)
    BY <1>7, <1>9
  <2> QED BY <2>1, <2>3, <2>4
<1>11. /\ contents \in Seq(Unit) /\ Len(contents) \in Nat /\ durable \in Nat
       /\ durable \in 0 .. Len(contents) /\ durable <= Len(contents)
  <2>1. /\ contents \in Seq(Unit) /\ Len(contents) \in Nat /\ durable \in Nat
        /\ durable \in 0 .. Len(contents)
    BY <1>1, FileFacts
  <2> QED BY <2>1
<1>12. Begins(contents, contents')
  <2>1. SubSeq(Payload(f), 1, j) \in Seq(Unit)
    BY <1>7, <1>9
  <2> QED BY <1>4, <1>11, <2>1, Joined
<1>13. ReadAll(contents).frames = ReadAll(base).frames
  <2>1. Adds(base, f, HeaderLen, contents)
    BY <1>6, <1>7 DEF Adds
  <2>2. HeaderLen # Len(Units(f))
    BY <1>5, <1>7, <1>8
  <2> QED BY <2>1, <2>2, FrameWritten
<1> HIDE DEF k
<1>14. /\ contents' \in Seq(Unit) /\ durable' \in 0 .. Len(contents') /\ Disk' = Disk
       /\ [Log!Next]_<<ReadAll(contents).frames, Len(ReadAll(Disk).frames)>>
  BY <1>1, <1>2, <1>6, <1>9, <1>10, <1>11, <1>12, <1>13, WriteStep
<1>15. TypeOK'
  <2>1. bytesWritten' \in Nat
    BY <1>1, <1>3, <1>7, <1>8 DEF TypeOK
  <2>2. err' \in BOOLEAN
    BY <1>4
  <2> QED BY <1>1, <1>2, <1>14, <2>1, <2>2 DEF TypeOK
<1>16. ASSUME ~hurt', ~err' PROVE Whole(contents')
  <2>1. k = Len(Units(f))
    <3>1. ~(j < Len(Payload(f)))
      BY <1>4a, <1>16, Zenon
    <3>2. j = PayloadLen(f)
      BY <1>7, <1>8, <1>9, <3>1
    <3> QED BY <1>8, <3>2 DEF k
  <2>2. Whole(base)
    BY <1>2, <1>6, <1>16
  <2> DEFINE b == contents'
  <2>3. Adds(base, f, k, b)
    BY <1>9, <1>10 DEF Adds
  <2> HIDE DEF b
  <2>4. Whole(b)
    BY <2>1, <2>2, <2>3, FrameWritten
  <2> QED BY <2>4 DEF b
<1>17. clean' <= ReadAll(Disk').offset
  BY <1>1, <1>2, <1>14
<1>18. \A g \in Frames : part' # <<g>>
  BY <1>2
<1>19. Inv'
  BY <1>1, <1>2, <1>15, <1>16, <1>17, <1>18 DEF Inv
<1> QED BY <1>14, <1>19

-----------------------------------------------------------------------------
(* Everything else.                                                        *)

\* open: a writer that begins on a file a reader gets through is not hurt.
LEMMA OpenStep ==
  ASSUME Inv, open
  PROVE  Inv' /\ UNCHANGED <<contents, durable>>
<1>1. TypeOK /\ part = <<>> /\ ~err /\ clean <= ReadAll(Disk).offset
  BY DEF Inv, open
<1>2. /\ contents' = contents /\ durable' = durable /\ part' = part /\ err' = err
      /\ acked' = acked /\ clean' = clean /\ bytesWritten' = Len(contents)
  BY DEF open
<1>3. up' = TRUE /\ hurt' = ~Whole(contents)
  BY DEF open
<1>4. Whole(contents) \in BOOLEAN
  BY DEF Whole
<1>5. hurt' \in BOOLEAN /\ (~hurt' => Whole(contents'))
  BY <1>2, <1>3, <1>4, Zenon
<1>6. bytesWritten' \in Nat
  BY <1>1, <1>2, FileFacts
<1>7. TypeOK'
  BY <1>1, <1>2, <1>3, <1>5, <1>6 DEF TypeOK
<1>8. Disk' = Disk
  BY <1>2 DEF Disk
<1>9. \A f \in Frames : part' # <<f>>
  BY <1>1, <1>2
<1>10. Inv'
  BY <1>1, <1>2, <1>3, <1>5, <1>7, <1>8, <1>9, Zenon DEF Inv
<1> QED BY <1>2, <1>10

\* What the caller learns of an error, or does to the writer, leaves the file alone.
LEMMA HurtStep ==
  ASSUME Inv, ErrorReturned \/ Dropped \/ SyncFailed \/ Close
  PROVE  Inv' /\ UNCHANGED <<contents, durable>>
<1>1. TypeOK /\ clean <= ReadAll(Disk).offset
  BY DEF Inv
<1>2. /\ contents' = contents /\ durable' = durable /\ acked' = acked /\ clean' = clean
      /\ bytesWritten' = bytesWritten /\ part' = <<>>
  BY DEF ErrorReturned, Dropped, SyncFailed, Close
<1>3. \/ up' = FALSE /\ err' = FALSE /\ hurt' = hurt
      \/ up' = up /\ hurt' = TRUE /\ up
  BY DEF ErrorReturned, Dropped, SyncFailed, Close
<1>4. err' \in BOOLEAN
  BY <1>1 DEF ErrorReturned, Dropped, SyncFailed, Close, TypeOK
<1>5. up' \in BOOLEAN /\ hurt' \in BOOLEAN
  BY <1>1, <1>3 DEF TypeOK
<1>6. TypeOK'
  BY <1>1, <1>2, <1>4, <1>5 DEF TypeOK
<1>7. Disk' = Disk
  BY <1>2 DEF Disk
<1>8. \A f \in Frames : part' # <<f>>
  BY <1>2
<1>9. ~up' => ~err'
  BY <1>3
<1>10. ~(up' /\ ~hurt')
  BY <1>3
<1>11. Inv'
  BY <1>1, <1>2, <1>6, <1>7, <1>8, <1>9, <1>10, Zenon DEF Inv
<1> QED BY <1>2, <1>11

\* flush_sync: the file is what it was, and all of it is permanent.
LEMMA FlushStep ==
  ASSUME Inv, flush_sync
  PROVE  Inv' /\ Log!Sync
<1>1. /\ TypeOK /\ up /\ ~err /\ part = <<>> /\ (~hurt => Whole(contents))
      /\ clean <= ReadAll(Disk).offset /\ clean \in Nat
  BY DEF Inv, flush_sync, TypeOK
<1>2. /\ durable' = Len(contents) /\ acked' = Cardinality(WholeFrames(contents))
      /\ clean' = IF hurt THEN clean ELSE Len(contents)
      /\ contents' = contents /\ up' = up /\ part' = part /\ err' = err
      /\ bytesWritten' = bytesWritten /\ hurt' = hurt
  BY DEF flush_sync
<1>3. contents \in Seq(Unit) /\ Len(contents) \in Nat /\ Begins(Disk, contents) /\ Disk \in Seq(Unit)
  BY <1>1, FileFacts
<1>4. Disk' = contents
  <2>1. 0 \in 0 .. Len(contents)
    BY <1>3
  <2>2. SubSeq(contents, 1, Len(contents)) = contents
    BY <1>3, <2>1, BeginningKept
  <2> QED BY <1>2, <2>2 DEF Disk
<1>5. acked' \in Nat
  <2>1. WholeFrames(contents) \subseteq 0 .. Len(contents)
    BY DEF WholeFrames
  <2>2. IsFiniteSet(0 .. Len(contents))
    BY <1>3, FS_Interval
  <2>3. IsFiniteSet(WholeFrames(contents))
    BY <2>1, <2>2, FS_Subset
  <2>4. Cardinality(WholeFrames(contents)) \in Nat
    BY <2>3, FS_CardinalityType
  <2> QED BY <1>2, <2>4
<1>6. clean' \in Nat
  BY <1>1, <1>2, <1>3
<1>7. TypeOK'
  <2>1. durable' \in 0 .. Len(contents')
    BY <1>2, <1>3
  <2> QED BY <1>1, <1>2, <1>5, <1>6, <2>1 DEF TypeOK
<1>8. clean' <= ReadAll(Disk').offset
  <2>1. CASE hurt
    <3>1. clean' = clean
      BY <1>2, <2>1
    <3> DEFINE d == ReadAll(Disk).offset
               w == ReadAll(contents).offset
    <3>2. clean \in Nat /\ d \in Nat /\ w \in Nat /\ clean <= d /\ d <= w
      BY <1>1, <1>3, ReaderFacts, ReadFurther
    <3> HIDE DEF d, w
    <3>3. clean <= w
      BY <3>2
    <3> QED BY <1>4, <3>1, <3>3 DEF w
  <2>2. CASE ~hurt
    <3>1. clean' = Len(contents) /\ ReadAll(contents).offset = Len(contents)
      BY <1>1, <1>2, <2>2 DEF Whole
    <3> QED BY <1>3, <1>4, <3>1
  <2> QED BY <2>1, <2>2
<1>9. \A f \in Frames : part' # <<f>>
  BY <1>1, <1>2
<1>10. Inv'
  <2>1. ~hurt' => Whole(contents')
    BY <1>1, <1>2
  <2> QED BY <1>1, <1>2, <1>7, <1>8, <1>9, <2>1, Zenon DEF Inv
<1>11. Log!Sync
  BY <1>2, <1>4 DEF Log!Sync
<1> QED BY <1>10, <1>11

\* Crash: the synced part is kept, so what is lost is at the end of the file.
LEMMA CrashStep ==
  ASSUME Inv, Crash
  PROVE  Inv' /\ Log!Crash
<1>1. TypeOK /\ clean <= ReadAll(Disk).offset /\ clean \in Nat
  BY DEF Inv, TypeOK
<1>2. PICK n \in durable .. Len(contents) : contents' = SubSeq(contents, 1, n) /\ durable' = n
  BY DEF Crash
<1>3. /\ part' = <<>> /\ bytesWritten' = bytesWritten /\ hurt' = hurt
      /\ acked' = acked /\ clean' = clean
  BY DEF Crash
<1>4. up' = FALSE /\ err' = FALSE
  BY DEF Crash
<1>5. /\ contents \in Seq(Unit) /\ Len(contents) \in Nat /\ durable \in Nat
      /\ durable \in 0 .. Len(contents) /\ Disk \in Seq(Unit)
  BY <1>1, FileFacts
<1>6. n \in 0 .. Len(contents) /\ durable \in 0 .. n
  BY <1>2, <1>5
<1> DEFINE c == SubSeq(contents, 1, n)
<1>7. c \in Seq(Unit) /\ Len(c) = n /\ Begins(c, contents) /\ Begins(Disk, c)
  BY <1>5, <1>6, Beginning, BeginningsNest DEF Disk
<1>8. Disk' = c
  <2>1. n \in 0 .. n
    BY <1>5, <1>6
  <2>2. SubSeq(c, 1, n) = c
    BY <1>5, <1>6, <2>1, BeginningTwice
  <2> QED BY <1>2, <2>2 DEF Disk
<1>9. contents' = c
  BY <1>2
<1> HIDE DEF c
<1>10. TypeOK'
  <2>1. contents' \in Seq(Unit) /\ durable' \in 0 .. Len(contents')
    BY <1>2, <1>5, <1>6, <1>7, <1>9
  <2>2. up' \in BOOLEAN /\ err' \in BOOLEAN /\ hurt' \in BOOLEAN
    BY <1>1, <1>3, <1>4 DEF TypeOK
  <2> QED BY <1>1, <1>3, <2>1, <2>2 DEF TypeOK
<1>11. clean' <= ReadAll(Disk').offset
  <2> DEFINE d == ReadAll(Disk).offset
             w == ReadAll(c).offset
  <2>1. d \in Nat /\ w \in Nat /\ clean <= d /\ d <= w
    BY <1>1, <1>5, <1>7, ReaderFacts, ReadFurther
  <2> HIDE DEF d, w
  <2>2. clean <= w
    BY <1>1, <2>1
  <2> QED BY <1>3, <1>8, <2>2 DEF w
<1>12. \A f \in Frames : part' # <<f>>
  BY <1>3
<1>13. Inv'
  BY <1>3, <1>4, <1>10, <1>11, <1>12, Zenon DEF Inv
<1> DEFINE kept == ReadAll(c).frames
           all == ReadAll(contents).frames
           safe == ReadAll(Disk).frames
<1>14. kept \in Seq(Frames) /\ all \in Seq(Frames) /\ safe \in Seq(Frames)
  BY <1>5, <1>7, ReaderFacts
<1>15. PICK u \in Seq(Frames) : all = kept \o u
  BY <1>7, ReadFurther
<1>16. PICK v \in Seq(Frames) : kept = safe \o v
  BY <1>7, ReadFurther
<1> HIDE DEF kept, all, safe
<1>17. Len(kept) \in 0 .. Len(all) /\ SubSeq(all, 1, Len(kept)) = kept
  BY <1>14, <1>15, FramesBegin
<1>18. Len(safe) \in 0 .. Len(kept)
  BY <1>14, <1>16, FramesBegin
<1>19. Len(kept) \in Len(safe) .. Len(all)
  <2>1. Len(safe) \in Nat /\ Len(kept) \in Nat /\ Len(all) \in Nat
    BY <1>14, LenProperties
  <2> QED BY <1>17, <1>18, <2>1
<1>20. ReadAll(contents').frames = kept /\ Len(ReadAll(Disk').frames) = Len(kept)
  BY <1>8, <1>9 DEF kept
<1>21. Log!Crash
  <2>1. \E m \in Len(safe) .. Len(all) :
          ReadAll(contents').frames = SubSeq(all, 1, m) /\ Len(ReadAll(Disk').frames) = m
    BY <1>17, <1>19, <1>20
  <2> QED BY <2>1 DEF Log!Crash, all, safe
<1> QED BY <1>13, <1>21

\* Truncate: nothing a reader finds is cut off, of the file or of its synced part.
LEMMA TruncateStep ==
  ASSUME Inv, Truncate
  PROVE  Inv' /\ UNCHANGED <<ReadAll(contents).frames, Len(ReadAll(Disk).frames)>>
<1> DEFINE e == ReadAll(contents).offset
<1>1. TypeOK /\ ~up /\ part = <<>> /\ ~err /\ clean <= ReadAll(Disk).offset
  BY DEF Inv, Truncate
<1>2. /\ contents' = SubSeq(contents, 1, e)
      /\ durable' = IF durable <= e THEN durable ELSE e
      /\ up' = up /\ part' = part /\ err' = err /\ bytesWritten' = bytesWritten
      /\ hurt' = hurt /\ acked' = acked /\ clean' = clean
  BY DEF Truncate
<1>3. /\ contents \in Seq(Unit) /\ Len(contents) \in Nat /\ durable \in Nat
      /\ durable \in 0 .. Len(contents) /\ Disk \in Seq(Unit) /\ Len(Disk) = durable
      /\ Begins(Disk, contents)
  BY <1>1, FileFacts
<1>4. e \in 0 .. Len(contents) /\ e \in Nat
  BY <1>3, ReaderFacts
<1> DEFINE c == SubSeq(contents, 1, e)
<1>5. c \in Seq(Unit) /\ Len(c) = e /\ Begins(c, contents)
  <2> HIDE DEF e
  <2> QED BY <1>3, <1>4, Beginning
<1>6. ReadAll(c) = ReadAll(contents)
  <2>1. 0 \in 0 .. Len(c) /\ e <= Len(c)
    <3> HIDE DEF e, c
    <3> QED BY <1>4, <1>5
  <2>2. ReadFrom(contents)[0].offset <= Len(c)
    BY <2>1 DEF ReadAll
  <2> HIDE DEF c
  <2>3. ReadFrom(c)[0] = ReadFrom(contents)[0]
    BY <1>5, <2>1, <2>2, CutAtStop
  <2> QED BY <2>3 DEF ReadAll
<1>7. ReadAll(Disk') = ReadAll(Disk) /\ durable' \in 0 .. Len(contents')
  <2>1. CASE durable <= e
    <3>1. durable' = durable
      BY <1>2, <2>1
    <3>2. durable \in 0 .. e
      <4> HIDE DEF e
      <4> QED BY <1>3, <1>4, <2>1
    <3>3. SubSeq(c, 1, durable) = SubSeq(contents, 1, durable)
      <4> HIDE DEF e
      <4> QED BY <1>3, <1>4, <3>2, BeginningTwice
    <3>4. Disk' = Disk
      BY <1>2, <3>1, <3>3 DEF Disk
    <3>5. durable' \in 0 .. Len(contents')
      BY <1>2, <1>5, <3>1, <3>2
    <3> QED BY <3>4, <3>5
  <2>2. CASE ~(durable <= e)
    <3>1. durable' = e
      BY <1>2, <2>2
    <3>2. e \in 0 .. e /\ e \in 0 .. durable
      <4> HIDE DEF e
      <4> QED BY <1>3, <1>4, <2>2
    <3>3. SubSeq(c, 1, e) = c
      <4> HIDE DEF e
      <4> QED BY <1>3, <1>4, <3>2, BeginningTwice
    <3>4. Disk' = c
      BY <1>2, <3>1, <3>3 DEF Disk
    <3>5. Begins(c, Disk)
      <4> HIDE DEF e
      <4> QED BY <1>3, <3>2, BeginningsNest DEF Disk
    <3>6. ReadAll(Disk).offset <= e
      BY <1>3, ReadFurther
    <3>7. 0 \in 0 .. Len(c) /\ ReadFrom(Disk)[0].offset <= Len(c)
      <4>1. 0 \in 0 .. Len(c)
        <5> HIDE DEF e, c
        <5> QED BY <1>4, <1>5
      <4> QED BY <1>5, <3>6, <4>1 DEF ReadAll
    <3> HIDE DEF c
    <3>8. ReadFrom(c)[0] = ReadFrom(Disk)[0]
      BY <3>5, <3>7, CutAtStop
    <3>9. ReadAll(Disk') = ReadAll(Disk)
      BY <3>4, <3>8 DEF ReadAll
    <3>10. durable' \in 0 .. Len(contents')
      BY <1>2, <1>5, <3>1, <3>2 DEF c
    <3> QED BY <3>9, <3>10
  <2> QED BY <2>1, <2>2
<1>8. contents' \in Seq(Unit) /\ ReadAll(contents') = ReadAll(contents)
  BY <1>2, <1>5, <1>6
<1>9. TypeOK'
  BY <1>1, <1>2, <1>7, <1>8 DEF TypeOK
<1>10. clean' <= ReadAll(Disk').offset
  BY <1>1, <1>2, <1>7
<1>11. \A f \in Frames : part' # <<f>>
  BY <1>1, <1>2
<1>12. Inv'
  BY <1>1, <1>2, <1>9, <1>10, <1>11, Zenon DEF Inv
<1>13. ReadAll(contents').frames = ReadAll(contents).frames
       /\ Len(ReadAll(Disk').frames) = Len(ReadAll(Disk).frames)
  BY <1>7, <1>8
<1> QED BY <1>12, <1>13

\* Every step keeps the invariant and is a step of a durable log, or none.
LEMMA NextInv ==
  Inv /\ [Next]_vars =>
    Inv' /\ [Log!Next]_<<ReadAll(contents).frames, Len(ReadAll(Disk).frames)>>
<1> SUFFICES ASSUME Inv, [Next]_vars
             PROVE  Inv' /\ [Log!Next]_<<ReadAll(contents).frames, Len(ReadAll(Disk).frames)>>
  OBVIOUS
<1>1. ASSUME UNCHANGED <<contents, durable>>
      PROVE  UNCHANGED <<ReadAll(contents).frames, Len(ReadAll(Disk).frames)>>
  <2>1. contents' = contents /\ Disk' = Disk
    BY <1>1 DEF Disk
  <2> QED BY <2>1
<1>2. CASE UNCHANGED vars
  <2>1. UNCHANGED <<contents, durable>>
    BY <1>2 DEF vars
  <2>2. Disk' = Disk
    BY <2>1 DEF Disk
  <2>3. TypeOK'
    BY <1>2 DEF Inv, TypeOK, vars
  <2>4. \A f \in Frames : HeaderLast(f)' <=> HeaderLast(f)
    BY <1>2 DEF HeaderLast, vars
  <2>5. /\ up' = up /\ hurt' = hurt /\ err' = err /\ part' = part /\ contents' = contents
        /\ clean' = clean
    BY <1>2 DEF vars
  <2>6. Inv'
    BY <2>2, <2>3, <2>4, <2>5, Zenon DEF Inv
  <2> QED BY <1>1, <2>1, <2>6
<1>3. CASE open
  BY <1>1, <1>3, OpenStep
<1>4. ASSUME NEW f \in Frames, append(f)
      PROVE  Inv' /\ [Log!Next]_<<ReadAll(contents).frames, Len(ReadAll(Disk).frames)>>
  BY <1>4, AppendStep
<1>5. CASE append_payload
  BY <1>5, PayloadStep
<1>6. CASE ErrorReturned \/ Dropped \/ SyncFailed \/ Close
  BY <1>1, <1>6, HurtStep
<1>7. CASE flush_sync
  BY <1>7, FlushStep, Zenon DEF Log!Next
<1>8. CASE Crash
  BY <1>8, CrashStep, Zenon DEF Log!Next
<1>9. CASE Truncate
  BY <1>9, TruncateStep
<1> QED BY <1>2, <1>3, <1>4, <1>5, <1>6, <1>7, <1>8, <1>9, Zenon DEF Next

(***************************************************************************)
(* The write-ahead log implements DurableLog (IsDurableLog): whatever the  *)
(* sequence of appends that succeed, fail or are dropped, of syncs,        *)
(* crashes that tear headers or payloads, cuts, and writers opened on      *)
(* whatever is there, a reader finds the frames in order, a crash takes    *)
(* them from the end only, and none that was synced and within its reach.  *)
(***************************************************************************)
THEOREM ImplementsDurableLog == Spec => IsDurableLog
BY InitInv, NextInv, PTL DEF Spec, IsDurableLog, Log!Spec

(***************************************************************************)
(* What a writer that began on a whole file and returned no error synced   *)
(* is found by readers for ever (CleanAcksReplayed).                       *)
(***************************************************************************)
THEOREM CleanAcksSurvive == Spec => []CleanAcksReplayed
<1>1. Inv => CleanAcksReplayed
  BY DEF Inv, CleanAcksReplayed
<1>2. Spec => []Inv
  BY InitInv, NextInv, PTL DEF Spec
<1> QED BY <1>1, <1>2, PTL

=============================================================================
