---------------------------------- MODULE Wal ----------------------------------
(***************************************************************************)
(* The write-ahead log of crates/wal: WalWriter appends frames to a file,  *)
(* WalReader reads the intact ones back.  The file is a sequence of units, *)
(* HeaderLen of them for a frame's header and the rest for its payload; a  *)
(* unit remembers which frame it is from and where in the frame it was.    *)
(* The length and checksum in a header are what ties the units together:   *)
(* units that do not start a frame, or do not continue it, read as a frame *)
(* that is too long, cut short or of the wrong checksum (a collision of    *)
(* checksums is left out).                                                 *)
(*                                                                         *)
(* Nothing in the repository calls the crate, so the caller may do         *)
(* whatever its functions allow: go on after an error, drop an append half *)
(* way, open a writer on a file that ends in the middle of a frame, or cut *)
(* the file first, as the reader's comment suggests.                       *)
(***************************************************************************)
EXTENDS Naturals, Sequences, FiniteSets

CONSTANTS Frames,          \* payloads, by name
          PayloadLen(_),   \* their lengths in units
          HeaderLen,       \* FRAME_HEADER_LEN
          MaxFrameLen,     \* MAX_FRAME_LEN
          MaxFile          \* bound on the units in the file, and on those counted

ASSUME HeaderAssumption ==
  /\ HeaderLen \in Nat \ {0}
  /\ \A f \in Frames : PayloadLen(f) \in Nat

VARIABLES contents,      \* the units of the file
          durable,       \* how many of them are sure to survive a crash
          up,            \* a writer is open
          part,          \* the frame between the two writes of its append, if any
          err,           \* the last write failed and the writer does not know it yet
          bytesWritten,
          hurt,          \* the writer began on a torn file, returned an error, or
                         \* had an append dropped: what its caller could know
          acked,         \* number of whole frames at the last flush_sync that returned Ok
          clean          \* length of the file at the last one of a writer not hurt

vars == <<contents, durable, up, part, err, bytesWritten, hurt, acked, clean>>

Unit == [frame : Frames, at : Nat]
Units(f) == [i \in 1..(HeaderLen + PayloadLen(f)) |-> [frame |-> f, at |-> i]]
Header(f) == SubSeq(Units(f), 1, HeaderLen)
Payload(f) == SubSeq(Units(f), HeaderLen + 1, HeaderLen + PayloadLen(f))

\* What a crash is sure to leave of the file.
Disk == SubSeq(contents, 1, durable)

TypeOK ==
  /\ contents \in Seq(Unit) /\ durable \in 0..Len(contents)
  /\ up \in BOOLEAN /\ err \in BOOLEAN /\ hurt \in BOOLEAN
  /\ part \in {<<>>} \cup {<<f>> : f \in Frames}
  /\ bytesWritten \in Nat /\ acked \in Nat /\ clean \in Nat

-----------------------------------------------------------------------------
\* One frame from the offset: its name and the offset after it.  The end of the
\* file inside a header reads as the end of the log; every other damage is an error
\* at this offset.
End(file, o) == [found |-> FALSE, frame |-> "none", next |-> o]

next_frame(file, o) ==
  IF o + HeaderLen > Len(file) THEN End(file, o)
  ELSE LET f == file[o + 1].frame
           end == o + HeaderLen + PayloadLen(f)
       IN IF end <= Len(file) /\ SubSeq(file, o + 1, end) = Units(f)
          THEN [found |-> TRUE, frame |-> f, next |-> end]
          ELSE End(file, o)

\* The loop over next_frame from an offset on: the frames a reader yields, and
\* where it stops; `from' is the rest of the loop.
ReadStep(file, from, o) ==
  LET r == next_frame(file, o)
  IN IF r.found
     THEN [frames |-> <<r.frame>> \o from[r.next].frames, offset |-> from[r.next].offset]
     ELSE [frames |-> <<>>, offset |-> r.next]

ReadFrom(file) ==
  LET from[o \in 0..Len(file)] == ReadStep(file, from, o)
  IN from

ReadAll(file) == ReadFrom(file)[0]

-----------------------------------------------------------------------------
Init ==
  /\ contents = <<>> /\ durable = 0
  /\ up = FALSE /\ part = <<>> /\ err = FALSE
  /\ bytesWritten = 0 /\ hurt = FALSE
  /\ acked = 0 /\ clean = 0

\* Whether a reader gets through to the end of the file.
Whole(c) == ReadAll(c).offset = Len(c)

\* Faulty variant of open: an existing file is overwritten.
OpenTruncates ==
  /\ ~up
  /\ contents' = <<>> /\ durable' = 0
  /\ up' = TRUE
  /\ bytesWritten' = 0
  /\ hurt' = FALSE
  /\ UNCHANGED <<part, err, acked, clean>>

\* WalWriter::open: append mode, on whatever the file ends with.
open ==
  /\ ~up
  /\ up' = TRUE
  /\ bytesWritten' = Len(contents)
  /\ hurt' = ~Whole(contents)
  /\ UNCHANGED <<contents, durable, part, err, acked, clean>>

\* write_all on a tokio File: the bytes are handed to a thread and the call returns;
\* when the thread wrote only some of them, the next call of the writer is told.
Write(units) ==
  \E k \in 0..Len(units) :
    /\ contents' = contents \o SubSeq(units, 1, k)
    /\ err' = (k < Len(units))

\* WalWriter::append up to the write of the header; a frame beyond the cap is
\* refused and nothing happens.  For an empty payload the second write_all does
\* nothing and the append is complete.
append(f) ==
  /\ up /\ ~err /\ part = <<>>
  /\ PayloadLen(f) <= MaxFrameLen
  /\ Len(contents) + Len(Units(f)) <= MaxFile /\ bytesWritten + Len(Units(f)) <= MaxFile
  /\ Write(Header(f))
  /\ IF PayloadLen(f) = 0
     THEN part' = <<>> /\ bytesWritten' = bytesWritten + HeaderLen
     ELSE part' = <<f>> /\ UNCHANGED bytesWritten
  /\ UNCHANGED <<durable, up, hurt, acked, clean>>

\* The rest of the append: the payload.  bytes_written only now counts the frame.
append_payload ==
  /\ up /\ ~err
  /\ \E f \in Frames :
       /\ part = <<f>>
       /\ Write(Payload(f))
       /\ bytesWritten' = bytesWritten + HeaderLen + PayloadLen(f)
  /\ part' = <<>>
  /\ UNCHANGED <<durable, up, hurt, acked, clean>>

\* The `?' of append's two writes and of flush_sync's flush: a write that failed is
\* reported by the next of them, which does nothing else.  The writer can be used on.
ErrorReturned ==
  /\ up /\ err
  /\ err' = FALSE
  /\ part' = <<>>
  /\ hurt' = TRUE
  /\ UNCHANGED <<contents, durable, up, bytesWritten, acked, clean>>

\* The future of an append is dropped while it waits for the write of its header.
Dropped ==
  /\ up /\ part # <<>>
  /\ part' = <<>>
  /\ hurt' = TRUE
  /\ UNCHANGED <<contents, durable, up, err, bytesWritten, acked, clean>>

\* Where a whole frame was written, within a reader's reach or not.
WholeFrames(c) ==
  {o \in 0..Len(c) : \E f \in Frames : /\ o + Len(Units(f)) <= Len(c)
                                      /\ SubSeq(c, o + 1, o + Len(Units(f))) = Units(f)}

\* Faulty variant of flush_sync: the result of flush() is not looked at.
FlushUnchecked ==
  /\ up /\ part = <<>>
  /\ err' = FALSE
  /\ durable' = Len(contents)
  /\ acked' = Cardinality(WholeFrames(contents))
  /\ clean' = IF hurt THEN clean ELSE Len(contents)
  /\ UNCHANGED <<contents, up, part, bytesWritten, hurt>>

\* flush_sync returns Ok: the caller acknowledges everything appended so far.
flush_sync ==
  /\ up /\ ~err /\ part = <<>>
  /\ durable' = Len(contents)
  /\ acked' = Cardinality(WholeFrames(contents))
  /\ clean' = IF hurt THEN clean ELSE Len(contents)
  /\ UNCHANGED <<contents, up, part, err, bytesWritten, hurt>>

\* flush_sync returns the error of sync_data; nothing is known of the disk.
SyncFailed ==
  /\ up /\ ~err /\ part = <<>>
  /\ hurt' = TRUE
  /\ UNCHANGED <<contents, durable, up, part, err, bytesWritten, acked, clean>>

\* The writer is dropped, or its process ends; the file system goes on.
Close ==
  /\ up
  /\ up' = FALSE /\ part' = <<>> /\ err' = FALSE
  /\ UNCHANGED <<contents, durable, bytesWritten, hurt, acked, clean>>

\* The machine stops; of what was not synced, some beginning has reached the disk.
Crash ==
  /\ \E n \in durable..Len(contents) : contents' = SubSeq(contents, 1, n) /\ durable' = n
  /\ up' = FALSE /\ part' = <<>> /\ err' = FALSE
  /\ UNCHANGED <<bytesWritten, hurt, acked, clean>>

\* What the reader's comment offers the caller: when the reader ended with an error
\* (a whole header was there, not a frame), cut the file at the reader's offset.
\* After a torn header the reader returns Ok(None), and nobody cuts.
Truncate ==
  LET stop == ReadAll(contents).offset
  IN /\ ~up
     /\ stop + HeaderLen <= Len(contents)
     /\ contents' = SubSeq(contents, 1, stop)
     /\ durable' = IF durable <= stop THEN durable ELSE stop
     /\ UNCHANGED <<up, part, err, bytesWritten, hurt, acked, clean>>

Next ==
  \/ open \/ (\E f \in Frames : append(f)) \/ append_payload
  \/ ErrorReturned \/ Dropped
  \/ flush_sync \/ SyncFailed
  \/ Close \/ Crash \/ Truncate

Spec == Init /\ [][Next]_vars

-----------------------------------------------------------------------------
\* To its readers the file is a durable log: through failed and dropped appends,
\* torn headers and payloads, writers opened on top of them, cuts and crashes, what
\* ReadAll finds grows only by the frame just appended, and a crash takes frames
\* from the end only, none of those a reader of the synced part finds.
Log == INSTANCE DurableLog WITH log <- ReadAll(contents).frames,
                                synced <- Len(ReadAll(Disk).frames)
IsDurableLog == Log!Spec

\* A caller that opens a writer only where the reader got to the end of the file, and
\* stops using it at its first error or dropped append, may acknowledge what
\* flush_sync returned Ok for: readers find all of it from then on, after any number
\* of crashes and whatever less careful writers do later.
CleanAcksReplayed == clean <= ReadAll(Disk).offset

\* What the comment on WalWriter says of every caller (writer.rs:10-12).  It does not
\* hold: frames written after a torn header, or by a writer used on after an error,
\* are synced, acknowledged and out of every reader's reach.
AckedReplayed == acked <= Len(ReadAll(Disk).frames)
=============================================================================
