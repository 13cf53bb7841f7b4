-------------------------------- MODULE ChWriter --------------------------------
(***************************************************************************)
(* The batching ClickHouse writer of crates/clickhouse-sink/src/lib.rs:    *)
(* ChWriter::run and try_flush, the bounded row channel in front of it and *)
(* the table behind it.                                                    *)
(*                                                                         *)
(* A row is its key (exchange, symbol, window, price) and its version, the *)
(* position at which it was sent; a later row of a key is the fuller one.  *)
(* ClickHouse is external and modelled from its use: an INSERT that is     *)
(* answered 2xx has been applied; one that fails from the writer's point   *)
(* of view may have been applied or not, and, when the writer gave up      *)
(* waiting (request_timeout), may still be applied later.  ingested_at is  *)
(* stamped by the server when it applies the rows, so the table shows the  *)
(* row applied last for each key.                                          *)
(*                                                                         *)
(* Time: `wait' is next_attempt - now, zero once it is reached.  The       *)
(* ticker may fire whenever the channel is empty; the select is biased.    *)
(* batches_ok and batches_err, which nothing reads, are left out.          *)
(***************************************************************************)
EXTENDS Integers, Sequences, FiniteSets

CONSTANTS
  Keys,
  ChannelBound,   \* capacity of the row channel
  BatchSize,
  MaxBufferRows,
  FlushInterval,  \* initial backoff
  BackoffMax,
  MaxRows,        \* bound on the number of rows sent
  MaxLate         \* bound on abandoned INSERTs the server may still apply

ASSUME ChWriterAssumption ==
  /\ ChannelBound \in Nat \ {0}
  /\ BatchSize \in Nat \ {0}
  /\ MaxBufferRows \in Nat \ {0}
  /\ FlushInterval \in Nat \ {0}
  /\ BackoffMax \in Nat \ {0}
  /\ MaxRows \in Nat
  /\ MaxLate \in Nat

VARIABLES
  rx,        \* rows in the channel
  open,      \* some sender of the channel is alive
  sent,      \* number of rows sent so far
  pc,        \* "select", "post" or "final" (awaiting an INSERT), "done"
  batch,     \* rows received and not yet acknowledged or dropped
  wait,      \* time left until next_attempt
  backoff,
  received,  \* number of rows received (history variable)
  acked,     \* rows counted in rows_ok
  dropped,   \* rows counted in rows_dropped
  table,     \* key -> version shown by the table, 0 if none
  late,      \* abandoned INSERTs the server may still apply
  stale      \* keys of abandoned INSERTs that were applied (history variable)

vars == <<rx, open, sent, pc, batch, wait, backoff, received, acked, dropped,
          table, late, stale>>

Row == [key : Keys, ver : Nat \ {0}]
RowsOf(s) == {s[i] : i \in DOMAIN s}

Init ==
  /\ rx = <<>> /\ open = TRUE /\ sent = 0
  /\ pc = "select" /\ batch = <<>>
  /\ wait = 0 /\ backoff = FlushInterval
  /\ received = 0 /\ acked = {} /\ dropped = {}
  /\ table = [k \in Keys |-> 0]
  /\ late = {} /\ stale = {}

-----------------------------------------------------------------------------
(* The senders (the ch_fanout tasks): a full channel makes them wait.      *)

Send(k) ==
  /\ open
  /\ sent < MaxRows
  /\ Len(rx) < ChannelBound
  /\ sent' = sent + 1
  /\ rx' = Append(rx, [key |-> k, ver |-> sent + 1])
  /\ UNCHANGED <<open, pc, batch, wait, backoff, received, acked, dropped,
                 table, late, stale>>

\* The last sender is dropped.
CloseChannel ==
  /\ open
  /\ open' = FALSE
  /\ UNCHANGED <<rx, sent, pc, batch, wait, backoff, received, acked, dropped,
                 table, late, stale>>

-----------------------------------------------------------------------------
(* ClickHouse.                                                             *)

\* The table after a batch: for each key the last of its rows wins.
Apply(tab, rows) ==
  [k \in Keys |->
     IF \E i \in DOMAIN rows : rows[i].key = k
       THEN LET last == CHOOSE i \in DOMAIN rows :
                          /\ rows[i].key = k
                          /\ \A j \in DOMAIN rows : rows[j].key = k => j <= i
            IN  rows[last].ver
       ELSE tab[k]]

\* An INSERT the writer gave up on is applied after all.
ApplyLate(rows) ==
  /\ rows \in late
  /\ table' = Apply(table, rows)
  /\ late' = late \ {rows}
  /\ stale' = stale \cup {r.key : r \in RowsOf(rows)}
  /\ UNCHANGED <<rx, open, sent, pc, batch, wait, backoff, received, acked,
                 dropped>>

-----------------------------------------------------------------------------
(* ChWriter::run.                                                          *)

\* Faulty variant of Excess: one row too many is let in.
ExcessOffByOne(s) ==
  IF Len(s) > MaxBufferRows + 1 THEN Len(s) - MaxBufferRows ELSE 0

\* The number of oldest rows above the cap.
Excess(s) == IF Len(s) > MaxBufferRows THEN Len(s) - MaxBufferRows ELSE 0

\* recv() yields a row: push, drop the oldest above the cap, and flush when
\* a batch is full and the backoff gate is open.
RecvRow ==
  LET pushed == Append(batch, Head(rx))
      n == Excess(pushed)
      kept == SubSeq(pushed, n + 1, Len(pushed))
  IN  /\ pc = "select"
      /\ rx # <<>>
      /\ rx' = Tail(rx)
      /\ received' = received + 1
      /\ batch' = kept
      /\ dropped' = dropped \cup RowsOf(SubSeq(pushed, 1, n))
      /\ pc' = IF Len(kept) >= BatchSize /\ wait = 0 THEN "post" ELSE "select"
      /\ UNCHANGED <<open, sent, wait, backoff, acked, table, late, stale>>

\* recv() yields None: one last flush if anything is buffered, whatever the
\* backoff gate says.
RecvNone ==
  /\ pc = "select"
  /\ rx = <<>>
  /\ ~open
  /\ pc' = IF batch # <<>> THEN "final" ELSE "done"
  /\ UNCHANGED <<rx, open, sent, batch, wait, backoff, received, acked, dropped,
                 table, late, stale>>

\* The flush ticker fires; recv() is polled first, so it must be pending.
TickFlush ==
  /\ pc = "select"
  /\ rx = <<>> /\ open
  /\ batch # <<>>
  /\ wait = 0
  /\ pc' = "post"
  /\ UNCHANGED <<rx, open, sent, batch, wait, backoff, received, acked, dropped,
                 table, late, stale>>

\* The loop goes on after a flush, except after the one on close.
AfterFlush == IF pc = "post" THEN "select" ELSE "done"

\* try_flush, Ok: the batch is counted and cleared, the backoff reset.
PostOk ==
  /\ pc \in {"post", "final"}
  /\ table' = Apply(table, batch)
  /\ acked' = acked \cup RowsOf(batch)
  /\ batch' = <<>>
  /\ backoff' = FlushInterval
  /\ wait' = 0
  /\ pc' = AfterFlush
  /\ UNCHANGED <<rx, open, sent, received, dropped, late, stale>>

\* Faulty variant of FlushFailed: the batch is cleared on error as well.
FlushFailedClears ==
  /\ pc \in {"post", "final"}
  /\ backoff' = IF 2 * backoff > BackoffMax THEN BackoffMax ELSE 2 * backoff
  /\ wait' = backoff'
  /\ batch' = <<>>
  /\ pc' = AfterFlush
  /\ UNCHANGED <<rx, open, sent, received, acked, dropped, stale>>

\* Faulty variant of FlushFailed: rows are counted before the INSERT's result
\* is known.
FlushFailedCounted ==
  /\ pc \in {"post", "final"}
  /\ acked' = acked \cup RowsOf(batch)
  /\ backoff' = IF 2 * backoff > BackoffMax THEN BackoffMax ELSE 2 * backoff
  /\ wait' = backoff'
  /\ pc' = AfterFlush
  /\ UNCHANGED <<rx, open, sent, batch, received, dropped, stale>>

\* try_flush, Err: the batch is kept and the next attempt pushed away.
FlushFailed ==
  /\ pc \in {"post", "final"}
  /\ backoff' = IF 2 * backoff > BackoffMax THEN BackoffMax ELSE 2 * backoff
  /\ wait' = backoff'
  /\ pc' = AfterFlush
  /\ UNCHANGED <<rx, open, sent, batch, received, acked, dropped, stale>>

\* ... and the server applied nothing (refused, unreachable, HTTP error),
PostRefused ==
  /\ FlushFailed
  /\ UNCHANGED <<table, late>>

\* ... or applied the rows and the answer was lost,
PostAnswerLost ==
  /\ FlushFailed
  /\ table' = Apply(table, batch)
  /\ UNCHANGED late

\* ... or is still working on them when the request times out.
PostTimedOut ==
  /\ FlushFailed
  /\ Cardinality(late) < MaxLate
  /\ late' = late \cup {batch}
  /\ UNCHANGED table

\* Time passes towards next_attempt.
Elapse ==
  /\ wait > 0
  /\ wait' = wait - 1
  /\ UNCHANGED <<rx, open, sent, pc, batch, backoff, received, acked, dropped,
                 table, late, stale>>

Next ==
  \/ \E k \in Keys : Send(k)
  \/ CloseChannel
  \/ RecvRow \/ RecvNone \/ TickFlush
  \/ PostOk \/ PostRefused \/ PostAnswerLost \/ PostTimedOut
  \/ \E rows \in late : ApplyLate(rows)
  \/ Elapse

Spec == Init /\ [][Next]_vars

\* The writer task and its timers keep running, every INSERT ends (the client
\* has a timeout), and one that is retried for ever succeeds in the end.
Fairness ==
  /\ WF_vars(RecvRow) /\ WF_vars(RecvNone) /\ WF_vars(TickFlush)
  /\ WF_vars(Elapse)
  /\ WF_vars(PostOk \/ PostRefused \/ PostAnswerLost \/ PostTimedOut)
  /\ SF_vars(PostOk)

FairSpec == Spec /\ Fairness

-----------------------------------------------------------------------------
(* Properties.                                                             *)

\* Every variable has its type.
TypeOK ==
  /\ rx \in Seq(Row) /\ Len(rx) <= ChannelBound
  /\ open \in BOOLEAN
  /\ sent \in Nat
  /\ pc \in {"select", "post", "final", "done"}
  /\ batch \in Seq(Row)
  /\ wait \in Nat /\ backoff \in Nat
  /\ received \in Nat
  /\ acked \subseteq Row /\ dropped \subseteq Row
  /\ table \in [Keys -> Nat]
  /\ late \subseteq Seq(Row) /\ stale \subseteq Keys

\* However long ClickHouse is down, the buffer stays within max_buffer_rows
\* and holds exactly the most recent rows received, in order: the cap only
\* ever removes the oldest, and retries neither reorder nor repeat rows.
FreshestKept ==
  /\ Len(batch) <= MaxBufferRows
  /\ \A i \in DOMAIN batch : batch[i].ver = received - Len(batch) + i
  /\ \A i \in DOMAIN rx : rx[i].ver = received + i
  /\ sent = received + Len(rx)

\* Every row received is acknowledged (rows_ok), counted as dropped
\* (rows_dropped) or still buffered, and never two of these, through any
\* sequence of failed and repeated flushes.
EveryRowAccounted ==
  /\ acked \cap dropped = {}
  /\ (acked \cup dropped) \cap RowsOf(batch) = {}
  /\ {r.ver : r \in acked \cup dropped \cup RowsOf(batch)} = 1..received

\* A row counted in rows_ok is in the table, unless a newer row of its key is:
\* retries that repeat an INSERT already applied do not bring older rows back.
\* Only an INSERT given up on and applied later can.
AckedStored == \A r \in acked : r.key \in stale \/ table[r.key] >= r.ver

\* "Returns when the channel closes, after flushing any in-flight batch"
\* (ChWriter::run): nothing is left in the buffer.  The one attempt to flush on
\* close may fail, and its rows are then neither written nor counted.
FlushedOnReturn == pc = "done" => batch = <<>>

\* Every row received is eventually acknowledged or counted as dropped, or
\* the channel was closed and run has returned.
RowsSettle ==
  \A v \in 1..MaxRows :
    (received >= v) ~> \/ \E r \in acked \cup dropped : r.ver = v
                       \/ pc = "done"

=============================================================================
