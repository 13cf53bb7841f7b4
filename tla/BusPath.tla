-------------------------------- MODULE BusPath --------------------------------
(***************************************************************************)
(* One channel of the ClusterBus (crates/cluster-engine/src/bus.rs) and    *)
(* its two consumers: the ClickHouse fanout                                *)
(* (spawn_snapshot_to_ch, crates/cluster-ingest/src/binance_supervisor.rs) *)
(* which turns Snapshots into rows and sends them, waiting for room, to    *)
(* the writer's channel; and a gRPC subscriber                             *)
(* (crates/cluster-api/src/stream_server.rs), whose stream logs a Lagged   *)
(* and passes it over: the client is told nothing of it.                   *)
(*                                                                         *)
(* tokio's broadcast is external: a ring of the last Capacity frames; a    *)
(* receiver that fell further behind is told how many it missed and        *)
(* continues with the oldest frame in the ring.                            *)
(* A frame is its position in the log and its kind: "Diff", "Delta" (the   *)
(* Snapshot of current_window_delta) or "Closing" (the full Snapshot of a  *)
(* window roll).  Every Snapshot is given RowsPerSnapshot rows.            *)
(* The writer ends only when its channel is closed, so the fanout's return *)
(* on a failed send is not taken; its abort is in module Supervisor.       *)
(***************************************************************************)
EXTENDS Integers, Sequences, FiniteSets

CONSTANTS
  Capacity,         \* frames a broadcast channel retains
  ChannelBound,     \* capacity of the writer's channel
  RowsPerSnapshot,
  MaxFrames         \* bound on the frames published

ASSUME BusPathAssumption ==
  /\ Capacity \in Nat \ {0} /\ ChannelBound \in Nat \ {0}
  /\ RowsPerSnapshot \in Nat \ {0} /\ MaxFrames \in Nat

Kinds == {"Diff", "Delta", "Closing"}

VARIABLES
  log,            \* kinds of all frames published so far
  next,           \* position of the ClickHouse fanout's receiver
  total_lagged,
  handled,        \* history: positions of the frames it received
  snaps,          \* history: those of them that hold a Snapshot
  rows,           \* rows of the current Snapshot still to be sent
  chan,           \* the writer's channel: <<frame, row>>
  written,        \* rows the writer has taken
  client_next,    \* position of the gRPC subscriber's receiver
  client,         \* positions of the frames the client was sent
  stream          \* the subscription: "open", "dropped" by the client, "ended"
                  \* by the server (yielding None; the code never does)

fanoutVars == <<next, total_lagged, handled, snaps>>
clientVars == <<client_next, client, stream>>
vars == <<log, fanoutVars, rows, chan, written, clientVars>>

Init ==
  /\ log = <<>>
  /\ next = 1 /\ total_lagged = 0 /\ handled = <<>> /\ snaps = <<>>
  /\ rows = <<>> /\ chan = <<>> /\ written = <<>>
  /\ client_next = 1 /\ client = <<>> /\ stream = "open"

-----------------------------------------------------------------------------
Publish(kind) ==
  /\ Len(log) < MaxFrames
  /\ log' = Append(log, kind)
  /\ UNCHANGED <<fanoutVars, rows, chan, written, clientVars>>

\* The oldest position the ring still holds.
Oldest == IF Len(log) > Capacity THEN Len(log) - Capacity + 1 ELSE 1

\* rows_from_snapshot for the frame at position n; a Diff is not stored.
RowsOf(n) ==
  IF log[n] = "Diff" THEN <<>> ELSE [r \in 1 .. RowsPerSnapshot |-> <<n, r>>]

\* sub.recv() yields a frame; the fanout is not inside its send loop.
ChRecv ==
  /\ rows = <<>>
  /\ next \in Oldest .. Len(log)
  /\ handled' = Append(handled, next)
  /\ snaps' = IF log[next] = "Diff" THEN snaps ELSE Append(snaps, next)
  /\ rows' = RowsOf(next)
  /\ next' = next + 1
  /\ UNCHANGED <<log, total_lagged, chan, written, clientVars>>

\* sub.recv() yields Lagged(n).
\* Faulty variant: the number of times it happened is counted, not the frames.
ChLaggedOnce ==
  /\ rows = <<>>
  /\ next < Oldest
  /\ total_lagged' = total_lagged + 1
  /\ next' = Oldest
  /\ UNCHANGED <<log, handled, snaps, rows, chan, written, clientVars>>

ChLagged ==
  /\ rows = <<>>
  /\ next < Oldest
  /\ total_lagged' = total_lagged + (Oldest - next)
  /\ next' = Oldest
  /\ UNCHANGED <<log, handled, snaps, rows, chan, written, clientVars>>

\* ch_tx.send(row).await waits for room.
\* Faulty variant: try_send, giving up the rest of the Snapshot when the
\* channel is full.
ChTrySend ==
  /\ rows # <<>>
  /\ IF Len(chan) < ChannelBound
     THEN chan' = Append(chan, Head(rows)) /\ rows' = Tail(rows)
     ELSE chan' = chan /\ rows' = <<>>
  /\ UNCHANGED <<log, fanoutVars, written, clientVars>>

ChSend ==
  /\ rows # <<>>
  /\ Len(chan) < ChannelBound
  /\ chan' = Append(chan, Head(rows))
  /\ rows' = Tail(rows)
  /\ UNCHANGED <<log, fanoutVars, written, clientVars>>

\* ChWriter takes a row.
WriterRecv ==
  /\ chan # <<>>
  /\ written' = Append(written, Head(chan))
  /\ chan' = Tail(chan)
  /\ UNCHANGED <<log, fanoutVars, rows, clientVars>>

\* The gRPC stream yields a frame.
ClientRecv ==
  /\ stream = "open"
  /\ client_next \in Oldest .. Len(log)
  /\ client' = Append(client, client_next)
  /\ client_next' = client_next + 1
  /\ UNCHANGED <<log, fanoutVars, rows, chan, written, stream>>

\* Faulty variant: the stream ends at a lag, as map_while would make it.
ClientLaggedEnds ==
  /\ stream = "open"
  /\ client_next < Oldest
  /\ stream' = "ended"
  /\ UNCHANGED <<log, fanoutVars, rows, chan, written, client_next, client>>

\* The receiver fell behind the ring: filter_map logs the notice and drops it.
ClientLagged ==
  /\ stream = "open"
  /\ client_next < Oldest
  /\ client_next' = Oldest
  /\ UNCHANGED <<log, fanoutVars, rows, chan, written, client, stream>>

\* The client goes away and tonic drops the stream with its receiver.
Unsubscribe ==
  /\ stream = "open"
  /\ stream' = "dropped"
  /\ UNCHANGED <<log, fanoutVars, rows, chan, written, client_next, client>>

ChFanoutStep == ChRecv \/ ChLagged \/ ChSend
ClientStep == ClientRecv \/ ClientLagged

Next ==
  \/ \E kind \in Kinds : Publish(kind)
  \/ ChFanoutStep
  \/ WriterRecv
  \/ ClientStep
  \/ Unsubscribe

Spec == Init /\ [][Next]_vars

\* The tasks are polled, the writer keeps receiving, the client keeps reading.
FairSpec == Spec /\ WF_vars(ChFanoutStep) /\ WF_vars(WriterRecv) /\ WF_vars(ClientStep)

-----------------------------------------------------------------------------
(***************************************************************************)
(* Types; the writer's channel within its capacity.                        *)
(***************************************************************************)
TypeOK ==
  /\ log \in Seq(Kinds)
  /\ next \in 1 .. Len(log) + 1 /\ client_next \in 1 .. Len(log) + 1
  /\ total_lagged \in Nat
  /\ \A s \in {handled, snaps, client} : s \in Seq(Nat)
  /\ \A s \in {rows, chan, written} : s \in Seq(Nat \X (1 .. RowsPerSnapshot))
  /\ Len(chan) <= ChannelBound
  /\ stream \in {"open", "dropped", "ended"}

(***************************************************************************)
(* Every frame lost to a lag is counted: total_lagged, which the warning   *)
(* of the ClickHouse fanout reports, is exactly the number of frames it    *)
(* never received.                                                         *)
(***************************************************************************)
LagCounted == Len(handled) + total_lagged = next - 1

(***************************************************************************)
(* What the writer is given is whole: the rows taken, in the channel and   *)
(* still to be sent are those of the Snapshots received, in order, each    *)
(* Snapshot complete.  Backpressure delays rows and never drops one.       *)
(***************************************************************************)
Stream == written \o chan \o rows

SnapshotsArriveWhole ==
  /\ Len(Stream) = Len(snaps) * RowsPerSnapshot
  /\ \A s \in DOMAIN snaps, r \in 1 .. RowsPerSnapshot :
       Stream[(s - 1) * RowsPerSnapshot + r] = <<snaps[s], r>>

(***************************************************************************)
(* No consumer that reads stands still behind the ring: through full       *)
(* channels and repeated lags, the ClickHouse fanout gets past every       *)
(* published frame, and so does a subscription, until the client drops it. *)
(* What a lag overwrote is not sent later; see LagCounted and NoSilentGap. *)
(***************************************************************************)
ConsumersCatchUp ==
  \A n \in 1 .. MaxFrames :
    /\ (Len(log) = n) ~> (next > n)
    /\ (Len(log) = n) ~> (client_next > n \/ stream = "dropped")

(***************************************************************************)
(* "Slow consumers see RecvError::Lagged and must recover by requesting a  *)
(* fresh snapshot" (bus.rs:19-20): a client that missed frames learns of   *)
(* it.  Not over gRPC: the stream drops the notice (stream_server.rs:74),  *)
(* and the next frame follows as if nothing were missing.                  *)
(***************************************************************************)
NoSilentGap == \A k \in 2 .. Len(client) : client[k] = client[k - 1] + 1
=============================================================================
