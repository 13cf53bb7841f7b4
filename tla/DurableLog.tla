------------------------------ MODULE DurableLog ------------------------------
(***************************************************************************)
(* What a write-ahead log promises: frames are appended in order, a sync   *)
(* makes all of them permanent, and a crash may take frames from the end,  *)
(* never one that was synced, and never one from the middle.               *)
(***************************************************************************)
EXTENDS Naturals, Sequences

CONSTANT Frames
VARIABLES log,       \* the frames a reader would find
          synced     \* how many of them are permanent

Init == log = <<>> /\ synced = 0

AppendFrame == \E f \in Frames : log' = Append(log, f) /\ UNCHANGED synced
Sync == synced' = Len(log) /\ UNCHANGED log
Crash == \E n \in synced..Len(log) : log' = SubSeq(log, 1, n) /\ synced' = n

Next == AppendFrame \/ Sync \/ Crash
Spec == Init /\ [][Next]_<<log, synced>>
=============================================================================
