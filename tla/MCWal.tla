--------------------------------- MODULE MCWal ---------------------------------
\* An instance of Wal: an empty payload, a payload, and one beyond the cap.
EXTENDS Wal
MCFrames == {"empty", "short", "huge"}
MCPayloadLen(f) == CASE f = "empty" -> 0 [] f = "short" -> 2 [] f = "huge" -> 3
=============================================================================
