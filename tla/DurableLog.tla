----------------------------- MODULE DurableLog -----------------------------
(***************************************************************************)
(* What a raw journal promises its caller, and all EngineStore assumes of  *)
(* it: frames are appended in order, a durable prefix only grows, and a    *)
(* restart may lose any part of the rest but nothing of the prefix.        *)
(***************************************************************************)
EXTENDS Naturals, Sequences, SequencesExt

VARIABLES frames,   \* what can be read, in order
          durable   \* how many of them survive a crash

LogInit == frames = <<>> /\ durable = 0

Append1 == Len(frames') = Len(frames) + 1 /\ Front(frames') = frames /\ UNCHANGED durable

Sync == durable' = Len(frames) /\ UNCHANGED frames

Lose ==
  /\ \E kept \in durable .. Len(frames) : frames' = SubSeq(frames, 1, kept)
  /\ UNCHANGED durable

LogNext == Append1 \/ Sync \/ Lose

LogSpec == LogInit /\ [][LogNext]_<<frames, durable>>
=============================================================================
