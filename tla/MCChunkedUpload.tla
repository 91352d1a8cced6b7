---------------------------- MODULE MCChunkedUpload ----------------------------
(* Small instances of ChunkedUpload for TLC. *)
EXTENDS ChunkedUpload, TLC

CONSTANTS j1, j2

\* One take of the file; a renamed re-export of it ("_v2"); another take of it.
MCKeyOf == [j \in Jobs |-> IF j = j1 THEN "clip" ELSE "clip_v2"]
SameKey == [j \in Jobs |-> "clip"]
MCBaseOf == [k \in {"clip", "clip_v2"} |-> "clip"]
SameContent == [j \in Jobs |-> "take1"]
OtherContent == [j \in Jobs |-> IF j = j1 THEN "take1" ELSE "take2"]
OwnBatch == [j \in Jobs |-> j]
OneBatch == [j \in Jobs |-> "batch"]

Symmetry == Permutations(Reqs)
=============================================================================
