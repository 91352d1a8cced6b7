---------------------------- MODULE MCUploadQueue ----------------------------
(* Small instances of UploadQueue for TLC, with the timeouts of the code in minutes. *)
EXTENDS UploadQueue, TLC

CONSTANTS frameio, sardius

\* STALL_THRESHOLDS['upload:frameio'] and ['upload:sardius']
MCStallOf == [j \in Jobs |-> IF j = frameio THEN 2 ELSE 15]
=============================================================================
