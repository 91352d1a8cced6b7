------------------------------ MODULE MCShareSync ------------------------------
(* A small instance of ShareSync for TLC. *)
EXTENDS ShareSync

CONSTANTS link, video, note, here, there

AllAssets == [s \in {link} |-> {video}]
AllNotes == [a \in {video} |-> {note}]
=============================================================================
