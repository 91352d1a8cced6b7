------------------------------ MODULE MCPromotion ------------------------------
(* Small instances of Promotion for TLC. *)
EXTENDS Promotion

CONSTANTS doc, video

MCStorageOf == [f \in Files |-> IF f = video THEN "local" ELSE "drive"]
=============================================================================
