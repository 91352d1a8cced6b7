---------------------------- MODULE MCColdStorage ----------------------------
(* A small instance of ColdStorage for TLC. *)
EXTENDS ColdStorage

CONSTANTS k1, d1

OneDir == [k \in Keys |-> d1]
=============================================================================
