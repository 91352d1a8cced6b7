----------------------------- MODULE MCDriveSync -----------------------------
(* A small instance of DriveSync for TLC. *)
EXTENDS DriveSync, TLC

CONSTANTS dir, doc, s1, s2

Symmetry == Permutations({s1, s2})
=============================================================================
