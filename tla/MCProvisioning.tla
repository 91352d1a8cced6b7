---------------------------- MODULE MCProvisioning ----------------------------
(* Small instances of Provisioning, and with it of Transcripter, for TLC. *)
EXTENDS Provisioning

CONSTANTS video, call1

OneVideo == {<<video>>}
=============================================================================
