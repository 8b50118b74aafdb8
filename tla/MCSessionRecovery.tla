--------------------------- MODULE MCSessionRecovery ---------------------------
(* An instance of SessionRecovery for TLC.                                 *)
EXTENDS SessionRecovery
=============================================================================
