----------------------- MODULE MCCancellationRecovery -----------------------
(* Values for TLC. *)
EXTENDS CancellationRecovery
=============================================================================
