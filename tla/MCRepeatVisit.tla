--------------------------- MODULE MCRepeatVisit ---------------------------
(* All the constants are numbers; their values are in the configuration. *)
EXTENDS RepeatVisit
=============================================================================
