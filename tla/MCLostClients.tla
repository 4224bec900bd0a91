--------------------------- MODULE MCLostClients ---------------------------
(* All the constants are numbers but one; the values are in the configuration. *)
EXTENDS LostClients
=============================================================================
