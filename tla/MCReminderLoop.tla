--------------------------- MODULE MCReminderLoop ---------------------------
(* Model values for ReminderLoop. *)
EXTENDS ReminderLoop, TLC

CONSTANTS u1, r1

MCUsers == {u1}
OneRecord == {r1}
MCOwner == [r \in Records |-> u1]
=============================================================================
