--------------------------- MODULE MCNotifications ---------------------------
(* Model values for Notifications. *)
EXTENDS Notifications

CONSTANTS u1, u2, k1, k2, t1, t2

MCUsers == {u1, u2}
MCKeys == {k1, k2}
MCTasks == {t1, t2}
MCTestKeys == {k2}
=============================================================================
