---------------------------- MODULE MCBookingFlow ----------------------------
(* Values for TLC: two days with one time each, the least with which a date *)
(* and a slot of another date can meet in one draft. *)
EXTENDS BookingFlow, TLC

CONSTANTS d1, d2, t1

MCDates == {d1, d2}
MCTimes == {t1}

Days == Permutations(MCDates)

=============================================================================
