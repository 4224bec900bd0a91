---------------------------- MODULE MCMyBookings ----------------------------
(* Values for TLC: one booking at the start, and two records to make, which *)
(* are alike. *)
EXTENDS MyBookings, TLC

CONSTANTS r1, r2, r3

MCRecords == {r1, r2, r3}
MCFirst == {r1}

Made == Permutations(MCRecords \ MCFirst)

=============================================================================
