-------------------------- MODULE MCBirthdayFunnel --------------------------
(* Model values for BirthdayFunnel. *)
EXTENDS BirthdayFunnel, TLC

CONSTANTS u1, u2

MCUsers == {u1, u2}
Symmetry == Permutations(MCUsers)
=============================================================================
