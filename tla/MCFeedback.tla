----------------------------- MODULE MCFeedback -----------------------------
(* Values for TLC: the least number of visits that can be confused, and of *)
(* admins that can answer at once. *)
EXTENDS Feedback, TLC

CONSTANTS a1, a2

MCAdmins == {a1, a2}
Colleagues == Permutations(MCAdmins)

=============================================================================
