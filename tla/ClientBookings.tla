--------------------------- MODULE ClientBookings ---------------------------
(***************************************************************************)
(* What the rest of the bot may rely on about one client's bookings: they  *)
(* come and go for many reasons, an id is given once, and a record is put  *)
(* up for recovery (cancellation_recovery_events) exactly in the step in   *)
(* which the client's cancellation in My Bookings removes it: never for a  *)
(* move, for a removal by the salon or by the button of a reminder, or for *)
(* a booking that still stands.                                            *)
(* MyBookings implements this; CancellationRecovery is built upon it.      *)
(***************************************************************************)
CONSTANT Records

VARIABLES live, fresh, recovering

ledger == <<live, fresh, recovering>>

LedgerInit ==
    /\ live \subseteq Records
    /\ fresh = Records \ live
    /\ recovering = {}

Add(n) ==
    /\ n \in fresh
    /\ live' = live \cup {n} /\ fresh' = fresh \ {n}
    /\ UNCHANGED recovering

Remove(r) ==
    /\ r \in live /\ live' = live \ {r}
    /\ UNCHANGED <<fresh, recovering>>

Cancel(r) ==
    /\ r \in live /\ live' = live \ {r}
    /\ recovering' = recovering \cup {r}
    /\ UNCHANGED fresh

LedgerNext == \E r \in Records : Add(r) \/ Remove(r) \/ Cancel(r)

LedgerSpec == LedgerInit /\ [][LedgerNext]_ledger
=============================================================================
