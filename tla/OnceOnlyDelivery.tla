--------------------------- MODULE OnceOnlyDelivery ---------------------------
(***************************************************************************)
(* What the notification layer promises, with no table and no task: every  *)
(* business key is decided once.  Either one user is chosen to receive it  *)
(* (claim[k] = that user) or it is closed without a recipient; from then   *)
(* on the choice is fixed.  Copies of the message reach the chosen user    *)
(* only, and at most MaxCopies of them: the transport may have to retry a  *)
(* request whose answer was lost.                                          *)
(***************************************************************************)
EXTENDS Naturals

CONSTANTS Users, Keys, MaxCopies

VARIABLES claim, copies

NoClaim == "unclaimed"
Closed == "closed"

vars == <<claim, copies>>

TypeOK ==
    /\ claim \in [Keys -> Users \cup {NoClaim, Closed}]
    /\ copies \in [Users -> [Keys -> 0 .. MaxCopies]]

Init ==
    /\ claim = [k \in Keys |-> NoClaim]
    /\ copies = [u \in Users |-> [k \in Keys |-> 0]]

Claim(u, k) ==
    /\ claim[k] = NoClaim
    /\ claim' = [claim EXCEPT ![k] = u]
    /\ UNCHANGED copies

\* One decision may close several keys.
Close(ks) ==
    /\ \A k \in ks : claim[k] = NoClaim
    /\ claim' = [k \in Keys |-> IF k \in ks THEN Closed ELSE claim[k]]
    /\ UNCHANGED copies

DeliverCopy(u, k) ==
    /\ claim[k] = u
    /\ copies[u][k] < MaxCopies
    /\ copies' = [copies EXCEPT ![u][k] = @ + 1]
    /\ UNCHANGED claim

Next ==
    \/ \E ks \in SUBSET Keys : Close(ks)
    \/ \E u \in Users, k \in Keys : Claim(u, k) \/ DeliverCopy(u, k)

Spec == Init /\ [][Next]_vars
=============================================================================
