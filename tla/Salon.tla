-------------------------------- MODULE Salon --------------------------------
(***************************************************************************)
(* The client and the salon as the funnels that ask a client to come back  *)
(* see them: one client, whose visits are numbered, the booking it has     *)
(* ahead, and whether the bot may still write to it.                       *)
(***************************************************************************)
EXTENDS Integers

CONSTANTS
    Last,         \* bound: visits
    LastDay       \* bound: the clock

ASSUME SalonAssumption == {Last, LastDay} \subseteq Nat

Visits == 1 .. Last
Days == 0 .. LastDay
Never == -1
SomeDay == Days \cup {Never}

VARIABLES
    day,
    last,       \* the salon: the number of completed visits
    visitDay,   \* ... their days
    booked,     \* ... a booking ahead
    notifyOn    \* users.notifications_enabled

salon == <<last, visitDay, booked>>

SalonTypeOK ==
    /\ day \in Days
    /\ last \in 0 .. Last
    /\ visitDay \in [Visits -> SomeDay]
    /\ booked \in BOOLEAN /\ notifyOn \in BOOLEAN

SalonInit ==
    /\ day = 0
    /\ last = 0 /\ visitDay = [v \in Visits |-> Never] /\ booked = FALSE
    /\ notifyOn = TRUE

NewDay ==
    /\ day < LastDay
    /\ day' = day + 1
    /\ UNCHANGED <<salon, notifyOn>>

Book ==
    /\ ~ booked /\ booked' = TRUE
    /\ UNCHANGED <<day, last, visitDay, notifyOn>>

Unbook ==
    /\ booked /\ booked' = FALSE
    /\ UNCHANGED <<day, last, visitDay, notifyOn>>

Visit ==
    /\ last < Last
    /\ last' = last + 1
    /\ visitDay' = [visitDay EXCEPT ![last'] = day]
    /\ booked' = FALSE
    /\ UNCHANGED <<day, notifyOn>>

\* Another message of the bot found the client unreachable.
SwitchOff ==
    /\ notifyOn /\ notifyOn' = FALSE
    /\ UNCHANGED <<day, salon>>

World == NewDay \/ Book \/ Unbook \/ Visit \/ SwitchOff
=============================================================================
