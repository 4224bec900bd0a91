--------------------------- MODULE BirthdayFunnel ---------------------------
(***************************************************************************)
(* services/birthday_funnel.py with repositories/birthday_funnel_events.py *)
(* and the booking button of the greeting (flows/booking.py).              *)
(*                                                                         *)
(* A scan reads the clock and the list of users once, then takes the users *)
(* in turn: it records an event for the year and hands the greeting to     *)
(* send_business_notification under the record id "birthday:<year>", which *)
(* does not name the user.  A day is a number; a year has YearDays of them *)
(* and a birthday is a day of the year.                                    *)
(***************************************************************************)
EXTENDS Integers, FiniteSets

CONSTANTS
    Users,
    YearDays,
    DaysBefore,   \* automation setting send_days_before
    LastDay       \* bound on the clock

ASSUME BirthdayAssumption ==
    /\ YearDays \in Nat \ {0}
    /\ DaysBefore \in 1 .. YearDays - 1
    /\ LastDay \in Nat
    /\ {"idle", "users"} \cap Users = {}

YearOf(day) == day \div YearDays

\* notification_history keys: the record ids "birthday:<year>".
Years == {YearOf(day) : day \in 0 .. LastDay}
Keys == Years

INSTANCE NotificationStore

VARIABLES
    today,
    birthday,   \* users.birthdate
    notifyOn,   \* users.notifications_enabled
    globalOn,   \* app_settings.notifications_enabled
    events,     \* birthday_funnel_events: status of the event of a user and year
    bookedBy,   \* ... and whose booking its yclients_booking_id is
    history,    \* notification_history
    scan,       \* the scan in progress
    greeted,    \* who received a greeting, for which year
    gift,       \* birthday_event_id in the user's booking state
    cut         \* turns that ended between two of their commits (observation)

vars == <<today, birthday, notifyOn, globalOn, events, bookedBy, history, scan, greeted, gift, cut>>

Nobody == "nobody"
NoEvent == "none"
ButtonStatuses == {"clicked_booking", "booked_from_birthday_gift"}
EventStatuses == {NoEvent, "pending", "sent", "skipped", "blocked", "failed"} \cup ButtonStatuses

Idle == [pc |-> "idle", day |-> 0, queue |-> {}, due |-> {}]
Scans == [pc : {"idle", "users"} \cup Users, day : 0 .. LastDay,
          queue : SUBSET Users, due : SUBSET Users]

TypeOK ==
    /\ today \in 0 .. LastDay
    /\ birthday \in [Users -> 0 .. YearDays - 1]
    /\ notifyOn \in [Users -> BOOLEAN]
    /\ globalOn \in BOOLEAN
    /\ events \in [Users -> [Years -> EventStatuses]]
    /\ bookedBy \in [Users -> [Years -> Users \cup {Nobody}]]
    /\ history \in Tables
    /\ scan \in Scans
    /\ greeted \subseteq Users \X Years
    /\ gift \in [Users -> (Users \X Years) \cup {<<>>}]
    /\ cut \subseteq Users \X Years

NoGifts == [u \in Users |-> <<>>]

Init ==
    /\ today = 0
    /\ birthday \in [Users -> 0 .. YearDays - 1]
    /\ notifyOn = [u \in Users |-> TRUE]
    /\ globalOn = TRUE
    /\ events = [u \in Users |-> [y \in Years |-> NoEvent]]
    /\ bookedBy = [u \in Users |-> [y \in Years |-> Nobody]]
    /\ history = EmptyTable
    /\ scan = Idle
    /\ greeted = {}
    /\ gift = NoGifts
    /\ cut = {}

-----------------------------------------------------------------------------
(* The scan *)

\* _is_due_today: the birthday is looked for in the year of today.
IsDue(u, day) == YearOf(day) * YearDays + birthday[u] - day = DaysBefore

\* run_birthday_scan, with the funnel's own switch on (a scan that finds it
\* off does nothing): the clock and the users' rows are read now, and used
\* until the scan ends.
BeginScan ==
    /\ scan.pc = "idle"
    /\ scan' = [pc |-> "users", day |-> today, queue |-> Users,
                due |-> {u \in Users : notifyOn[u] /\ IsDue(u, today)}]
    /\ UNCHANGED <<today, birthday, notifyOn, globalOn, events, bookedBy, history,
                   greeted, gift, cut>>

Wanted(u) ==
    /\ u \in scan.due
    /\ events[u][YearOf(scan.day)] = NoEvent

NextUser(u, pc) == scan' = [scan EXCEPT !.pc = pc, !.queue = @ \ {u}]

PassOver(u) ==
    /\ scan.pc = "users"
    /\ u \in scan.queue
    /\ ~ Wanted(u)
    /\ NextUser(u, "users")
    /\ UNCHANGED <<today, birthday, notifyOn, globalOn, events, bookedBy, history,
                   greeted, gift, cut>>

SetEvent(u, y, status) == events' = [events EXCEPT ![u][y] = status]

\* create_event and send_business_notification up to its await, in one step;
\* when nothing is sent, mark_status follows at once.
GloballyOff(u) ==
    LET y == YearOf(scan.day) IN
    /\ scan.pc = "users"
    /\ u \in scan.queue
    /\ Wanted(u)
    /\ ~ globalOn
    /\ history' = MarkSkipped(history, u, y)
    /\ SetEvent(u, y, "skipped")
    /\ NextUser(u, "users")
    /\ UNCHANGED <<today, birthday, notifyOn, globalOn, bookedBy, greeted, gift, cut>>

Reserved(u) ==
    LET y == YearOf(scan.day) IN
    /\ scan.pc = "users"
    /\ u \in scan.queue
    /\ Wanted(u)
    /\ globalOn
    /\ CanReserve(history, y)
    /\ history' = Reserve(history, u, y)
    /\ SetEvent(u, y, "pending")
    /\ NextUser(u, u)
    /\ UNCHANGED <<today, birthday, notifyOn, globalOn, bookedBy, greeted, gift, cut>>

\* Mutant of NotReserved: the greeting is said to be skipped.
NotReservedIsSkipped(u) ==
    LET y == YearOf(scan.day) IN
    /\ scan.pc = "users"
    /\ u \in scan.queue
    /\ Wanted(u)
    /\ globalOn
    /\ ~ CanReserve(history, y)
    /\ SetEvent(u, y, "skipped")
    /\ NextUser(u, "users")
    /\ UNCHANGED <<today, birthday, notifyOn, globalOn, bookedBy, history, greeted, gift, cut>>

\* The key of the year is taken; the user has no row of its own, so
\* send_business_notification returns None.
NotReserved(u) ==
    LET y == YearOf(scan.day) IN
    /\ scan.pc = "users"
    /\ u \in scan.queue
    /\ Wanted(u)
    /\ globalOn
    /\ ~ CanReserve(history, y)
    /\ SetEvent(u, y, "failed")
    /\ NextUser(u, "users")
    /\ UNCHANGED <<today, birthday, notifyOn, globalOn, bookedBy, history, greeted, gift, cut>>

Arrives(u) ==
    /\ scan.pc = u
    /\ greeted' = greeted \cup {<<u, YearOf(scan.day)>>}
    /\ UNCHANGED <<today, birthday, notifyOn, globalOn, events, bookedBy, history, scan, gift, cut>>

\* The send_status of _process_user.
StatusAfter(outcome) ==
    CASE outcome = "sent" -> "sent"
      [] outcome \in {"blocked", "stopped"} -> "blocked"
      [] OTHER -> "failed"

\* _disable_user_notifications, which swallows its own failure
SwitchedOff(u, outcome) ==
    \/ UNCHANGED notifyOn
    \/ /\ outcome \in {"blocked", "stopped"}
       /\ notifyOn' = [notifyOn EXCEPT ![u] = FALSE]

\* Mutant of SendDone: after a failure everything is as before the attempt.
SendDoneRetrying(u, outcome) ==
    LET y == YearOf(scan.day)
        failed == outcome \in {"failed", "rate_limited"} IN
    /\ scan.pc = u
    /\ outcome = "sent" => <<u, y>> \in greeted
    /\ outcome \in {"blocked", "stopped"} => <<u, y>> \notin greeted
    /\ history' = MarkResult(history, u, y, IF failed THEN NoRow ELSE outcome)
    /\ SwitchedOff(u, outcome)
    /\ SetEvent(u, y, IF failed THEN NoEvent ELSE StatusAfter(outcome))
    /\ scan' = [scan EXCEPT !.pc = "users"]
    /\ UNCHANGED <<today, birthday, globalOn, bookedBy, greeted, gift, cut>>

SendDone(u, outcome) ==
    LET y == YearOf(scan.day) IN
    /\ scan.pc = u
    /\ outcome = "sent" => <<u, y>> \in greeted
    /\ outcome \in {"blocked", "stopped"} => <<u, y>> \notin greeted
    /\ history' = MarkResult(history, u, y, outcome)
    /\ SwitchedOff(u, outcome)
    /\ SetEvent(u, y, StatusAfter(outcome))
    /\ scan' = [scan EXCEPT !.pc = "users"]
    /\ UNCHANGED <<today, birthday, globalOn, bookedBy, greeted, gift, cut>>

\* The process dies between two commits of u's turn and is started again: the
\* scan and the clients' booking state, kept in memory, are gone, and the event
\* is what the commits so far have left.
Dies(u, left) ==
    LET y == YearOf(scan.day) IN
    /\ SetEvent(u, y, left)
    /\ cut' = cut \cup {<<u, y>>}
    /\ scan' = Idle
    /\ gift' = NoGifts

\* A statement of u's turn raises: the except clause marks the event failed, or
\* raises as well; run_birthday_scan goes on with the next user.
Raises(u, left) ==
    LET y == YearOf(scan.day) IN
    /\ \E status \in {left, "failed"} : SetEvent(u, y, status)
    /\ cut' = cut \cup {<<u, y>>}
    /\ NextUser(u, "users")
    /\ UNCHANGED gift

\* The turn is cut after create_event, with or without the row of a user who is
\* not to be sent anything.
CutBeforeSend(u) ==
    LET y == YearOf(scan.day) IN
    /\ scan.pc = "users"
    /\ u \in scan.queue
    /\ Wanted(u)
    /\ \/ UNCHANGED history
       \/ ~ globalOn /\ history' = MarkSkipped(history, u, y)
    /\ Dies(u, "pending") \/ Raises(u, "pending")
    /\ UNCHANGED <<today, birthday, notifyOn, globalOn, bookedBy, greeted>>

\* The UPDATE of the row raises, which leaves it pending.
SendRaises(u) ==
    /\ scan.pc = u
    /\ Raises(u, events[u][YearOf(scan.day)])
    /\ UNCHANGED <<today, birthday, notifyOn, globalOn, bookedBy, history, greeted>>

\* The turn is cut after the row was updated, before the event is.
CutAfterSend(u, outcome) ==
    LET y == YearOf(scan.day) IN
    /\ scan.pc = u
    /\ outcome = "sent" => <<u, y>> \in greeted
    /\ outcome \in {"blocked", "stopped"} => <<u, y>> \notin greeted
    /\ history' = MarkResult(history, u, y, outcome)
    /\ SwitchedOff(u, outcome)
    /\ Dies(u, events[u][y]) \/ Raises(u, events[u][y])
    /\ UNCHANGED <<today, birthday, globalOn, bookedBy, greeted>>

EndScan ==
    /\ scan.pc = "users"
    /\ scan.queue = {}
    /\ scan' = Idle
    /\ UNCHANGED <<today, birthday, notifyOn, globalOn, events, bookedBy, history,
                   greeted, gift, cut>>

\* Shutdown or death of the process at any other moment, and its restart
Crash ==
    /\ scan' = Idle
    /\ gift' = NoGifts
    /\ UNCHANGED <<today, birthday, notifyOn, globalOn, events, bookedBy, history, greeted, cut>>

-----------------------------------------------------------------------------
(* The button of the greeting *)

\* Mutant of Tap: whose greeting it is is not looked at.
TapByAnyone(v, u, y) ==
    /\ <<u, y>> \in greeted
    /\ SetEvent(u, y, "clicked_booking")
    /\ gift' = [gift EXCEPT ![v] = <<u, y>>]
    /\ UNCHANGED <<today, birthday, notifyOn, globalOn, bookedBy, history, scan, greeted, cut>>

\* handle_birthday_booking_start: v taps the button of the greeting u got for
\* year y (a message can be forwarded); only u may use it.
Tap(v, u, y) ==
    /\ <<u, y>> \in greeted
    /\ u = v
    /\ SetEvent(u, y, "clicked_booking")
    /\ gift' = [gift EXCEPT ![v] = <<u, y>>]
    /\ UNCHANGED <<today, birthday, notifyOn, globalOn, bookedBy, history, scan, greeted, cut>>

\* The booking begun with the button is created; birthday_event_id stays.
BookGift(v) ==
    LET u == gift[v][1]
        y == gift[v][2] IN
    /\ gift[v] # <<>>
    /\ SetEvent(u, y, "booked_from_birthday_gift")
    /\ bookedBy' = [bookedBy EXCEPT ![u][y] = v]
    /\ UNCHANGED <<today, birthday, notifyOn, globalOn, history, scan, greeted, gift, cut>>

\* _clear_booking_state: the client goes home or starts another booking.
LeaveBooking(v) ==
    /\ gift[v] # <<>>
    /\ gift' = [gift EXCEPT ![v] = <<>>]
    /\ UNCHANGED <<today, birthday, notifyOn, globalOn, events, bookedBy, history,
                   scan, greeted, cut>>

-----------------------------------------------------------------------------
(* The world *)

NewDay ==
    /\ today < LastDay
    /\ today' = today + 1
    /\ UNCHANGED <<birthday, notifyOn, globalOn, events, bookedBy, history,
                   scan, greeted, gift, cut>>

EditBirthday(u, d) ==
    /\ d # birthday[u]
    /\ birthday' = [birthday EXCEPT ![u] = d]
    /\ UNCHANGED <<today, notifyOn, globalOn, events, bookedBy, history, scan, greeted, gift, cut>>

\* Another message of the bot found the user unreachable.
SwitchOff(u) ==
    /\ notifyOn[u]
    /\ notifyOn' = [notifyOn EXCEPT ![u] = FALSE]
    /\ UNCHANGED <<today, birthday, globalOn, events, bookedBy, history, scan, greeted, gift, cut>>

ToggleGlobal ==
    /\ globalOn' = ~ globalOn
    /\ UNCHANGED <<today, birthday, notifyOn, events, bookedBy, history, scan, greeted, gift, cut>>

Next ==
    \/ BeginScan \/ EndScan \/ Crash \/ NewDay \/ ToggleGlobal
    \/ \E u \in Users :
          \/ PassOver(u) \/ GloballyOff(u) \/ Reserved(u) \/ NotReserved(u)
          \/ Arrives(u) \/ SendRaises(u) \/ CutBeforeSend(u)
          \/ \E outcome \in Outcomes : SendDone(u, outcome) \/ CutAfterSend(u, outcome)
          \/ BookGift(u) \/ LeaveBooking(u) \/ SwitchOff(u)
          \/ \E d \in 0 .. YearDays - 1 : EditBirthday(u, d)
          \/ \E v \in Users, y \in Years : Tap(v, u, y)

Spec == Init /\ [][Next]_vars

-----------------------------------------------------------------------------
(* Properties *)

InFlight(u, y) == scan.pc = u /\ YearOf(scan.day) = y

Attempted(u, y) == events[u][y] # NoEvent \/ <<u, y>> \in greeted

\* Once a greeting was attempted, no later scan, restart, tap, new day or
\* edited birthday makes the bot send that user that year's greeting again.
OneAttemptPerYear ==
    [][\A u \in Users, y \in Years :
          Attempted(u, y) /\ ~ InFlight(u, y) => ~ InFlight(u, y)']_vars

\* The events that go with a row of notification_history
EventsFor(row) ==
    CASE row = NoRow -> {NoEvent, "failed"}
      [] row \in {"pending", "skipped"} -> {row}
      [] OTHER -> {StatusAfter(row)}

\* The two tables tell one story: the event says of each greeting what its row
\* says, or that its button was used.  A turn cut between two commits may leave
\* the event pending or failed instead, and nothing else: no death or error makes
\* an event claim a result the row does not have.
EventsAgreeWithHistory ==
    \A u \in Users, y \in Years :
        LET e == events[u][y]
            h == history[u][y] IN
        \/ e \in EventsFor(h)
        \/ e \in ButtonStatuses /\ h \in ClaimedStatuses
        \/ e \in {"pending", "failed"} /\ <<u, y>> \in cut

\* A gift is booked by the client it was given to.
GiftGoesToItsOwner ==
    \A u \in Users, y \in Years :
        bookedBy[u][y] # Nobody => bookedBy[u][y] = u /\ <<u, y>> \in greeted

\* "Send due birthday messages once per user per birthday year": as long as no
\* turn was cut, an event that is settled has its user's own row behind it.
EveryDueUserServed ==
    cut = {} => \A u \in Users, y \in Years :
                    events[u][y] \notin {NoEvent, "pending"} => history[u][y] # NoRow

-----------------------------------------------------------------------------
(* The promise of the delivery protocol, which the scans keep *)

Claims == [y \in Years |-> ClaimOf(history, y)]
Copies == [u \in Users |-> [y \in Years |-> IF <<u, y>> \in greeted THEN 1 ELSE 0]]

Promise == INSTANCE OnceOnlyDelivery WITH MaxCopies <- 1, claim <- Claims, copies <- Copies

\* A year's greeting is decided once: it goes to one user, or to nobody.
PromiseSpec == Promise!Spec
=============================================================================
