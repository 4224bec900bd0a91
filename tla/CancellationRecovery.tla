------------------------ MODULE CancellationRecovery ------------------------
(***************************************************************************)
(* services/cancellation_recovery.py with                                  *)
(* repositories/cancellation_recovery_events.py and the buttons of the     *)
(* message (flows/booking.py), for one client.                             *)
(*                                                                         *)
(* A cancellation in My Bookings leaves an event for the cancelled record. *)
(* After the delay the loop takes it up: it asks YClients whether the      *)
(* client has a future booking, and if not hands the offer to              *)
(* send_business_notification under the cancelled record's id.  The event  *)
(* and the row of notification_history are two tables, updated one after   *)
(* the other.  The client's bookings change as ClientBookings says.        *)
(***************************************************************************)
EXTENDS Naturals, FiniteSets

CONSTANTS
    Client,
    Records,
    First,      \* the bookings at the start
    Crashes,    \* bound: deaths of the process
    Nothing

ASSUME RecoveryAssumption ==
    /\ First \subseteq Records /\ Nothing \notin Records
    /\ Crashes \in Nat

Store == INSTANCE NotificationStore WITH Users <- {Client}, Keys <- Records

VARIABLES
    live,       \* YClients: the future bookings of the client
    fresh,      \* record ids not given yet
    event,      \* cancellation_recovery_events: the status of the record's event
    due,        \* ... whose scheduled_at has passed
    history,    \* notification_history
    notifyOn,   \* users.notifications_enabled
    globalOn,   \* app_settings.notifications_enabled
    poll,       \* process_due_cancellation_recovery_events
    copies,     \* how many sends of the record's offer were begun (observation)
    offered,    \* the offers the client has received
    crashes     \* deaths of the process so far

world == <<live, fresh, crashes>>
vars == <<world, event, due, history, notifyOn, globalOn, poll, copies, offered>>

\* The records put up for recovery are those with an event.
Bookings == INSTANCE ClientBookings WITH recovering <- {r \in Records : event[r] # "none"}

Clicked == {"clicked_later", "clicked_rebook"}

EventStatuses ==
    {"none", "pending", "sent", "failed", "blocked", "rate_limited", "skipped",
     "skipped_has_new_booking"} \cup Clicked

IdlePoll == [pc |-> "idle", queue |-> {}, rec |-> Nothing]
Polls == [pc : {"idle", "events", "check", "send"}, queue : SUBSET Records,
          rec : Records \cup {Nothing}]

TypeOK ==
    /\ live \subseteq Records /\ fresh \subseteq Records
    /\ crashes \in 0 .. Crashes
    /\ event \in [Records -> EventStatuses]
    /\ due \subseteq Records
    /\ history \in Store!Tables
    /\ notifyOn \in BOOLEAN /\ globalOn \in BOOLEAN
    /\ poll \in Polls
    /\ copies \in [Records -> 0 .. 2]
    /\ offered \subseteq Records

Init ==
    /\ live = First /\ fresh = Records \ First
    /\ crashes = 0
    /\ event = [r \in Records |-> "none"]
    /\ due = {}
    /\ history = Store!EmptyTable
    /\ notifyOn = TRUE /\ globalOn = TRUE
    /\ poll = IdlePoll
    /\ copies = [r \in Records |-> 0]
    /\ offered = {}

Row(r) == history[Client][r]

\* repository.set_status: an UPDATE by id, whatever the status was.
SetEvent(r, status) == event' = [event EXCEPT ![r] = status]

-----------------------------------------------------------------------------
(* The loop *)

\* The pending events that are due, listed once for the whole batch
BeginPoll ==
    /\ poll.pc = "idle"
    /\ poll' = [IdlePoll EXCEPT !.pc = "events",
                                !.queue = {r \in due : event[r] = "pending"}]
    /\ UNCHANGED <<world, event, due, history, notifyOn, globalOn, copies, offered>>

Taken(r) == poll.pc = "events" /\ r \in poll.queue
After(r) == poll' = [poll EXCEPT !.pc = "events", !.queue = @ \ {r}, !.rec = Nothing]

\* _skip
Skip(r, status) ==
    /\ SetEvent(r, status)
    /\ history' = Store!MarkSkipped(history, Client, r)

\* An earlier message of any kind, or the row itself, found the client unreachable.
TakeUnreachable(r) ==
    /\ Taken(r)
    /\ \/ ~ notifyOn /\ Skip(r, "failed")
       \/ notifyOn /\ Row(r) \in {"blocked", "stopped"} /\ Skip(r, "skipped")
    /\ After(r)
    /\ UNCHANGED <<world, due, notifyOn, globalOn, copies, offered>>

\* _has_future_booking asks YClients.
Take(r) ==
    /\ Taken(r)
    /\ notifyOn /\ Row(r) \notin {"blocked", "stopped"}
    /\ poll' = [poll EXCEPT !.pc = "check", !.rec = r]
    /\ UNCHANGED <<world, event, due, history, notifyOn, globalOn, copies, offered>>

CheckFails(r) ==
    /\ poll.pc = "check" /\ poll.rec = r
    /\ SetEvent(r, "failed")
    /\ After(r)
    /\ UNCHANGED <<world, due, history, notifyOn, globalOn, copies, offered>>

\* _has_future_booking finds a booking.  It says no when none is left, and also when
\* it finds no profile to look under, so that no guard on live stands below.
HasBooking(r) ==
    /\ poll.pc = "check" /\ poll.rec = r
    /\ live # {}
    /\ Skip(r, "skipped_has_new_booking")
    /\ After(r)
    /\ UNCHANGED <<world, due, notifyOn, globalOn, copies, offered>>

\* Mutant of StatusOf: a row that is reserved counts as sent.
StatusReservedIsSent(row) ==
    CASE row = "pending" -> "sent" [] row = "stopped" -> "skipped" [] OTHER -> row

\* status = history.status: a stopped recipient's row is 'skipped'.
StatusOf(row) == IF row = "stopped" THEN "skipped" ELSE row

\* Mutant of NotSent: what was not sent is left for another poll.
NotSentStaysPending(r) ==
    /\ poll.pc = "check" /\ poll.rec = r
    /\ \/ ~ globalOn /\ history' = Store!MarkSkipped(history, Client, r)
       \/ globalOn /\ ~ Store!CanReserve(history, r) /\ UNCHANGED history
    /\ SetEvent(r, "pending")
    /\ After(r)
    /\ UNCHANGED <<world, due, notifyOn, globalOn, copies, offered>>

\* send_business_notification returns at once: notifications are switched off,
\* or the record's row exists.  The event gets the status of the row.
NotSent(r) ==
    /\ poll.pc = "check" /\ poll.rec = r
    /\ \/ ~ globalOn /\ history' = Store!MarkSkipped(history, Client, r)
       \/ globalOn /\ ~ Store!CanReserve(history, r) /\ UNCHANGED history
    /\ SetEvent(r, StatusOf(history'[Client][r]))
    /\ After(r)
    /\ UNCHANGED <<world, due, notifyOn, globalOn, copies, offered>>

\* Mutant of Reserved: the message is sent whether or not the row existed.
ReservedUnchecked(r) ==
    /\ poll.pc = "check" /\ poll.rec = r
    /\ globalOn
    /\ history' = Store!Reserve(history, Client, r)
    /\ copies' = [copies EXCEPT ![r] = IF @ < 2 THEN @ + 1 ELSE @]
    /\ poll' = [poll EXCEPT !.pc = "send"]
    /\ UNCHANGED <<world, event, due, notifyOn, globalOn, offered>>

\* The row is reserved and the sender is called.
Reserved(r) ==
    /\ poll.pc = "check" /\ poll.rec = r
    /\ globalOn
    /\ Store!CanReserve(history, r)
    /\ history' = Store!Reserve(history, Client, r)
    /\ copies' = [copies EXCEPT ![r] = IF @ < 2 THEN @ + 1 ELSE @]
    /\ poll' = [poll EXCEPT !.pc = "send"]
    /\ UNCHANGED <<world, event, due, notifyOn, globalOn, offered>>

Arrives(r) ==
    /\ poll.pc = "send" /\ poll.rec = r /\ r \notin offered
    /\ offered' = offered \cup {r}
    /\ UNCHANGED <<world, event, due, history, notifyOn, globalOn, poll, copies>>

SendDone(r, outcome) ==
    /\ poll.pc = "send" /\ poll.rec = r
    /\ outcome = "sent" => r \in offered
    /\ outcome \in {"blocked", "stopped"} => r \notin offered
    /\ history' = Store!MarkResult(history, Client, r, outcome)
    /\ SetEvent(r, StatusOf(outcome))
    /\ notifyOn' = (notifyOn /\ outcome \notin {"blocked", "stopped"})
    /\ After(r)
    /\ UNCHANGED <<world, due, globalOn, copies, offered>>

\* Recording the result raises: the event is failed, the row stays pending.
SendRaises(r) ==
    /\ poll.pc = "send" /\ poll.rec = r
    /\ SetEvent(r, "failed")
    /\ After(r)
    /\ UNCHANGED <<world, due, history, notifyOn, globalOn, copies, offered>>

EndPoll ==
    /\ poll.pc = "events" /\ poll.queue = {}
    /\ poll' = IdlePoll
    /\ UNCHANGED <<world, event, due, history, notifyOn, globalOn, copies, offered>>

Polling ==
    \/ EndPoll
    \/ \E r \in Records :
          \/ TakeUnreachable(r) \/ Take(r) \/ CheckFails(r) \/ HasBooking(r)
          \/ NotSent(r) \/ Reserved(r) \/ SendRaises(r)
          \/ \E outcome \in Store!Outcomes : SendDone(r, outcome)

-----------------------------------------------------------------------------
(* The buttons, and the world *)

\* Mutant of CanClick: any event of the client.
CanClickEver(r) == r \in offered

\* handle_cancellation_recovery_booking_cta: the event's own client, and an
\* event that is sent or pending.
CanClick(r) == r \in offered /\ event[r] \in {"sent", "pending"}

Click(r, answer) ==
    /\ CanClick(r)
    /\ SetEvent(r, answer)
    /\ UNCHANGED <<world, due, history, notifyOn, globalOn, poll, copies, offered>>

BecomesDue(r) ==
    /\ event[r] # "none" /\ r \notin due
    /\ due' = due \cup {r}
    /\ UNCHANGED <<world, event, history, notifyOn, globalOn, poll, copies, offered>>

\* create_cancellation_recovery_event, called when the client's cancellation of a
\* booking has removed it.  An event of the record would be kept.
Cancelled(r) ==
    /\ event' = [event EXCEPT ![r] = IF @ = "none" THEN "pending" ELSE @]
    /\ Bookings!Cancel(r)
    /\ UNCHANGED <<crashes, due, history, notifyOn, globalOn, poll, copies, offered>>

\* A booking is made anywhere, or goes in any other way.
ElsewhereChanged(r) ==
    /\ UNCHANGED <<event, crashes, due, history, notifyOn, globalOn, poll, copies, offered>>
    /\ Bookings!Add(r) \/ Bookings!Remove(r)

Crash ==
    /\ crashes < Crashes /\ crashes' = crashes + 1
    /\ poll' = IdlePoll
    /\ UNCHANGED <<live, fresh, event, due, history, notifyOn, globalOn, copies, offered>>

\* Another message of the bot found the client unreachable.
SwitchOff ==
    /\ notifyOn /\ notifyOn' = FALSE
    /\ UNCHANGED <<world, event, due, history, globalOn, poll, copies, offered>>

ToggleGlobal ==
    /\ globalOn' = ~ globalOn
    /\ UNCHANGED <<world, event, due, history, notifyOn, poll, copies, offered>>

Next ==
    \/ BeginPoll \/ Polling \/ SwitchOff \/ ToggleGlobal \/ Crash
    \/ \E r \in Records : \/ Arrives(r) \/ BecomesDue(r) \/ Cancelled(r) \/ ElsewhereChanged(r)
                          \/ \E answer \in Clicked : Click(r, answer)

Spec == Init /\ [][Next]_vars

\* The loop is started anew after every poll, and its awaited requests end.
FairSpec == Spec /\ WF_vars(BeginPoll) /\ WF_vars(Polling)

-----------------------------------------------------------------------------
(* Properties *)

\* One cancellation produces at most one recovery message, through crashes,
\* repeated polls and a switch turned off and on.
OneOfferPerCancellation == \A r \in Records : copies[r] <= 1

\* The two tables agree: an event is 'sent' only if the history row is and the
\* client has the offer, and only an offer received has been answered.
EventsAreTrue ==
    \A r \in Records :
        /\ event[r] = "sent" => Row(r) = "sent"
        /\ event[r] \in {"sent"} \cup Clicked => r \in offered

\* A settled event is settled for good, but for the answer to a sent offer: no
\* poll that listed it before and no button of the chat reopens it.
SettledForGood ==
    [][\A r \in Records :
          event[r] \notin {"none", "pending"} \cup Clicked =>
              event'[r] \in {event[r]} \cup (IF event[r] = "sent" THEN Clicked ELSE {})]_vars

\* A due event is settled in the end, unless the process died after the row of
\* its message was reserved: then the row and the event stay pending.
DueEventsSettle ==
    \A r \in Records :
        r \in due /\ event[r] = "pending" ~> event[r] # "pending" \/ Row(r) = "pending"

-----------------------------------------------------------------------------
(* The promise of the delivery protocol, which the loop keeps *)

Claims == [r \in Records |-> Store!ClaimOf(history, r)]
Copies == [u \in {Client} |-> [r \in Records |-> IF r \in offered THEN 1 ELSE 0]]

Promise == INSTANCE OnceOnlyDelivery WITH
    Users <- {Client}, Keys <- Records, MaxCopies <- 1, claim <- Claims, copies <- Copies

\* A cancelled record's offer is decided once, and an offer that was decided
\* against, or not decided, does not reach the client.
PromiseSpec == Promise!Spec
=============================================================================
