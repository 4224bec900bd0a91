----------------------------- MODULE RepeatVisit -----------------------------
(***************************************************************************)
(* services/repeat_visit.py and repositories/repeat_visit_events.py: one   *)
(* client that stays away is invited to visit again.                       *)
(*                                                                         *)
(* A pass of the reminder loop asks the salon for the client's records and *)
(* records an event for the last completed visit; a later pass sends it    *)
(* through send_business_notification, under the record id of the visit,   *)
(* and asks the salon nothing.  The funnel is switched on, with its two    *)
(* rules (a booking ahead excludes, the interval is kept).  Visits are     *)
(* numbered.                                                               *)
(***************************************************************************)
EXTENDS Salon

CONSTANTS
    Delay,        \* delay_days
    Interval,     \* min_interval_hours, in days
    Stops         \* bound: deaths of the process or cancellations of the loop

ASSUME RepeatVisitAssumption == {Delay, Interval, Stops} \subseteq Nat

Client == "client"

Store == INSTANCE NotificationStore WITH Users <- {Client}, Keys <- Visits

VARIABLES
    globalOn,   \* app_settings.notifications_enabled
    history,    \* notification_history
    event,      \* repeat_visit_events: status, by visit
    sentOn,     \* ... sent_at
    pass,       \* process_due_repeat_visit_events
    invited,    \* copies of the invitation the client received (observation)
    stops

switches == <<notifyOn, globalOn>>
vars == <<day, salon, switches, history, event, sentOn, pass, invited, stops>>

IdlePass == [pc |-> "idle", day |-> 0, queue |-> {}, visit |-> 0]

EventStatuses == {"none", "pending", "sent", "blocked", "failed", "skipped_unsubscribed",
                  "clicked_booking"}

TypeOK ==
    /\ SalonTypeOK
    /\ globalOn \in BOOLEAN
    /\ history \in Store!Tables
    /\ event \in [Visits -> EventStatuses]
    /\ sentOn \in [Visits -> SomeDay]
    /\ pass \in [pc : {"idle", "asking", "events", "send", "arrived"}, day : Days,
                 queue : SUBSET Visits, visit : 0 .. Last]
    /\ invited \in [Visits -> Nat]
    /\ stops \in 0 .. Stops

Init ==
    /\ SalonInit
    /\ globalOn = TRUE
    /\ history = Store!EmptyTable
    /\ event = [v \in Visits |-> "none"] /\ sentOn = [v \in Visits |-> Never]
    /\ pass = IdlePass /\ invited = [v \in Visits |-> 0]
    /\ stops = 0

-----------------------------------------------------------------------------
(* The invitation *)

\* process_due_repeat_visit_events: the time is read first, and again when the
\* client's records are asked for.
BeginPass ==
    /\ pass.pc = "idle"
    /\ pass' = [IdlePass EXCEPT !.pc = "asking", !.day = day]
    /\ UNCHANGED <<day, salon, switches, history, event, sentOn, invited, stops>>

\* has_recent_sent
RecentlySent(now) == \E v \in Visits : sentOn[v] # Never /\ now - sentOn[v] <= Interval

\* Mutant of Away: the delay has to be over on this very day.
AwayExactly(v, now) == v = last /\ ~ booked /\ now - visitDay[v] = Delay

Away(v, now) == v = last /\ ~ booked /\ now - visitDay[v] >= Delay

\* has_event_for_visit
HasEvent(v) == event[v] \in {"pending", "sent", "clicked_booking", "blocked", "failed"}

\* schedule_repeat_visit_events: the last visit gets one event.
Invitable(v) ==
    /\ notifyOn /\ Away(v, pass.day)
    /\ ~ HasEvent(v)
    /\ ~ RecentlySent(pass.day)

\* The answer comes.  What is recorded now is due after the time of this pass;
\* find_due returns what an earlier pass left.
Answered ==
    /\ pass.pc = "asking"
    /\ event' = [v \in Visits |-> IF Invitable(v) THEN "pending" ELSE event[v]]
    /\ pass' = [pass EXCEPT !.pc = "events", !.queue = {v \in Visits : event[v] = "pending"}]
    /\ UNCHANGED <<day, salon, switches, history, sentOn, invited, stops>>

\* It does not come; due events are processed all the same.
NotAnswered ==
    /\ pass.pc = "asking"
    /\ pass' = [pass EXCEPT !.pc = "events", !.queue = {v \in Visits : event[v] = "pending"}]
    /\ UNCHANGED <<day, salon, switches, history, event, sentOn, invited, stops>>

Row(v) == history[Client][v]

\* mark_status
Marked(v, status) ==
    /\ event' = [event EXCEPT ![v] = status]
    /\ sentOn' = IF status = "sent" THEN [sentOn EXCEPT ![v] = day] ELSE sentOn
    /\ pass' = [pass EXCEPT !.pc = "events", !.queue = @ \ {v}, !.visit = 0]

Unsubscribed(v) ==
    /\ pass.pc = "events" /\ v \in pass.queue
    /\ ~ notifyOn
    /\ Marked(v, "skipped_unsubscribed")
    /\ UNCHANGED <<day, salon, switches, history, invited, stops>>

\* Mutant of StatusAfter: what was reserved counts as sent.
StatusReservedIsSent(row) ==
    CASE row \in {"sent", "pending"} -> "sent" [] row = "blocked" -> "blocked" [] OTHER -> "failed"

StatusAfter(row) == IF row \in {"sent", "blocked"} THEN row ELSE "failed"

\* send_business_notification returns at once: notifications are switched off,
\* or the visit's row exists.
NotSent(v) ==
    /\ pass.pc = "events" /\ v \in pass.queue
    /\ notifyOn
    /\ \/ ~ globalOn /\ history' = Store!MarkSkipped(history, Client, v)
       \/ globalOn /\ ~ Store!CanReserve(history, v) /\ UNCHANGED history
    /\ Marked(v, StatusAfter(history'[Client][v]))
    /\ UNCHANGED <<day, salon, switches, invited, stops>>

\* Mutant of Reserved: the message is sent whether or not the row existed.
ReservedUnchecked(v) ==
    /\ pass.pc = "events" /\ v \in pass.queue
    /\ notifyOn /\ globalOn
    /\ history' = Store!Reserve(history, Client, v)
    /\ pass' = [pass EXCEPT !.pc = "send", !.visit = v]
    /\ UNCHANGED <<day, salon, switches, event, sentOn, invited, stops>>

\* The row is reserved and the sender is called.
Reserved(v) ==
    /\ pass.pc = "events" /\ v \in pass.queue
    /\ notifyOn /\ globalOn
    /\ Store!CanReserve(history, v)
    /\ history' = Store!Reserve(history, Client, v)
    /\ pass' = [pass EXCEPT !.pc = "send", !.visit = v]
    /\ UNCHANGED <<day, salon, switches, event, sentOn, invited, stops>>

\* The client receives it; the answer to the bot is still to come.
Arrives(v) ==
    /\ pass.pc = "send" /\ pass.visit = v
    /\ invited' = [invited EXCEPT ![v] = @ + 1]
    /\ pass' = [pass EXCEPT !.pc = "arrived"]
    /\ UNCHANGED <<day, salon, switches, history, event, sentOn, stops>>

SendDone(v, outcome) ==
    /\ pass.pc \in {"send", "arrived"} /\ pass.visit = v
    /\ outcome = "sent" => pass.pc = "arrived"
    /\ outcome \in {"blocked", "stopped"} => pass.pc = "send"
    /\ history' = Store!MarkResult(history, Client, v, outcome)
    /\ Marked(v, StatusAfter(outcome))
    /\ notifyOn' = (notifyOn /\ outcome \notin {"blocked", "stopped"})
    /\ UNCHANGED <<day, salon, globalOn, invited, stops>>

\* Recording the result raises: the event is failed, the row stays pending.
SendRaises(v) ==
    /\ pass.pc \in {"send", "arrived"} /\ pass.visit = v
    /\ Marked(v, "failed")
    /\ UNCHANGED <<day, salon, switches, history, invited, stops>>

EndPass ==
    /\ pass.pc = "events" /\ pass.queue = {}
    /\ pass' = IdlePass
    /\ UNCHANGED <<day, salon, switches, history, event, sentOn, invited, stops>>

\* handle_repeat_visit_booking_start: the button of an invitation.
Click(v) ==
    /\ invited[v] > 0
    /\ event' = [event EXCEPT ![v] = "clicked_booking"]
    /\ UNCHANGED <<day, salon, switches, history, sentOn, pass, invited, stops>>

Passing ==
    \/ Answered \/ NotAnswered \/ EndPass
    \/ \E v \in Visits :
          \/ Unsubscribed(v) \/ NotSent(v) \/ Reserved(v) \/ SendRaises(v)
          \/ \E outcome \in Store!Outcomes : SendDone(v, outcome)

-----------------------------------------------------------------------------
(* The world *)

Meanwhile == World /\ UNCHANGED <<globalOn, history, event, sentOn, pass, invited, stops>>

ToggleGlobal ==
    /\ globalOn' = ~ globalOn
    /\ UNCHANGED <<day, salon, notifyOn, history, event, sentOn, pass, invited, stops>>

\* The process dies or its loop is cancelled, wherever it is.
Stop ==
    /\ stops < Stops /\ stops' = stops + 1
    /\ pass' = IdlePass
    /\ UNCHANGED <<day, salon, switches, history, event, sentOn, invited>>

Next ==
    \/ BeginPass \/ Passing \/ \E v \in Visits : Arrives(v) \/ Click(v)
    \/ Meanwhile \/ ToggleGlobal \/ Stop

Spec == Init /\ [][Next]_vars

\* The loop runs the passes and each of them ends; the salon answers some.
Fairness == WF_vars(BeginPass) /\ WF_vars(Passing) /\ SF_vars(Answered)

FairSpec == Spec /\ Fairness

-----------------------------------------------------------------------------
(* Properties *)

\* However often the passes stop, fail and start again, a visit brings the
\* client one invitation.
InvitedOnce == \A v \in Visits : invited[v] <= 1

\* The event, the row of the history and the client's chat tell one story.
EventsAreTrue ==
    \A v \in Visits :
        /\ event[v] = "none" => Row(v) = Store!NoRow
        /\ event[v] = "sent" => Row(v) = "sent"
        /\ Row(v) = "sent" => invited[v] > 0
        /\ event[v] = "blocked" => Row(v) = "blocked" /\ ~ notifyOn
        /\ event[v] = "failed" => Row(v) \notin {Store!NoRow, "sent", "blocked"}
        /\ event[v] = "clicked_booking" => invited[v] > 0

\* An invitation is on its way only for a visit that was the last one, Delay
\* days ago, when it was recorded.
InvitedAfterDelay ==
    \A v \in Visits :
        event[v] # "none" => /\ day - visitDay[v] >= Delay
                             /\ v < last => visitDay[v + 1] - visitDay[v] >= Delay

StaysAway(v) == v = last /\ ~ booked /\ day - visitDay[v] >= Delay

\* A client that stays away long enough is invited, or the event says why not.
AwayIsServed ==
    \A v \in Visits :
        StaysAway(v) ~> \/ event[v] \notin {"none", "pending"}
                        \/ ~ StaysAway(v) \/ ~ notifyOn \/ RecentlySent(day)

-----------------------------------------------------------------------------
(* The promise of the delivery protocol, which the passes keep *)

Claims == [v \in Visits |-> Store!ClaimOf(history, v)]
Copies == [u \in {Client} |-> invited]

Promise == INSTANCE OnceOnlyDelivery WITH
    Users <- {Client}, Keys <- Visits, MaxCopies <- 1, claim <- Claims, copies <- Copies

\* A visit's invitation is decided once; one copy reaches the client, if it was
\* decided for.
PromiseSpec == Promise!Spec
=============================================================================
