------------------------- MODULE ReturnFunnelsProofs -------------------------
(***************************************************************************)
(* The safety properties of the two funnels that ask a client to come      *)
(* back, RepeatVisit and LostClients, for every delay, interval, set of    *)
(* thresholds and bound.  Both look at the client and the salon of Salon.  *)
(*                                                                         *)
(* What a client is invited to hangs on the row of the visit: a row is     *)
(* reserved once, and only under an event.  LostClients reserves nothing:  *)
(* there every repetition is charged to a message that was not recorded.   *)
(***************************************************************************)
EXTENDS RepeatVisit, LostClients, FiniteSetTheorems, TLAPS

\* An event is about a visit that took place.
EventsOfVisits == \A v \in Visits : event[v] # "none" => v <= last

\* No invitation without a row; an unreachable client is switched off.
RowsBehind ==
    \A v \in Visits :
        /\ invited[v] > 0 => Row(v) # "none"
        /\ Row(v) \in {"blocked", "stopped"} => ~ notifyOn

\* What a pass works on.
Queued ==
    /\ pass.pc # "idle" => pass.day <= day
    /\ pass.pc = "asking" => pass.queue = {}
    /\ \A v \in pass.queue : event[v] \in {"pending", "clicked_booking"}

\* A row whose message is being sent is pending, and its event unsettled.
Sending ==
    pass.pc \in {"send", "arrived"} =>
        /\ pass.visit \in pass.queue
        /\ Row(pass.visit) = "pending"
        /\ IF pass.pc = "send" THEN invited[pass.visit] = 0 ELSE invited[pass.visit] > 0

\* The inductive invariant.
IInv ==
    /\ TypeOK /\ InvitedOnce /\ EventsAreTrue /\ InvitedAfterDelay
    /\ EventsOfVisits /\ RowsBehind /\ Queued /\ Sending

USE DEF Visits, Days, Never, SomeDay, SalonTypeOK, IdlePass, Store!NoRow

\* The constants are numbers.
LEMMA Numbers ==
    Delay \in Nat /\ Interval \in Nat /\ Last \in Nat /\ LastDay \in Nat /\ Stops \in Nat
  BY SalonAssumption, RepeatVisitAssumption

-----------------------------------------------------------------------------
(* The salon *)

\* Days go by, visits are added after those there are, and nobody but the client
\* switches notifications on again.
LEMMA SalonSteps ==
    ASSUME SalonTypeOK, World
    PROVE  /\ SalonTypeOK'
           /\ day <= day'
           /\ notifyOn' => notifyOn
           /\ \/ UNCHANGED <<last, visitDay>>
              \/ /\ last' = last + 1 /\ visitDay'[last'] = day /\ day' = day
                 /\ \A v \in 1 .. last : visitDay'[v] = visitDay[v]
<1> day \in Nat /\ last \in Nat
  BY Numbers
<1>1. CASE NewDay
  BY <1>1, Numbers DEF NewDay, salon
<1>2. CASE Book \/ Unbook
  <2>1. UNCHANGED <<day, last, visitDay, notifyOn>> /\ booked' \in BOOLEAN
    BY <1>2 DEF Book, Unbook
  <2>2. QED
    BY <2>1
<1>3. CASE SwitchOff
  <2>1. UNCHANGED <<day, last, visitDay, booked>> /\ notifyOn /\ notifyOn' = FALSE
    BY <1>3 DEF SwitchOff, salon
  <2>2. SalonTypeOK'
    BY <2>1
  <2>3. day <= day'
    BY <2>1
  <2>4. QED
    BY <2>1, <2>2, <2>3
<1>4. CASE Visit
  <2>1. last' \in 1 .. Last /\ last' = last + 1 /\ visitDay' \in [Visits -> SomeDay]
    BY <1>4, Numbers DEF Visit
  <2>2. visitDay'[last'] = day /\ \A v \in 1 .. last : visitDay'[v] = visitDay[v]
    BY <1>4, <2>1, Numbers DEF Visit
  <2>3. UNCHANGED <<day, notifyOn>> /\ booked' = FALSE
    BY <1>4 DEF Visit
  <2>4. QED
    <3>1. last' \in 0 .. Last /\ day' \in Days /\ notifyOn' \in BOOLEAN
      BY <2>1, <2>3, Numbers
    <3>2. SalonTypeOK'
      BY <2>1, <2>3, <3>1
    <3>3. day <= day' /\ (notifyOn' => notifyOn)
      BY <2>3
    <3>4. QED
      BY <2>1, <2>2, <2>3, <3>2, <3>3
<1>5. QED
  BY <1>1, <1>2, <1>3, <1>4 DEF World

-----------------------------------------------------------------------------
(* The client's rows *)

\* A visit's key is free exactly when the client has no row for it.
LEMMA ReservableRow ==
    ASSUME NEW v \in Visits
    PROVE  Store!CanReserve(history, v) <=> Row(v) = "none"
  BY DEF Store!CanReserve, Store!HasRowForKey, Row

\* INSERT OR IGNORE touches one row, and only if it does not exist.
LEMMA InsertRow ==
    ASSUME TypeOK, NEW v \in Visits, NEW status \in Store!Statuses,
           history' = Store!InsertOrIgnore(history, Client, v, status)
    PROVE  /\ history' \in Store!Tables
           /\ Row(v)' = IF Row(v) = "none" THEN status ELSE Row(v)
           /\ \A w \in Visits : w # v => Row(w)' = Row(w)
<1>1. history \in [{Client} -> [Visits -> Store!Statuses]]
  BY DEF TypeOK, Store!Tables
<1>2. QED
  BY <1>1 DEF Store!InsertOrIgnore, Store!Tables, Row

\* UPDATE ... WHERE id touches one row.
LEMMA UpdateRow ==
    ASSUME TypeOK, NEW v \in Visits, NEW status \in Store!Statuses,
           history' = Store!MarkResult(history, Client, v, status)
    PROVE  /\ history' \in Store!Tables
           /\ Row(v)' = status
           /\ \A w \in Visits : w # v => Row(w)' = Row(w)
<1>1. history \in [{Client} -> [Visits -> Store!Statuses]]
  BY DEF TypeOK, Store!Tables
<1>2. QED
  BY <1>1 DEF Store!MarkResult, Store!Tables, Row

\* mark_status settles one event and takes it off the queue.
LEMMA MarkedEvent ==
    ASSUME TypeOK, NEW v \in Visits, NEW status \in EventStatuses, Marked(v, status)
    PROVE  /\ event' \in [Visits -> EventStatuses]
           /\ event'[v] = status
           /\ \A w \in Visits : w # v => event'[w] = event[w]
           /\ sentOn' \in [Visits -> SomeDay]
           /\ pass'.pc = "events" /\ pass'.day = pass.day /\ pass'.queue = pass.queue \ {v}
           /\ pass' \in [pc : {"idle", "asking", "events", "send", "arrived"}, day : Days,
                          queue : SUBSET Visits, visit : 0 .. Last]
<1>1. pass' = [pass EXCEPT !.pc = "events", !.queue = @ \ {v}, !.visit = 0]
      /\ event' = [event EXCEPT ![v] = status]
  BY DEF Marked
<1>2. sentOn' \in [Visits -> SomeDay]
  BY DEF Marked, TypeOK
<1>3. event' \in [Visits -> EventStatuses] /\ event'[v] = status
      /\ \A w \in Visits : w # v => event'[w] = event[w]
  BY <1>1 DEF TypeOK
<1>4. pass' = [pc |-> "events", day |-> pass.day, queue |-> pass.queue \ {v}, visit |-> 0]
  BY <1>1 DEF TypeOK
<1>5. pass.day \in Days /\ pass.queue \ {v} \in SUBSET Visits /\ 0 \in 0 .. Last
  BY Numbers DEF TypeOK
<1>6. QED
  BY <1>2, <1>3, <1>4, <1>5

\* The end of an event keeps the inductive invariant when its status tells the
\* truth of its row.
LEMMA Settled ==
    ASSUME IInv, NEW v \in pass.queue, NEW status \in EventStatuses \ {"none", "clicked_booking"},
           Marked(v, status), history' \in Store!Tables,
           \A w \in Visits : w # v => Row(w)' = Row(w),
           status = "sent" => Row(v)' = "sent",
           status = "failed" => Row(v)' \notin {"none", "sent", "blocked"},
           status = "blocked" => Row(v)' = "blocked",
           Row(v)' = "sent" => invited[v] > 0,
           Row(v)' \in {"blocked", "stopped"} => ~ notifyOn',
           invited[v] > 0 => Row(v)' # "none",
           notifyOn' \in BOOLEAN, notifyOn' => notifyOn, pass.pc # "idle",
           UNCHANGED <<day, salon, globalOn, invited, stops>>
    PROVE  IInv'
<1>1. v \in Visits
  BY DEF IInv, TypeOK
<1>2. /\ event' \in [Visits -> EventStatuses] /\ event'[v] = status
      /\ \A w \in Visits : w # v => event'[w] = event[w]
      /\ sentOn' \in [Visits -> SomeDay]
      /\ pass'.pc = "events" /\ pass'.day = pass.day /\ pass'.queue = pass.queue \ {v}
      /\ pass' \in [pc : {"idle", "asking", "events", "send", "arrived"}, day : Days,
                     queue : SUBSET Visits, visit : 0 .. Last]
  BY <1>1, MarkedEvent DEF IInv
<1>3. UNCHANGED <<day, last, visitDay, booked, globalOn, invited, stops>>
  BY DEF salon
<1>4. TypeOK'
  BY <1>2, <1>3 DEF IInv, TypeOK
<1>5. event[v] # "none"
  BY DEF IInv, Queued
<1>6. InvitedOnce' /\ InvitedAfterDelay' /\ EventsOfVisits'
  BY <1>1, <1>2, <1>3, <1>5 DEF IInv, InvitedOnce, InvitedAfterDelay, EventsOfVisits
<1>7. RowsBehind'
  BY <1>1, <1>3 DEF IInv, RowsBehind
<1>8. Queued' /\ Sending'
  <2>1. Sending'
    BY <1>2 DEF Sending
  <2>2. pass'.day <= day'
    BY <1>2, <1>3 DEF IInv, Queued, Sending, TypeOK
  <2>3. \A w \in pass'.queue : w # v /\ w \in Visits /\ w \in pass.queue
    BY <1>2 DEF IInv, TypeOK
  <2>4. QED
    BY <1>2, <2>1, <2>2, <2>3 DEF IInv, Queued
<1>9. EventsAreTrue'
  <2> SUFFICES ASSUME NEW w \in Visits
               PROVE  /\ event'[w] = "none" => Row(w)' = "none"
                      /\ event'[w] = "sent" => Row(w)' = "sent"
                      /\ Row(w)' = "sent" => invited'[w] > 0
                      /\ event'[w] = "blocked" => Row(w)' = "blocked" /\ ~ notifyOn'
                      /\ event'[w] = "failed" => Row(w)' \notin {"none", "sent", "blocked"}
                      /\ event'[w] = "clicked_booking" => invited'[w] > 0
    BY DEF EventsAreTrue
  <2>1. CASE w = v
    BY <1>2, <1>3, <2>1
  <2>2. CASE w # v
    BY <1>2, <1>3, <2>2 DEF IInv, EventsAreTrue
  <2>3. QED
    BY <2>1, <2>2
<1>10. QED
  BY <1>4, <1>6, <1>7, <1>8, <1>9 DEF IInv

-----------------------------------------------------------------------------
(* The steps *)

\* What is said of events, rows and copies does not depend on the pass.
LEMMA SameEvents ==
    ASSUME IInv, TypeOK', Queued', Sending',
           UNCHANGED <<day, last, visitDay, notifyOn, history, event, invited>>
    PROVE  IInv'
  BY DEF IInv, InvitedOnce, EventsAreTrue, InvitedAfterDelay, EventsOfVisits, RowsBehind, Row

\* The beginning and the end of a pass, and what it learns from the salon
LEMMA PassStep ==
    ASSUME IInv, BeginPass \/ Answered \/ NotAnswered \/ EndPass \/ Stop
    PROVE  IInv'
<1> DEFINE Passes == [pc : {"idle", "asking", "events", "send", "arrived"}, day : Days,
                     queue : SUBSET Visits, visit : 0 .. Last]
           Pending == {v \in Visits : event[v] = "pending"}
<1>1. UNCHANGED <<day, last, visitDay, booked, notifyOn, globalOn, history, sentOn, invited>>
  BY DEF BeginPass, Answered, NotAnswered, EndPass, Stop, salon, switches
<1>2. CASE BeginPass
  <2>1. /\ pass' = [pc |-> "asking", day |-> day, queue |-> {}, visit |-> 0]
        /\ UNCHANGED <<event, stops>>
    BY <1>2 DEF BeginPass
  <2>2. pass' \in Passes
    BY <2>1, Numbers DEF IInv, TypeOK
  <2>3. Queued' /\ Sending'
    BY <1>1, <2>1 DEF IInv, TypeOK, Queued, Sending
  <2>4. TypeOK'
    BY <1>1, <2>1, <2>2 DEF IInv, TypeOK
  <2>5. QED
    BY <1>1, <2>1, <2>3, <2>4, SameEvents
<1>3. CASE NotAnswered
  <2>1. /\ pass.pc = "asking" /\ pass' = [pass EXCEPT !.pc = "events", !.queue = Pending]
        /\ UNCHANGED <<event, stops>>
    BY <1>3 DEF NotAnswered
  <2>2. /\ pass' \in Passes /\ pass'.pc = "events" /\ pass'.day = pass.day
        /\ pass'.queue = Pending
    BY <2>1 DEF IInv, TypeOK
  <2>3. Queued' /\ Sending'
    BY <1>1, <2>1, <2>2 DEF IInv, Queued, Sending
  <2>4. TypeOK'
    BY <1>1, <2>1, <2>2 DEF IInv, TypeOK
  <2>5. QED
    BY <1>1, <2>1, <2>3, <2>4, SameEvents
<1>4. CASE EndPass \/ Stop
  <2>1. pass' = IdlePass /\ event' = event
    BY <1>4 DEF EndPass, Stop
  <2>2. pass' \in Passes /\ pass'.pc = "idle" /\ pass'.queue = {}
    BY <2>1, Numbers
  <2>3. stops' \in 0 .. Stops
    BY <1>4, Numbers DEF EndPass, Stop, IInv, TypeOK
  <2>4. Queued' /\ Sending'
    BY <2>2 DEF Queued, Sending
  <2>5. TypeOK'
    BY <1>1, <2>1, <2>2, <2>3 DEF IInv, TypeOK
  <2>6. QED
    BY <1>1, <2>1, <2>4, <2>5, SameEvents
<1>5. CASE Answered
  <2>1. /\ pass.pc = "asking" /\ pass' = [pass EXCEPT !.pc = "events", !.queue = Pending]
        /\ event' = [v \in Visits |-> IF Invitable(v) THEN "pending" ELSE event[v]]
    BY <1>5 DEF Answered
  <2>2. event' \in [Visits -> EventStatuses]
    BY <2>1 DEF IInv, TypeOK, EventStatuses
  <2>3. /\ pass' \in Passes /\ pass'.pc = "events" /\ pass'.day = pass.day
        /\ pass'.queue = Pending /\ stops' = stops
    BY <1>5, <2>1 DEF Answered, IInv, TypeOK
  <2>4. \A v \in Visits : event'[v] = event[v] \/ (event'[v] = "pending" /\ Invitable(v))
    BY <2>1
  <2>5. InvitedOnce' /\ RowsBehind'
    BY <1>1 DEF IInv, InvitedOnce, RowsBehind, Row
  <2>6. EventsAreTrue'
    BY <1>1, <2>4 DEF IInv, EventsAreTrue, Row
  <2>7. \A v \in Visits : Invitable(v) => v = last /\ day - visitDay[v] >= Delay
    <3> SUFFICES ASSUME NEW v \in Visits, Invitable(v)
                 PROVE  v = last /\ day - visitDay[v] >= Delay
      OBVIOUS
    <3>1. v = last /\ pass.day - visitDay[v] >= Delay
      BY DEF Invitable, Away
    <3>2. pass.day <= day
      BY <2>1 DEF IInv, Queued
    <3>3. pass.day \in Int /\ day \in Int /\ visitDay[v] \in Int
      BY DEF IInv, TypeOK
    <3>4. QED
      BY <3>1, <3>2, <3>3, Numbers
  <2>8. InvitedAfterDelay' /\ EventsOfVisits'
    <3> SUFFICES ASSUME NEW v \in Visits, event'[v] # "none"
                 PROVE  /\ day' - visitDay'[v] >= Delay
                        /\ v < last' => visitDay'[v + 1] - visitDay'[v] >= Delay
                        /\ v <= last'
      BY DEF InvitedAfterDelay, EventsOfVisits
    <3>1. CASE event[v] # "none"
      BY <1>1, <3>1 DEF IInv, InvitedAfterDelay, EventsOfVisits
    <3>2. CASE event[v] = "none"
      BY <1>1, <2>4, <2>7, <3>2 DEF IInv, TypeOK
    <3>3. QED
      BY <3>1, <3>2
  <2>9. Queued'
    <3>1. \A v \in Pending : event'[v] = "pending"
      BY <2>4
    <3>2. QED
      BY <1>1, <2>1, <2>3, <3>1 DEF IInv, Queued
  <2>10. TypeOK' /\ Sending'
    BY <1>1, <2>2, <2>3 DEF IInv, TypeOK, Sending
  <2>11. QED
    BY <2>5, <2>6, <2>8, <2>9, <2>10 DEF IInv
<1>6. QED
  BY <1>2, <1>3, <1>4, <1>5

\* What ends an event without a send, or with one
LEMMA SettleStep ==
    ASSUME IInv, NEW v \in Visits,
           \/ Unsubscribed(v) \/ NotSent(v) \/ SendRaises(v)
           \/ \E outcome \in Store!Outcomes : SendDone(v, outcome)
    PROVE  IInv'
<1> USE DEF EventStatuses
<1>1. CASE Unsubscribed(v)
  <2>1. /\ v \in pass.queue /\ pass.pc = "events" /\ ~ notifyOn
        /\ Marked(v, "skipped_unsubscribed")
        /\ UNCHANGED <<day, salon, switches, history, invited, stops>>
    BY <1>1 DEF Unsubscribed
  <2>2. UNCHANGED <<notifyOn, globalOn>> /\ \A w \in Visits : Row(w)' = Row(w)
    BY <2>1 DEF switches, Row
  <2>3. /\ history' \in Store!Tables /\ notifyOn' \in BOOLEAN
        /\ Row(v) = "sent" => invited[v] > 0
        /\ Row(v) \in {"blocked", "stopped"} => ~ notifyOn
        /\ invited[v] > 0 => Row(v) # "none"
    BY <2>1, <2>2 DEF IInv, TypeOK, EventsAreTrue, RowsBehind
  <2>4. QED
    BY <2>1, <2>2, <2>3, Settled
<1>2. CASE NotSent(v)
  <2>1. /\ v \in pass.queue /\ pass.pc = "events" /\ notifyOn
        /\ Marked(v, StatusAfter(Row(v)'))
        /\ UNCHANGED <<day, salon, switches, invited, stops>>
    BY <1>2 DEF NotSent, Row
  <2>2. UNCHANGED <<notifyOn, globalOn>>
    BY <2>1 DEF switches
  <2>3. /\ history' \in Store!Tables
        /\ \A w \in Visits : w # v => Row(w)' = Row(w)
        /\ Row(v)' = IF Row(v) = "none" THEN "skipped" ELSE Row(v)
    <3>1. CASE history' = Store!MarkSkipped(history, Client, v)
      <4>1. history' = Store!InsertOrIgnore(history, Client, v, "skipped")
        BY <3>1 DEF Store!MarkSkipped
      <4>2. "skipped" \in Store!Statuses
        BY DEF Store!Statuses
      <4>3. QED
        BY <4>1, <4>2, InsertRow DEF IInv
    <3>2. CASE ~ Store!CanReserve(history, v) /\ history' = history
      BY <3>2, ReservableRow DEF IInv, TypeOK, Row
    <3>3. QED
      BY <1>2, <3>1, <3>2 DEF NotSent
  <2>4. /\ Row(v) = "sent" => invited[v] > 0
        /\ Row(v) \notin {"blocked", "stopped"}
    BY <2>1 DEF IInv, EventsAreTrue, RowsBehind
  <2>5. StatusAfter(Row(v)') = IF Row(v)' = "sent" THEN "sent" ELSE "failed"
    BY <2>3, <2>4 DEF StatusAfter
  <2>6. notifyOn' \in BOOLEAN
    BY <2>2 DEF IInv, TypeOK
  <2>7. QED
    BY <2>1, <2>2, <2>3, <2>4, <2>5, <2>6, Settled
<1>3. CASE SendRaises(v)
  <2>1. /\ v = pass.visit /\ pass.pc \in {"send", "arrived"} /\ Marked(v, "failed")
        /\ UNCHANGED <<day, salon, switches, history, invited, stops>>
    BY <1>3 DEF SendRaises
  <2>2. UNCHANGED <<notifyOn, globalOn>> /\ \A w \in Visits : Row(w)' = Row(w)
    BY <2>1 DEF switches, Row
  <2>3. /\ history' \in Store!Tables /\ notifyOn' \in BOOLEAN
        /\ v \in pass.queue /\ Row(v) = "pending"
    BY <2>1, <2>2 DEF IInv, TypeOK, Sending
  <2>4. QED
    BY <2>1, <2>2, <2>3, Settled
<1>4. ASSUME NEW outcome \in Store!Outcomes, SendDone(v, outcome) PROVE IInv'
  <2>1. /\ v = pass.visit /\ pass.pc \in {"send", "arrived"}
        /\ outcome = "sent" => pass.pc = "arrived"
        /\ history' = Store!MarkResult(history, Client, v, outcome)
        /\ Marked(v, StatusAfter(outcome))
        /\ notifyOn' = (notifyOn /\ outcome \notin {"blocked", "stopped"})
        /\ UNCHANGED <<day, salon, globalOn, invited, stops>>
    BY <1>4 DEF SendDone
  <2>2. v \in pass.queue /\ (pass.pc = "arrived" => invited[v] > 0)
    BY <2>1 DEF IInv, Sending
  <2>3. outcome \in Store!Statuses /\ outcome # "none"
    BY DEF Store!Statuses, Store!Outcomes
  <2>4. /\ history' \in Store!Tables /\ Row(v)' = outcome
        /\ \A w \in Visits : w # v => Row(w)' = Row(w)
    BY <2>1, <2>3, UpdateRow DEF IInv
  <2>5. /\ StatusAfter(outcome) \in {"sent", "blocked", "failed"}
        /\ StatusAfter(outcome) = "sent" <=> outcome = "sent"
        /\ StatusAfter(outcome) = "blocked" <=> outcome = "blocked"
    BY DEF StatusAfter
  <2>6. /\ notifyOn' \in BOOLEAN /\ (notifyOn' => notifyOn)
        /\ outcome \in {"blocked", "stopped"} => ~ notifyOn'
    BY <2>1 DEF IInv, TypeOK
  <2>7. QED
    BY <2>1, <2>2, <2>3, <2>4, <2>5, <2>6, Settled
<1>5. QED
  BY <1>1, <1>2, <1>3, <1>4

\* A message is sent under a row of its own, to a client that has none of it.
LEMMA ReservedStep ==
    ASSUME IInv, NEW v \in Visits, Reserved(v)
    PROVE  IInv'
<1>1. /\ v \in pass.queue /\ pass.pc = "events" /\ Row(v) = "none"
      /\ history' = Store!InsertOrIgnore(history, Client, v, "pending")
      /\ pass' = [pass EXCEPT !.pc = "send", !.visit = v]
      /\ UNCHANGED <<day, salon, notifyOn, globalOn, event, sentOn, invited, stops>>
  BY ReservableRow DEF Reserved, Store!Reserve, switches
<1>2. "pending" \in Store!Statuses
  BY DEF Store!Statuses
<1>3. /\ history' \in Store!Tables /\ Row(v)' = "pending"
      /\ \A w \in Visits : w # v => Row(w)' = Row(w)
  BY <1>1, <1>2, InsertRow DEF IInv
<1>4. /\ pass' = [pc |-> "send", day |-> pass.day, queue |-> pass.queue, visit |-> v]
      /\ pass.day \in Days /\ pass.queue \subseteq Visits /\ v \in 0 .. Last
  <2>1. pass' = [pc |-> "send", day |-> pass.day, queue |-> pass.queue, visit |-> v]
    BY <1>1 DEF IInv, TypeOK
  <2>2. pass.day \in Days /\ pass.queue \subseteq Visits
    BY DEF IInv, TypeOK
  <2>3. v \in 0 .. Last
    BY Numbers
  <2>4. QED
    BY <2>1, <2>2, <2>3
<1>5. pass' \in [pc : {"idle", "asking", "events", "send", "arrived"}, day : Days,
                 queue : SUBSET Visits, visit : 0 .. Last]
  BY <1>4
<1>6. UNCHANGED <<day, last, visitDay, booked>>
  BY <1>1 DEF salon
<1>7. TypeOK'
  BY <1>1, <1>3, <1>5, <1>6 DEF IInv, TypeOK
<1>8. InvitedOnce' /\ InvitedAfterDelay' /\ EventsOfVisits'
  BY <1>1, <1>6 DEF IInv, InvitedOnce, InvitedAfterDelay, EventsOfVisits
<1>9. invited[v] = 0 /\ event[v] \in {"pending", "clicked_booking"}
  BY <1>1 DEF IInv, TypeOK, RowsBehind, Queued
<1>10. EventsAreTrue' /\ RowsBehind'
  BY <1>1, <1>3, <1>9 DEF IInv, EventsAreTrue, RowsBehind
<1>11. Queued' /\ Sending'
  BY <1>1, <1>3, <1>4, <1>6, <1>9 DEF IInv, Queued, Sending
<1>12. QED
  BY <1>7, <1>8, <1>10, <1>11 DEF IInv

\* It arrives once.
LEMMA ArrivesStep ==
    ASSUME IInv, NEW v \in Visits, Arrives(v)
    PROVE  IInv'
<1>1. /\ pass.visit = v /\ pass.pc = "send"
      /\ invited' = [invited EXCEPT ![v] = @ + 1]
      /\ pass' = [pass EXCEPT !.pc = "arrived"]
      /\ UNCHANGED <<day, salon, notifyOn, globalOn, history, event, sentOn, stops>>
  BY DEF Arrives, switches
<1>2. Row(v) = "pending" /\ v \in pass.queue /\ invited[v] = 0
  BY <1>1 DEF IInv, Sending
<1>3. /\ invited' \in [Visits -> Nat] /\ invited'[v] = 1
      /\ \A w \in Visits : w # v => invited'[w] = invited[w]
  BY <1>1, <1>2 DEF IInv, TypeOK
<1>4. /\ pass' \in [pc : {"idle", "asking", "events", "send", "arrived"}, day : Days,
                    queue : SUBSET Visits, visit : 0 .. Last]
      /\ pass'.pc = "arrived" /\ pass'.visit = v /\ pass'.day = pass.day
      /\ pass'.queue = pass.queue
  BY <1>1 DEF IInv, TypeOK
<1>5. UNCHANGED <<day, last, visitDay, booked>> /\ \A w \in Visits : Row(w)' = Row(w)
  BY <1>1 DEF salon, Row
<1>6. TypeOK'
  BY <1>1, <1>3, <1>4, <1>5 DEF IInv, TypeOK
<1>7. InvitedOnce' /\ InvitedAfterDelay' /\ EventsOfVisits'
  BY <1>1, <1>3, <1>5 DEF IInv, InvitedOnce, InvitedAfterDelay, EventsOfVisits
<1>8. EventsAreTrue' /\ RowsBehind'
  BY <1>1, <1>2, <1>3, <1>5 DEF IInv, EventsAreTrue, RowsBehind
<1>9. Queued' /\ Sending'
  BY <1>1, <1>2, <1>3, <1>4, <1>5 DEF IInv, Queued, Sending
<1>10. QED
  BY <1>6, <1>7, <1>8, <1>9 DEF IInv

\* The button of an invitation the client has
LEMMA ClickStep ==
    ASSUME IInv, NEW v \in Visits, Click(v)
    PROVE  IInv'
<1>1. /\ invited[v] > 0 /\ event' = [event EXCEPT ![v] = "clicked_booking"]
      /\ UNCHANGED <<day, salon, notifyOn, globalOn, history, sentOn, pass, invited, stops>>
  BY DEF Click, switches
<1>2. /\ event' \in [Visits -> EventStatuses] /\ event'[v] = "clicked_booking"
      /\ \A w \in Visits : w # v => event'[w] = event[w]
  BY <1>1 DEF IInv, TypeOK, EventStatuses
<1>3. UNCHANGED <<day, last, visitDay, booked>> /\ \A w \in Visits : Row(w)' = Row(w)
  BY <1>1 DEF salon, Row
<1>4. event[v] # "none"
  BY <1>1 DEF IInv, EventsAreTrue, RowsBehind
<1>5. TypeOK'
  BY <1>1, <1>2, <1>3 DEF IInv, TypeOK
<1>6. InvitedOnce' /\ InvitedAfterDelay' /\ EventsOfVisits'
  BY <1>1, <1>2, <1>3, <1>4 DEF IInv, InvitedOnce, InvitedAfterDelay, EventsOfVisits
<1>7. EventsAreTrue' /\ RowsBehind'
  BY <1>1, <1>2, <1>3 DEF IInv, EventsAreTrue, RowsBehind
<1>8. Queued' /\ Sending'
  BY <1>1, <1>2, <1>3 DEF IInv, TypeOK, Queued, Sending
<1>9. QED
  BY <1>5, <1>6, <1>7, <1>8 DEF IInv

\* Days go by, visits take place, switches are turned.
LEMMA WorldStep ==
    ASSUME IInv, Meanwhile \/ ToggleGlobal
    PROVE  IInv'
<1>1. /\ UNCHANGED <<history, event, sentOn, pass, invited, stops>>
      /\ \A w \in Visits : Row(w)' = Row(w)
  BY DEF Meanwhile, ToggleGlobal, Row
<1>2. SalonTypeOK /\ globalOn \in BOOLEAN
  BY DEF IInv, TypeOK
<1>3. globalOn' \in BOOLEAN
  BY <1>2 DEF Meanwhile, ToggleGlobal
<1>4. /\ SalonTypeOK'
      /\ day <= day'
      /\ notifyOn' => notifyOn
      /\ \/ UNCHANGED <<last, visitDay>>
         \/ /\ last' = last + 1 /\ visitDay'[last'] = day /\ day' = day
            /\ \A v \in 1 .. last : visitDay'[v] = visitDay[v]
  <2>1. CASE Meanwhile
    BY <1>2, <2>1, SalonSteps DEF Meanwhile
  <2>2. CASE ToggleGlobal
    BY <1>2, <2>2 DEF ToggleGlobal, salon
  <2>3. QED
    BY <2>1, <2>2
<1>5. TypeOK'
  BY <1>1, <1>3, <1>4 DEF IInv, TypeOK
<1>6. InvitedOnce' /\ EventsAreTrue' /\ RowsBehind' /\ Sending'
  BY <1>1, <1>4 DEF IInv, TypeOK, InvitedOnce, EventsAreTrue, RowsBehind, Sending
<1>7. Queued'
  <2>1. pass.day \in Int /\ day \in Int /\ day' \in Int
    BY <1>4 DEF IInv, TypeOK
  <2>2. QED
    BY <1>1, <1>4, <2>1 DEF IInv, Queued
<1>8. InvitedAfterDelay' /\ EventsOfVisits'
  <2> SUFFICES ASSUME NEW v \in Visits, event[v] # "none"
               PROVE  /\ day' - visitDay'[v] >= Delay
                      /\ v < last' => visitDay'[v + 1] - visitDay'[v] >= Delay
                      /\ v <= last'
    BY <1>1 DEF InvitedAfterDelay, EventsOfVisits
  <2>1. /\ day - visitDay[v] >= Delay /\ v <= last
        /\ v < last => visitDay[v + 1] - visitDay[v] >= Delay
    BY DEF IInv, InvitedAfterDelay, EventsOfVisits
  <2>2. /\ visitDay[v] \in Int /\ day \in Int /\ day' \in Int /\ last \in Nat
        /\ day <= day'
    BY <1>4 DEF IInv, TypeOK
  <2>3. CASE UNCHANGED <<last, visitDay>>
    BY <2>1, <2>2, <2>3, Numbers
  <2>4. CASE /\ last' = last + 1 /\ visitDay'[last'] = day /\ day' = day
             /\ \A w \in 1 .. last : visitDay'[w] = visitDay[w]
    <3>1. visitDay'[v] = visitDay[v]
      BY <2>1, <2>4
    <3>2. CASE v < last
      <4>1. visitDay'[v + 1] = visitDay[v + 1]
        BY <2>2, <2>4, <3>2
      <4>2. QED
        BY <2>1, <2>2, <2>4, <3>1, <3>2, <4>1
    <3>3. CASE v = last
      BY <2>1, <2>2, <2>4, <3>1, <3>3
    <3>4. QED
      BY <2>1, <2>2, <3>2, <3>3
  <2>5. QED
    BY <1>4, <2>3, <2>4
<1>9. QED
  BY <1>5, <1>6, <1>7, <1>8 DEF IInv

\* Every step keeps the inductive invariant.
LEMMA Step == IInv /\ [Next]_vars => IInv'
<1> SUFFICES ASSUME IInv, [Next]_vars PROVE IInv'
  OBVIOUS
<1>1. CASE BeginPass \/ Answered \/ NotAnswered \/ EndPass \/ Stop
  BY <1>1, PassStep
<1>2. ASSUME NEW v \in Visits,
             \/ Unsubscribed(v) \/ NotSent(v) \/ SendRaises(v)
             \/ \E outcome \in Store!Outcomes : SendDone(v, outcome)
      PROVE  IInv'
  BY <1>2, SettleStep
<1>3. ASSUME NEW v \in Visits, Reserved(v) \/ Arrives(v) \/ Click(v) PROVE IInv'
  BY <1>3, ReservedStep, ArrivesStep, ClickStep
<1>4. CASE Meanwhile \/ ToggleGlobal
  BY <1>4, WorldStep
<1>5. CASE UNCHANGED vars
  <2>1. TypeOK' /\ Queued' /\ Sending'
    BY <1>5 DEF vars, salon, switches, IInv, TypeOK, Queued, Sending, Row
  <2>2. QED
    BY <1>5, <2>1, SameEvents DEF vars, salon, switches
<1>6. QED
  BY <1>1, <1>2, <1>3, <1>4, <1>5 DEF Next, Passing

\* The initial state satisfies the inductive invariant.
LEMMA InitIInv == Init => IInv
<1> SUFFICES ASSUME Init PROVE IInv
  OBVIOUS
<1> USE DEF Init, SalonInit
<1>1. pass \in [pc : {"idle", "asking", "events", "send", "arrived"}, day : Days,
                queue : SUBSET Visits, visit : 0 .. Last]
  BY Numbers
<1>2. history \in Store!Tables /\ \A v \in Visits : Row(v) = "none"
  BY DEF Store!EmptyTable, Store!Tables, Store!Statuses, Row
<1>3. /\ event \in [Visits -> EventStatuses] /\ sentOn \in [Visits -> SomeDay]
      /\ visitDay \in [Visits -> SomeDay] /\ invited \in [Visits -> Nat]
  BY DEF EventStatuses
<1>4. day \in Days /\ last \in 0 .. Last /\ stops \in 0 .. Stops
  BY Numbers
<1>5. TypeOK
  BY <1>1, <1>2, <1>3, <1>4 DEF TypeOK
<1>6. QED
  BY <1>2, <1>5
  DEF IInv, InvitedOnce, EventsAreTrue, InvitedAfterDelay, EventsOfVisits, RowsBehind, Queued,
      Sending

\* The passes keep the inductive invariant for ever.
THEOREM Invariance == Spec => []IInv
  BY InitIInv, Step, PTL DEF Spec

\* Every value stays in its type.
THEOREM TypeCorrect == Spec => []TypeOK
<1>1. IInv => TypeOK
  BY DEF IInv
<1>2. QED
  BY <1>1, Invariance, PTL

\* A visit brings its client one invitation, however passes stop and start.
THEOREM InvitedOnceAlways == Spec => []InvitedOnce
<1>1. IInv => InvitedOnce
  BY DEF IInv
<1>2. QED
  BY <1>1, Invariance, PTL

\* The event, the row and the chat of a visit tell one story.
THEOREM EventsAreTrueAlways == Spec => []EventsAreTrue
<1>1. IInv => EventsAreTrue
  BY DEF IInv
<1>2. QED
  BY <1>1, Invariance, PTL

\* An event is recorded for a visit that was the last one for the whole delay.
THEOREM InvitedAfterDelayAlways == Spec => []InvitedAfterDelay
<1>1. IInv => InvitedAfterDelay
  BY DEF IInv
<1>2. QED
  BY <1>1, Invariance, PTL

-----------------------------------------------------------------------------
(* The invitation keeps the promise of the delivery protocol *)

\* The claim of a visit's key depends on its row alone.
LEMMA ClaimOfRow ==
    ASSUME NEW h, NEW v
    PROVE  Store!ClaimOf(h, v) = IF h[Client][v] \in Store!ClaimedStatuses THEN Client
                                 ELSE IF h[Client][v] # "none" THEN "closed" ELSE "unclaimed"
  BY DEF Store!ClaimOf, Store!HasRowForKey

\* One row changes, and with it the claim of one key.
LEMMA ClaimsChange ==
    ASSUME NEW v \in Visits, \A w \in Visits : w # v => Row(w)' = Row(w)
    PROVE  Claims' = [Claims EXCEPT ![v] = Store!ClaimOf(history', v)]
<1>1. \A w \in Visits : w # v => Store!ClaimOf(history', w) = Store!ClaimOf(history, w)
  BY ClaimOfRow DEF Row
<1>2. QED
  BY <1>1 DEF Claims

\* Notifications are off, or the row is there already: a free key is closed.
LEMMA NotSentRefines ==
    ASSUME IInv, NEW v \in Visits, NotSent(v)
    PROVE  Promise!Next \/ UNCHANGED Promise!vars
<1>1. /\ UNCHANGED invited
      /\ \/ history' = Store!InsertOrIgnore(history, Client, v, "skipped")
         \/ UNCHANGED history
  BY DEF NotSent, Store!MarkSkipped
<1>2. Copies' = Copies
  BY <1>1 DEF Copies
<1>3. CASE UNCHANGED history
  BY <1>2, <1>3 DEF Claims, Promise!vars
<1>4. CASE history' = Store!InsertOrIgnore(history, Client, v, "skipped")
  <2>1. "skipped" \in Store!Statuses
    BY DEF Store!Statuses
  <2>2. /\ Row(v)' = IF Row(v) = "none" THEN "skipped" ELSE Row(v)
        /\ \A w \in Visits : w # v => Row(w)' = Row(w)
    BY <1>4, <2>1, InsertRow DEF IInv
  <2>3. Claims' = [Claims EXCEPT ![v] = Store!ClaimOf(history', v)]
    BY <2>2, ClaimsChange
  <2>4. CASE Row(v) = "none"
    <3>1. Claims[v] = "unclaimed" /\ Store!ClaimOf(history', v) = "closed"
      BY <2>2, <2>4, ClaimOfRow DEF Claims, Row, Store!ClaimedStatuses, Store!Outcomes
    <3>2. Claims' = [w \in Visits |-> IF w \in {v} THEN "closed" ELSE Claims[w]]
      BY <2>3, <3>1 DEF Claims
    <3>3. Promise!Close({v})
      BY <1>2, <3>1, <3>2 DEF Promise!Close, Promise!NoClaim, Promise!Closed
    <3>4. QED
      BY <3>3 DEF Promise!Next
  <2>5. CASE Row(v) # "none"
    <3>1. Store!ClaimOf(history', v) = Store!ClaimOf(history, v)
      BY <2>2, <2>5, ClaimOfRow DEF Row
    <3>2. Claims' = Claims
      BY <2>3, <3>1 DEF Claims
    <3>3. QED
      BY <1>2, <3>2 DEF Promise!vars
  <2>6. QED
    BY <2>4, <2>5
<1>5. QED
  BY <1>1, <1>3, <1>4

\* Reserving the row claims the key.
LEMMA ReservedRefines ==
    ASSUME IInv, NEW v \in Visits, Reserved(v)
    PROVE  Promise!Next
<1>1. /\ Row(v) = "none" /\ UNCHANGED invited
      /\ history' = Store!InsertOrIgnore(history, Client, v, "pending")
  BY ReservableRow DEF Reserved, Store!Reserve
<1>2. "pending" \in Store!Statuses /\ "pending" \in Store!ClaimedStatuses
  BY DEF Store!Statuses, Store!ClaimedStatuses
<1>3. Row(v)' = "pending" /\ \A w \in Visits : w # v => Row(w)' = Row(w)
  BY <1>1, <1>2, InsertRow DEF IInv
<1>4. Claims[v] = "unclaimed" /\ Store!ClaimOf(history', v) = Client
  BY <1>1, <1>2, <1>3, ClaimOfRow DEF Claims, Row, Store!ClaimedStatuses, Store!Outcomes
<1>5. Claims' = [Claims EXCEPT ![v] = Client]
  BY <1>3, <1>4, ClaimsChange
<1>6. Promise!Claim(Client, v)
  BY <1>1, <1>4, <1>5 DEF Promise!Claim, Promise!NoClaim, Copies
<1>7. QED
  BY <1>6 DEF Promise!Next

\* What arrives is the one copy of a claimed key.
LEMMA ArrivesRefines ==
    ASSUME IInv, NEW v \in Visits, Arrives(v)
    PROVE  Promise!Next
<1>1. /\ invited' = [invited EXCEPT ![v] = @ + 1] /\ history' = history
      /\ Row(v) = "pending" /\ invited[v] = 0
  BY DEF Arrives, IInv, Sending
<1>2. Claims[v] = Client /\ Claims' = Claims
  BY <1>1, ClaimOfRow DEF Claims, Row, Store!ClaimedStatuses
<1>3. Copies[Client][v] < 1 /\ Copies' = [Copies EXCEPT ![Client][v] = @ + 1]
  <2>1. [Copies EXCEPT ![Client][v] = @ + 1] = [Copies EXCEPT ![Client] = invited']
    BY <1>1 DEF Copies
  <2>2. [Copies EXCEPT ![Client] = invited'] = Copies'
    BY DEF Copies
  <2>3. QED
    BY <1>1, <2>1, <2>2 DEF Copies
<1>4. Promise!DeliverCopy(Client, v)
  BY <1>2, <1>3 DEF Promise!DeliverCopy
<1>5. QED
  BY <1>4 DEF Promise!Next

\* Recording the outcome leaves the key to the client.
LEMMA SendDoneRefines ==
    ASSUME IInv, NEW v \in Visits, NEW outcome \in Store!Outcomes, SendDone(v, outcome)
    PROVE  UNCHANGED Promise!vars
<1>1. /\ Row(v) = "pending" /\ UNCHANGED invited
      /\ history' = Store!MarkResult(history, Client, v, outcome)
  BY DEF SendDone, IInv, Sending
<1>2. outcome \in Store!Statuses /\ {outcome, "pending"} \subseteq Store!ClaimedStatuses
  BY DEF Store!Statuses, Store!ClaimedStatuses
<1>3. Row(v)' = outcome /\ \A w \in Visits : w # v => Row(w)' = Row(w)
  BY <1>1, <1>2, UpdateRow DEF IInv
<1>4. Claims' = [Claims EXCEPT ![v] = Store!ClaimOf(history', v)]
  BY <1>3, ClaimsChange
<1>5. Claims' = Claims
  BY <1>1, <1>2, <1>3, <1>4, ClaimOfRow DEF Claims, Row
<1>6. QED
  BY <1>1, <1>5 DEF Promise!vars, Copies

\* Every step of the funnel is a decision, an arrival or a stutter.
LEMMA NextRefines == IInv /\ [Next]_vars => [Promise!Next]_(Promise!vars)
<1> SUFFICES ASSUME IInv, [Next]_vars PROVE Promise!Next \/ UNCHANGED Promise!vars
  OBVIOUS
<1>1. CASE \/ BeginPass \/ Answered \/ NotAnswered \/ EndPass \/ Stop \/ ToggleGlobal
           \/ Meanwhile \/ UNCHANGED vars
           \/ \E v \in Visits : Unsubscribed(v) \/ SendRaises(v) \/ Click(v)
  <2>1. UNCHANGED <<history, invited>>
    BY <1>1 DEF BeginPass, Answered, NotAnswered, EndPass, Stop, ToggleGlobal, Meanwhile, vars,
                Unsubscribed, SendRaises, Click
  <2>2. QED
    BY <2>1 DEF Promise!vars, Claims, Copies
<1>2. QED
  BY <1>1, NotSentRefines, ReservedRefines, ArrivesRefines, SendDoneRefines DEF Next, Passing

\* Initially every key is undecided.
LEMMA InitRefines == Init => Promise!Init
<1> SUFFICES ASSUME Init PROVE Promise!Init
  OBVIOUS
<1>1. \A v \in Visits : history[Client][v] = "none"
  BY DEF Init, Store!EmptyTable
<1>2. \A v \in Visits : Store!ClaimOf(history, v) = "unclaimed"
  BY <1>1, ClaimOfRow DEF Store!ClaimedStatuses, Store!Outcomes
<1>3. QED
  BY <1>2 DEF Init, Promise!Init, Claims, Copies, Promise!NoClaim

\* The two halves of a pass, its stops and the button keep the promise of the
\* delivery protocol (send_business_notification under the record of the visit).
THEOREM PromiseKept == Spec => PromiseSpec
  BY InitRefines, NextRefines, Invariance, PTL DEF Spec, PromiseSpec, Promise!Spec

-----------------------------------------------------------------------------
(* The message to a lost client *)

\* Thresholds whose last message is not recorded and will not be.
Unrecorded ==
    {t \in Thresholds :
        heard[t].day > lostOn[t] /\ ~ (scan.pc = "arrived" /\ scan.threshold = t)}

\* Every message that was not recorded is paid for by a slip, whether or not a
\* repetition has come of it already.
Paid == repeats + Cardinality(Unrecorded) <= slips

\* The client was away for t days after the visit when it heard of threshold t,
\* on no later day than d.
HeardInTime(d) ==
    \A t \in Thresholds :
        /\ heard[t].day <= d
        /\ heard[t].visit > 0 =>
              /\ heard[t].visit <= last
              /\ t <= d - visitDay[heard[t].visit]

\* What a message on its way to the client is about.
LostSending ==
    scan.pc \in {"send", "arrived"} =>
        /\ scan.threshold \in Thresholds
        /\ scan.visit \in 1 .. last
        /\ scan.threshold <= scan.day - visitDay[scan.visit]

\* Until it arrives it repeats nothing recorded, and no larger threshold was used.
Unsent ==
    scan.pc = "send" =>
        /\ ~ RecentlyTold(scan.threshold)
        /\ \A u \in Thresholds : u > scan.threshold => heard[u].visit # scan.visit

LostClock ==
    /\ scan.pc # "idle" => scan.day <= day
    /\ scan.pc = "asking" => \A t \in Thresholds :
          heard[t].visit > 0 => t <= scan.day - visitDay[heard[t].visit]

\* The inductive invariant.
LostIInv == LostTypeOK /\ Paid /\ HeardInTime(day) /\ LostSending /\ Unsent /\ LostClock

USE DEF IdleScan, Unheard

\* The constants are numbers.
LEMMA LostNumbers ==
    /\ Cooldown \in Nat /\ Last \in Nat /\ LastDay \in Nat /\ Slips \in Nat
    /\ \A t \in Thresholds : t \in Nat
  BY SalonAssumption, LostClientsAssumption

\* What the types say about numbers.
LEMMA LostTypes ==
    ASSUME LostTypeOK
    PROVE  /\ day \in Nat /\ scan.day \in Nat /\ repeats \in Int /\ slips \in Int
           /\ \A v \in Visits : visitDay[v] \in Int
           /\ \A t \in Thresholds : /\ lostOn[t] \in Int /\ heard[t].day \in Int
                                    /\ heard[t].visit \in 0 .. Last
<1>1. SomeDay \subseteq Int /\ Days \subseteq Nat
  BY LostNumbers
<1>2. day \in Days /\ scan.day \in Days /\ repeats \in Int /\ slips \in Int
  BY LostNumbers DEF LostTypeOK
<1>3. \A v \in Visits : visitDay[v] \in SomeDay
  BY DEF LostTypeOK
<1>4. \A t \in Thresholds : lostOn[t] \in SomeDay
  BY DEF LostTypeOK
<1>5. \A t \in Thresholds : heard[t].day \in SomeDay /\ heard[t].visit \in 0 .. Last
  BY DEF LostTypeOK
<1>6. QED
  BY <1>1, <1>2, <1>3, <1>4, <1>5

\* Type correctness is inductive by itself.
LEMMA LostTypeStep == LostTypeOK /\ [LostNext]_lostVars => LostTypeOK'
<1> SUFFICES ASSUME LostTypeOK, [LostNext]_lostVars PROVE LostTypeOK'
  OBVIOUS
<1>1. CASE BeginScan
  <2>1. scan' = [pc |-> "asking", day |-> day, threshold |-> 0, visit |-> 0]
    BY <1>1 DEF BeginScan
  <2>2. QED
    BY <1>1, <2>1, LostNumbers DEF BeginScan, LostTypeOK, salon
<1>2. CASE NotTold
  BY <1>2, LostNumbers DEF NotTold, LostTypeOK, salon
<1>3. CASE Slip
  BY <1>3, LostNumbers DEF Slip, LostTypeOK, salon
<1>4. ASSUME NEW t \in Thresholds, Tell(t) PROVE LostTypeOK'
  BY <1>4 DEF Tell, LostTypeOK, salon
<1>5. ASSUME NEW t \in Thresholds, Hears(t) PROVE LostTypeOK'
  <2>1. scan' = [scan EXCEPT !.pc = "arrived"] /\ UNCHANGED <<day, salon, notifyOn, lostOn, slips>>
    BY <1>5 DEF Hears
  <2>2. heard' \in [Thresholds -> [day : SomeDay, visit : 0 .. Last]]
    BY <1>5 DEF Hears, LostTypeOK
  <2>3. repeats' \in Nat
    BY <1>5 DEF Hears, LostTypeOK
  <2>4. QED
    BY <2>1, <2>2, <2>3 DEF LostTypeOK, salon
<1>6. ASSUME NEW t \in Thresholds, Told(t) PROVE LostTypeOK'
  BY <1>6, LostNumbers DEF Told, LostTypeOK, salon
<1>7. CASE World /\ UNCHANGED message
  BY <1>7, SalonSteps DEF LostTypeOK, message
<1>8. CASE UNCHANGED lostVars
  BY <1>8 DEF lostVars, LostTypeOK, salon, message
<1>9. QED
  BY <1>1, <1>2, <1>3, <1>4, <1>5, <1>6, <1>7, <1>8 DEF LostNext

\* Fewer unrecorded messages, and no new repetition: still paid.
LEMMA PaidStays ==
    ASSUME LostTypeOK, LostTypeOK', Paid, Unrecorded' \subseteq Unrecorded,
           repeats' = repeats, slips' = slips
    PROVE  Paid'
<1>1. IsFiniteSet(Unrecorded) /\ IsFiniteSet(Unrecorded')
  BY FS_Subset, LostClientsAssumption DEF Unrecorded
<1>2. /\ Cardinality(Unrecorded) \in Nat /\ Cardinality(Unrecorded') \in Nat
      /\ Cardinality(Unrecorded') <= Cardinality(Unrecorded)
  BY <1>1, FS_CardinalityType, FS_Subset
<1>3. repeats \in Int /\ slips \in Int
  BY LostNumbers DEF LostTypeOK
<1>4. QED
  BY <1>2, <1>3 DEF Paid

\* A message that arrives within the interval of the one before it takes the
\* place of that one: it was not recorded.
LEMMA HearsPaid ==
    ASSUME LostIInv, LostTypeOK', NEW t \in Thresholds, Hears(t)
    PROVE  Paid'
<1>1. /\ scan.pc = "send" /\ scan.threshold = t
      /\ scan' = [scan EXCEPT !.pc = "arrived"]
      /\ heard' = [heard EXCEPT ![t] = [day |-> day, visit |-> scan.visit]]
      /\ UNCHANGED <<day, lostOn, slips>>
  BY DEF Hears
<1>2. t \notin Unrecorded'
  BY <1>1 DEF LostIInv, LostTypeOK, Unrecorded
<1>3. Unrecorded' \subseteq Unrecorded
  BY <1>1, <1>2 DEF LostIInv, LostTypeOK, Unrecorded
<1>4. CASE Within(heard[t].day, day, Cooldown)
  <2>1. t \in Unrecorded
    <3>1. lostOn[t] \in SomeDay /\ heard[t].day \in SomeDay /\ day \in Nat
      BY DEF LostIInv, LostTypeOK
    <3>2. ~ Within(lostOn[t], day, Cooldown)
      BY <1>1 DEF LostIInv, Unsent, RecentlyTold
    <3>3. heard[t].day > lostOn[t]
      BY <1>4, <3>1, <3>2, LostNumbers DEF Within
    <3>4. QED
      BY <1>1, <3>3 DEF Unrecorded
  <2>2. IsFiniteSet(Unrecorded)
    BY FS_Subset, LostClientsAssumption DEF Unrecorded
  <2>3. Cardinality(Unrecorded \ {t}) = Cardinality(Unrecorded) - 1
    BY <2>1, <2>2, FS_RemoveElement
  <2>4. IsFiniteSet(Unrecorded \ {t}) /\ Unrecorded' \subseteq Unrecorded \ {t}
    BY <1>2, <1>3, <2>2, FS_RemoveElement
  <2>5. /\ Cardinality(Unrecorded') \in Nat /\ Cardinality(Unrecorded) \in Nat
        /\ Cardinality(Unrecorded') <= Cardinality(Unrecorded \ {t})
    BY <2>2, <2>4, FS_Subset, FS_CardinalityType
  <2>6. repeats' = repeats + 1
    BY <1>4 DEF Hears
  <2>7. repeats \in Int /\ slips \in Int /\ repeats + Cardinality(Unrecorded) <= slips
    BY LostNumbers DEF LostIInv, LostTypeOK, Paid
  <2>8. repeats' + Cardinality(Unrecorded') <= slips'
    BY <1>1, <2>3, <2>5, <2>6, <2>7
  <2>9. QED
    BY <2>8 DEF Paid
<1>5. CASE ~ Within(heard[t].day, day, Cooldown)
  <2>1. repeats' = repeats
    BY <1>5 DEF Hears, LostIInv, LostTypeOK
  <2>2. QED
    BY <1>1, <1>3, <2>1, PaidStays DEF LostIInv
<1>6. QED
  BY <1>4, <1>5

\* A slip pays for the message that was not recorded.
LEMMA SlipPaid ==
    ASSUME LostIInv, LostTypeOK', Slip
    PROVE  Paid'
<1> DEFINE t == scan.threshold
<1>1. Unrecorded' \subseteq Unrecorded \cup {t}
  BY DEF Slip, LostIInv, LostTypeOK, Unrecorded
<1>2. IsFiniteSet(Unrecorded)
  BY FS_Subset, LostClientsAssumption DEF Unrecorded
<1>3. /\ IsFiniteSet(Unrecorded \cup {t})
      /\ Cardinality(Unrecorded) \in Nat
      /\ Cardinality(Unrecorded \cup {t}) <= Cardinality(Unrecorded) + 1
  <2>1. Cardinality(Unrecorded) \in Nat
    BY <1>2, FS_CardinalityType
  <2>2. QED
    BY <1>2, <2>1, FS_AddElement
<1>4. /\ Cardinality(Unrecorded') \in Nat
      /\ Cardinality(Unrecorded') <= Cardinality(Unrecorded \cup {t})
  BY <1>1, <1>3, FS_Subset, FS_CardinalityType
<1>5. Cardinality(Unrecorded \cup {t}) \in Nat
  BY <1>3, FS_CardinalityType
<1>6. repeats' = repeats /\ slips' = slips + 1
  BY DEF Slip
<1>7. QED
  <2>1. repeats \in Int /\ slips \in Int /\ repeats + Cardinality(Unrecorded) <= slips
    BY LostNumbers DEF LostIInv, LostTypeOK, Paid
  <2>2. repeats' + Cardinality(Unrecorded') <= slips'
    BY <1>3, <1>4, <1>5, <1>6, <2>1
  <2>3. QED
    BY <2>2 DEF Paid

\* Every step keeps the inductive invariant.
LEMMA LostStep == LostIInv /\ [LostNext]_lostVars => LostIInv'
<1> SUFFICES ASSUME LostIInv, [LostNext]_lostVars PROVE LostIInv'
  OBVIOUS
<1>1. LostTypeOK /\ LostTypeOK'
  BY LostTypeStep DEF LostIInv
<1> USE LostClientsAssumption
<1>2. CASE BeginScan
  <2>1. Paid'
    BY <1>1, <1>2, PaidStays DEF BeginScan, LostIInv, Unrecorded
  <2>2. HeardInTime(day)' /\ LostSending' /\ Unsent' /\ LostClock'
    BY <1>1, <1>2 DEF BeginScan, salon, LostIInv, LostTypeOK, HeardInTime,
        LostSending, Unsent, LostClock
  <2>3. QED
    BY <1>1, <2>1, <2>2 DEF LostIInv
<1>3. CASE NotTold
  <2>1. Paid'
    BY <1>1, <1>3, PaidStays DEF NotTold, LostIInv, Unrecorded
  <2>2. HeardInTime(day)' /\ LostSending' /\ Unsent' /\ LostClock'
    BY <1>1, <1>3 DEF NotTold, salon, LostIInv, LostTypeOK, HeardInTime,
        LostSending, Unsent, LostClock
  <2>3. QED
    BY <1>1, <2>1, <2>2 DEF LostIInv
<1>4. CASE Slip
  <2>1. Paid'
    BY <1>1, <1>4, SlipPaid
  <2>2. HeardInTime(day)' /\ LostSending' /\ Unsent' /\ LostClock'
    BY <1>1, <1>4 DEF Slip, salon, LostIInv, LostTypeOK, HeardInTime,
        LostSending, Unsent, LostClock
  <2>3. QED
    BY <1>1, <2>1, <2>2 DEF LostIInv
<1>5. ASSUME NEW t \in Thresholds, Tell(t) PROVE LostIInv'
  <2>1. Paid'
    BY <1>1, <1>5, PaidStays DEF Tell, LostIInv, LostTypeOK, Unrecorded
  <2>2. /\ scan.pc = "asking" /\ last \in 1 .. Last
        /\ scan'.pc = "send" /\ scan'.day = scan.day
        /\ scan'.threshold = t /\ scan'.visit = last
        /\ UNCHANGED <<day, last, visitDay, lostOn, heard>>
    BY <1>1, <1>5 DEF Tell, LostTypeOK, salon
  <2>3. /\ t <= scan.day - visitDay[last]
        /\ \A u \in Thresholds : u <= scan.day - visitDay[last] => u <= t
        /\ ~ RecentlyTold(t)
    BY <1>5 DEF Tell, Chosen, Reached
  <2>4. LostSending' /\ LostClock' /\ HeardInTime(day)'
    BY <2>2, <2>3 DEF LostIInv, LostSending, LostClock, HeardInTime
  <2>5. \A u \in Thresholds : u > t => heard[u].visit # last
    BY <1>1, <2>2, <2>3 DEF LostIInv, LostClock, LostTypeOK
  <2>6. Unsent'
    BY <2>2, <2>3, <2>5 DEF Unsent, RecentlyTold, Within
  <2>7. QED
    BY <1>1, <2>1, <2>4, <2>6 DEF LostIInv
<1>6. ASSUME NEW t \in Thresholds, Hears(t) PROVE LostIInv'
  <2>1. Paid'
    BY <1>1, <1>6, HearsPaid
  <2>2. /\ scan.pc = "send" /\ scan'.pc = "arrived" /\ scan.threshold = t
        /\ scan'.day = scan.day /\ scan'.threshold = t /\ scan'.visit = scan.visit
        /\ heard'[t] = [day |-> day, visit |-> scan.visit]
        /\ \A u \in Thresholds : u # t => heard'[u] = heard[u]
        /\ UNCHANGED <<day, last, visitDay>>
    BY <1>1, <1>6 DEF Hears, LostTypeOK, salon
  <2>3. LostSending' /\ Unsent' /\ LostClock'
    BY <2>2 DEF LostIInv, LostSending, Unsent, LostClock
  <2>4. scan.visit \in 1 .. last /\ t <= day - visitDay[scan.visit]
    <3>1. scan.visit \in 1 .. last /\ t <= scan.day - visitDay[scan.visit]
      BY <2>2 DEF LostIInv, LostSending
    <3>2. scan.day <= day
      BY <2>2 DEF LostIInv, LostClock
    <3>3. day \in Int /\ scan.day \in Int /\ t \in Int
      BY <1>1, LostTypes, LostNumbers
    <3>4. scan.visit \in Visits
      BY <1>1, <3>1, LostNumbers DEF LostTypeOK
    <3>5. visitDay[scan.visit] \in Int
      BY <1>1, <3>4, LostTypes
    <3>6. QED
      BY <3>1, <3>2, <3>3, <3>5
  <2>5. HeardInTime(day)'
    BY <1>1, <2>2, <2>4 DEF LostIInv, LostTypeOK, HeardInTime
  <2>6. QED
    BY <1>1, <2>1, <2>3, <2>5 DEF LostIInv
<1>7. ASSUME NEW t \in Thresholds, Told(t) PROVE LostIInv'
  <2>1. \A u \in Thresholds : u # t => lostOn'[u] = lostOn[u]
    BY <1>1, <1>7 DEF Told, LostTypeOK
  <2>2. ~ (heard[t].day > lostOn'[t])
    <3>1. lostOn'[t] = day
      BY <1>1, <1>7 DEF Told, LostTypeOK
    <3>2. heard[t].day <= day
      BY DEF LostIInv, HeardInTime
    <3>3. heard[t].day \in Int /\ day \in Int
      BY <1>1, LostTypes
    <3>4. QED
      BY <3>1, <3>2, <3>3
  <2>3. Unrecorded' \subseteq Unrecorded
    BY <1>7, <2>1, <2>2 DEF Told, Unrecorded
  <2>4. Paid'
    BY <1>1, <1>7, <2>3, PaidStays DEF Told, LostIInv
  <2>5. HeardInTime(day)' /\ LostSending' /\ Unsent' /\ LostClock'
    BY <1>1, <1>7 DEF Told, salon, LostIInv, LostTypeOK, HeardInTime,
        LostSending, Unsent, LostClock
  <2>6. QED
    BY <1>1, <2>4, <2>5 DEF LostIInv
<1>8. CASE NewDay /\ UNCHANGED message
  <2>1. Paid'
    BY <1>1, <1>8, PaidStays DEF NewDay, message, LostIInv, Unrecorded
  <2>2. HeardInTime(day)' /\ LostClock'
    <3>1. day' = day + 1 /\ day \in Nat /\ UNCHANGED <<last, visitDay, scan, heard>>
      BY <1>1, <1>8 DEF NewDay, salon, message, LostTypeOK
    <3>2. \A t \in Thresholds : heard[t].day \in Int /\ t \in Nat
      BY <1>1, LostTypes, LostNumbers
    <3>3. \A t \in Thresholds :
              heard[t].visit > 0 => visitDay[heard[t].visit] \in Int
      <4> SUFFICES ASSUME NEW t \in Thresholds, heard[t].visit > 0
                   PROVE  visitDay[heard[t].visit] \in Int
        OBVIOUS
      <4>1. heard[t].visit \in 0 .. Last
        BY <1>1, LostTypes
      <4>2. heard[t].visit \in Visits
        BY <4>1, LostNumbers
      <4>3. QED
        BY <1>1, <4>2, LostTypes
    <3>4. scan.day \in Nat
      BY <1>1, LostTypes
    <3>5. ASSUME NEW t \in Thresholds
          PROVE  /\ heard[t].day <= day'
                 /\ heard[t].visit > 0 => t <= day' - visitDay[heard[t].visit]
      <4>1. /\ heard[t].day <= day
            /\ heard[t].visit > 0 => t <= day - visitDay[heard[t].visit]
        BY DEF LostIInv, HeardInTime
      <4>2. QED
        BY <3>1, <3>2, <3>3, <4>1
    <3>6. HeardInTime(day)'
      BY <3>1, <3>5 DEF LostIInv, HeardInTime
    <3>7. LostClock'
      <4>1. scan.pc # "idle" => scan.day <= day'
        BY <3>1, <3>4 DEF LostIInv, LostClock
      <4>2. ASSUME scan.pc = "asking", NEW t \in Thresholds, heard[t].visit > 0
            PROVE  t <= scan.day - visitDay[heard[t].visit]
        BY <4>2 DEF LostIInv, LostClock
      <4>3. QED
        BY <3>1, <4>1, <4>2 DEF LostClock
    <3>8. QED
      BY <3>6, <3>7
  <2>3. LostSending' /\ Unsent'
    <3>1. day' = day + 1 /\ day \in Nat /\ UNCHANGED <<last, visitDay, scan, heard, lostOn>>
      BY <1>1, <1>8 DEF NewDay, salon, message, LostTypeOK
    <3>2. \A t \in Thresholds : lostOn[t] \in Int
      BY <1>1, LostTypes
    <3>3. ASSUME NEW t \in Thresholds, ~ Within(lostOn[t], day, Cooldown)
          PROVE  ~ Within(lostOn[t], day', Cooldown)
      BY <3>1, <3>2, <3>3, LostNumbers DEF Within
    <3>4. LostSending'
      BY <3>1 DEF LostIInv, LostSending
    <3>5. ASSUME scan.pc = "send"
          PROVE  /\ ~ Within(lostOn[scan.threshold], day', Cooldown)
                 /\ \A u \in Thresholds : u > scan.threshold => heard[u].visit # scan.visit
      <4>1. /\ scan.threshold \in Thresholds /\ ~ Within(lostOn[scan.threshold], day, Cooldown)
            /\ \A u \in Thresholds : u > scan.threshold => heard[u].visit # scan.visit
        BY <3>5 DEF LostIInv, LostSending, Unsent, RecentlyTold
      <4>2. QED
        BY <3>3, <4>1
    <3>6. Unsent'
      BY <3>1, <3>5 DEF Unsent, RecentlyTold
    <3>7. QED
      BY <3>4, <3>6
  <2>4. QED
    BY <1>1, <2>1, <2>2, <2>3 DEF LostIInv
<1>9. CASE \/ (Book \/ Unbook \/ SwitchOff) /\ UNCHANGED message
          \/ UNCHANGED lostVars
  <2>1. UNCHANGED <<day, last, visitDay, message>>
    BY <1>9 DEF Book, Unbook, SwitchOff, lostVars, salon
  <2>2. Paid'
    BY <1>1, <2>1, PaidStays DEF message, LostIInv, Unrecorded
  <2>3. HeardInTime(day)' /\ LostSending' /\ Unsent' /\ LostClock'
    BY <2>1 DEF message, LostIInv, HeardInTime, LostSending, Unsent, LostClock, RecentlyTold
  <2>4. QED
    BY <1>1, <2>2, <2>3 DEF LostIInv
<1>10. CASE Visit /\ UNCHANGED message
  <2>1. /\ last' = last + 1 /\ UNCHANGED <<day, message>>
        /\ \A v \in 1 .. last : visitDay'[v] = visitDay[v]
    BY <1>1, <1>10 DEF Visit, LostTypeOK
  <2>2. Paid'
    BY <1>1, <2>1, PaidStays DEF message, LostIInv, Unrecorded
  <2>3. \A t \in Thresholds : heard[t].visit > 0 => heard[t].visit \in 1 .. last
    BY <1>1 DEF LostIInv, LostTypeOK, HeardInTime
  <2>4. HeardInTime(day)' /\ LostClock'
    BY <1>1, <2>1, <2>3 DEF message, LostIInv, LostTypeOK, HeardInTime, LostClock
  <2>5. LostSending' /\ Unsent'
    BY <1>1, <2>1 DEF message, LostIInv, LostTypeOK, LostSending, Unsent, RecentlyTold
  <2>6. QED
    BY <1>1, <2>2, <2>4, <2>5 DEF LostIInv
<1>11. QED
  BY <1>2, <1>3, <1>4, <1>5, <1>6, <1>7, <1>8, <1>9, <1>10 DEF LostNext, World

\* The initial state satisfies the inductive invariant.
LEMMA LostInitIInv == LostInit => LostIInv
<1> SUFFICES ASSUME LostInit PROVE LostIInv
  OBVIOUS
<1> USE DEF LostInit, SalonInit
<1>1. LostTypeOK
  <2>1. lostOn \in [Thresholds -> SomeDay] /\ visitDay \in [Visits -> SomeDay]
    OBVIOUS
  <2>2. heard \in [Thresholds -> [day : SomeDay, visit : 0 .. Last]]
    BY LostNumbers
  <2>3. scan \in [pc : {"idle", "asking", "send", "arrived"}, day : Days,
                  threshold : Thresholds \cup {0}, visit : 0 .. Last]
    BY LostNumbers
  <2>4. day \in Days /\ last \in 0 .. Last /\ slips \in 0 .. Slips
    BY LostNumbers
  <2>5. QED
    BY <2>1, <2>2, <2>3, <2>4 DEF LostTypeOK
<1>2. Unrecorded = {}
  BY DEF Unrecorded
<1>3. Paid
  BY <1>2, FS_EmptySet DEF Paid
<1>4. HeardInTime(day) /\ LostSending /\ Unsent /\ LostClock
  BY DEF HeardInTime, LostSending, Unsent, LostClock
<1>5. QED
  BY <1>1, <1>3, <1>4 DEF LostIInv

\* run_lost_clients_scan keeps the inductive invariant for ever.
THEOREM LostInvariance == LostSpec => []LostIInv
  BY LostInitIInv, LostStep, PTL DEF LostSpec

\* Every value stays in its type.
THEOREM LostTypeCorrect == LostSpec => []LostTypeOK
<1>1. LostIInv => LostTypeOK
  BY DEF LostIInv
<1>2. QED
  BY <1>1, LostInvariance, PTL

\* Nothing but a message that was delivered and not recorded lets a client hear
\* the same threshold twice within the interval.
THEOREM RepeatsAreSlipsAlways == LostSpec => []RepeatsAreSlips
<1>1. LostIInv => RepeatsAreSlips
  <2> SUFFICES ASSUME LostIInv PROVE repeats <= slips
    BY DEF RepeatsAreSlips
  <2>1. Cardinality(Unrecorded) \in Nat
    BY FS_Subset, FS_CardinalityType, LostClientsAssumption DEF Unrecorded
  <2>2. QED
    BY <2>1 DEF LostIInv, Paid, LostTypeOK
<1>2. QED
  BY <1>1, LostInvariance, PTL

\* A client that has heard of a threshold hears of no smaller one before its
\* next visit.
THEOREM ThresholdsClimbAlways == LostSpec => ThresholdsClimb
<1> DEFINE Climbs == \A t, u \in Thresholds :
              u > t /\ heard[u].visit > 0 /\ heard[u].visit = heard'[t].visit
                  => heard'[t] = heard[t]
<1>1. LostIInv /\ [LostNext]_lostVars => [Climbs]_lostVars
  <2> SUFFICES ASSUME LostIInv, LostNext, NEW t \in Thresholds, NEW u \in Thresholds,
                      u > t, heard[u].visit = heard'[t].visit, heard'[t] # heard[t]
               PROVE  FALSE
    OBVIOUS
  <2>1. PICK w \in Thresholds : Hears(w)
    BY DEF LostNext, BeginScan, NotTold, Slip, Tell, Told, message
  <2>2. w = t /\ heard'[t].visit = scan.visit /\ scan.pc = "send" /\ scan.threshold = t
    BY <2>1 DEF Hears, LostIInv, LostTypeOK
  <2>3. QED
    BY <2>2 DEF LostIInv, Unsent
<1>2. QED
  BY <1>1, LostInvariance, PTL DEF LostSpec, ThresholdsClimb

=============================================================================
