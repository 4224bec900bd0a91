--------------------- MODULE CancellationRecoveryProofs ---------------------
(***************************************************************************)
(* The safety properties of CancellationRecovery for every set of records  *)
(* and every bound.  The row of the cancelled record is what makes the     *)
(* offer unique; the queue of a poll is what keeps settled events settled. *)
(***************************************************************************)
EXTENDS CancellationRecovery, TLAPS

\* No offer is sent without a row, none counts as sent that did not arrive.
RowsBehind ==
    \A r \in Records :
        /\ copies[r] > 0 => Row(r) # "none"
        /\ Row(r) = "sent" => r \in offered

\* What a poll works on is unsettled, but for the client's answer.
Queued == \A r \in poll.queue : event[r] \in {"pending"} \cup Clicked

\* The event in hand; a row whose offer is being sent is pending.
InHand ==
    /\ poll.pc \in {"check", "send"} => poll.rec \in poll.queue
    /\ poll.pc = "send" => Row(poll.rec) = "pending"

\* The inductive invariant.
IInv ==
    TypeOK /\ OneOfferPerCancellation /\ EventsAreTrue /\ RowsBehind /\ Queued /\ InHand

USE DEF Clicked, IdlePoll, Polls, Store!NoRow

-----------------------------------------------------------------------------
(* The client's rows *)

\* A record's key is free exactly when the client has no row for it.
LEMMA ReservableRow ==
    ASSUME NEW r \in Records
    PROVE  Store!CanReserve(history, r) <=> Row(r) = "none"
  BY DEF Store!CanReserve, Store!HasRowForKey, Row

\* INSERT OR IGNORE touches one row, and only if it does not exist.
LEMMA InsertRow ==
    ASSUME TypeOK, NEW r \in Records, NEW status \in Store!Statuses,
           history' = Store!InsertOrIgnore(history, Client, r, status)
    PROVE  /\ history' \in Store!Tables
           /\ Row(r)' = IF Row(r) = "none" THEN status ELSE Row(r)
           /\ \A w \in Records : w # r => Row(w)' = Row(w)
<1>1. history \in [{Client} -> [Records -> Store!Statuses]]
  BY DEF TypeOK, Store!Tables
<1>2. QED
  BY <1>1 DEF Store!InsertOrIgnore, Store!Tables, Row

\* UPDATE ... WHERE id touches one row.
LEMMA UpdateRow ==
    ASSUME TypeOK, NEW r \in Records, NEW status \in Store!Statuses,
           history' = Store!MarkResult(history, Client, r, status)
    PROVE  /\ history' \in Store!Tables
           /\ Row(r)' = status
           /\ \A w \in Records : w # r => Row(w)' = Row(w)
<1>1. history \in [{Client} -> [Records -> Store!Statuses]]
  BY DEF TypeOK, Store!Tables
<1>2. QED
  BY <1>1 DEF Store!MarkResult, Store!Tables, Row

\* The decision not to send leaves a row behind.
LEMMA SkippedRow ==
    ASSUME TypeOK, NEW r \in Records, history' = Store!MarkSkipped(history, Client, r)
    PROVE  /\ history' \in Store!Tables
           /\ Row(r)' = IF Row(r) = "none" THEN "skipped" ELSE Row(r)
           /\ \A w \in Records : w # r => Row(w)' = Row(w)
<1>1. history' = Store!InsertOrIgnore(history, Client, r, "skipped")
  BY DEF Store!MarkSkipped
<1>2. "skipped" \in Store!Statuses
  BY DEF Store!Statuses
<1>3. QED
  BY <1>1, <1>2, InsertRow

\* set_status
LEMMA EventSet ==
    ASSUME TypeOK, NEW r \in Records, NEW status \in EventStatuses, SetEvent(r, status)
    PROVE  /\ event' \in [Records -> EventStatuses] /\ event'[r] = status
           /\ \A w \in Records : w # r => event'[w] = event[w]
  BY DEF TypeOK, SetEvent

\* The event leaves the queue.
LEMMA AfterEvent ==
    ASSUME TypeOK, NEW r \in Records, After(r)
    PROVE  /\ poll' \in Polls /\ poll'.pc = "events" /\ poll'.queue = poll.queue \ {r}
<1>1. poll' = [pc |-> "events", queue |-> poll.queue \ {r}, rec |-> Nothing]
  BY DEF After, TypeOK
<1>2. QED
  BY <1>1 DEF TypeOK

\* The end of an event keeps the inductive invariant when its status tells the
\* truth of its row.
LEMMA Settled ==
    ASSUME IInv, NEW r \in Records, NEW status \in EventStatuses \ Clicked,
           SetEvent(r, status), After(r), history' \in Store!Tables,
           \A w \in Records : w # r => Row(w)' = Row(w),
           Row(r)' = Row(r) \/ (Row(r) \in {"none", "pending"} /\ Row(r)' # "none"),
           Row(r)' = "sent" => r \in offered,
           status = "sent" => Row(r)' = "sent",
           notifyOn' \in BOOLEAN,
           UNCHANGED <<world, due, globalOn, copies, offered>>
    PROVE  IInv'
<1>1. /\ event' \in [Records -> EventStatuses] /\ event'[r] = status
      /\ \A w \in Records : w # r => event'[w] = event[w]
  BY EventSet DEF IInv
<1>2. poll' \in Polls /\ poll'.pc = "events" /\ poll'.queue = poll.queue \ {r}
  BY AfterEvent DEF IInv
<1>3. UNCHANGED <<live, fresh, crashes>>
  BY DEF world
<1>4. TypeOK'
  BY <1>1, <1>2, <1>3 DEF IInv, TypeOK
<1>5. OneOfferPerCancellation' /\ RowsBehind'
  BY DEF IInv, OneOfferPerCancellation, RowsBehind
<1>6. EventsAreTrue'
  BY <1>1 DEF IInv, EventsAreTrue
<1>7. Queued' /\ InHand'
  <2>1. \A w \in poll'.queue : w \in Records /\ w # r /\ w \in poll.queue
    BY <1>2 DEF IInv, TypeOK
  <2>2. QED
    BY <1>1, <1>2, <2>1 DEF IInv, Queued, InHand
<1>8. QED
  BY <1>4, <1>5, <1>6, <1>7 DEF IInv

\* Where nothing is said of rows, events and copies
LEMMA SameEvents ==
    ASSUME IInv, TypeOK', Queued', InHand', UNCHANGED <<event, history, copies, offered>>
    PROVE  IInv'
  BY DEF IInv, OneOfferPerCancellation, EventsAreTrue, RowsBehind, Row

-----------------------------------------------------------------------------
(* The steps *)

\* The ends of an event without a send
LEMMA UnsentStep ==
    ASSUME IInv, NEW r \in Records,
           TakeUnreachable(r) \/ CheckFails(r) \/ HasBooking(r) \/ NotSent(r)
    PROVE  IInv'
<1> USE DEF EventStatuses
<1>0. notifyOn \in BOOLEAN /\ (Row(r) = "sent" => r \in offered)
  BY DEF IInv, TypeOK, RowsBehind
<1>1. CASE TakeUnreachable(r)
  <2>1. PICK status \in {"failed", "skipped"} : Skip(r, status)
    BY <1>1 DEF TakeUnreachable
  <2>2. After(r) /\ UNCHANGED <<world, due, notifyOn, globalOn, copies, offered>>
    BY <1>1 DEF TakeUnreachable
  <2>3. /\ history' \in Store!Tables
        /\ Row(r)' = IF Row(r) = "none" THEN "skipped" ELSE Row(r)
        /\ \A w \in Records : w # r => Row(w)' = Row(w)
    BY <2>1, SkippedRow DEF Skip, IInv
  <2>4. QED
    BY <1>0, <2>1, <2>2, <2>3, Settled DEF Skip
<1>2. CASE CheckFails(r)
  <2>1. /\ SetEvent(r, "failed") /\ After(r) /\ history' = history
        /\ UNCHANGED <<world, due, notifyOn, globalOn, copies, offered>>
    BY <1>2 DEF CheckFails
  <2>2. history' \in Store!Tables /\ \A w \in Records : Row(w)' = Row(w)
    BY <2>1 DEF IInv, TypeOK, Row
  <2>3. QED
    BY <1>0, <2>1, <2>2, Settled
<1>3. CASE HasBooking(r)
  <2>1. /\ Skip(r, "skipped_has_new_booking") /\ After(r)
        /\ UNCHANGED <<world, due, notifyOn, globalOn, copies, offered>>
    BY <1>3 DEF HasBooking
  <2>2. /\ history' \in Store!Tables
        /\ Row(r)' = IF Row(r) = "none" THEN "skipped" ELSE Row(r)
        /\ \A w \in Records : w # r => Row(w)' = Row(w)
    BY <2>1, SkippedRow DEF Skip, IInv
  <2>3. QED
    BY <1>0, <2>1, <2>2, Settled DEF Skip
<1>4. CASE NotSent(r)
  <2>1. /\ SetEvent(r, StatusOf(Row(r)')) /\ After(r)
        /\ UNCHANGED <<world, due, notifyOn, globalOn, copies, offered>>
    BY <1>4 DEF NotSent, Row
  <2>2. /\ history' \in Store!Tables
        /\ Row(r)' = IF Row(r) = "none" THEN "skipped" ELSE Row(r)
        /\ \A w \in Records : w # r => Row(w)' = Row(w)
    <3>1. CASE history' = Store!MarkSkipped(history, Client, r)
      BY <3>1, SkippedRow DEF IInv
    <3>2. CASE ~ Store!CanReserve(history, r) /\ history' = history
      BY <3>2, ReservableRow DEF IInv, TypeOK, Row
    <3>3. QED
      BY <1>4, <3>1, <3>2 DEF NotSent
  <2>3. Row(r)' \in Store!Statuses \ {"none"}
    BY <2>2 DEF Store!Tables, Row
  <2>4. /\ StatusOf(Row(r)') \in EventStatuses \ Clicked
        /\ StatusOf(Row(r)') = "sent" => Row(r)' = "sent"
    BY <2>3 DEF StatusOf, Store!Statuses, Store!Outcomes
  <2>5. QED
    BY <1>0, <2>1, <2>2, <2>4, Settled
<1>5. QED
  BY <1>1, <1>2, <1>3, <1>4

\* The ends of a send
LEMMA SentStep ==
    ASSUME IInv, NEW r \in Records,
           SendRaises(r) \/ \E outcome \in Store!Outcomes : SendDone(r, outcome)
    PROVE  IInv'
<1> USE DEF EventStatuses
<1>1. CASE SendRaises(r)
  <2>1. /\ SetEvent(r, "failed") /\ After(r) /\ history' = history
        /\ UNCHANGED <<world, due, notifyOn, globalOn, copies, offered>>
    BY <1>1 DEF SendRaises
  <2>2. /\ history' \in Store!Tables /\ \A w \in Records : Row(w)' = Row(w)
        /\ notifyOn \in BOOLEAN /\ (Row(r) = "sent" => r \in offered)
    BY <2>1 DEF IInv, TypeOK, Row, RowsBehind
  <2>3. QED
    BY <2>1, <2>2, Settled
<1>2. ASSUME NEW outcome \in Store!Outcomes, SendDone(r, outcome) PROVE IInv'
  <2>1. /\ poll.pc = "send" /\ poll.rec = r
        /\ outcome = "sent" => r \in offered
        /\ history' = Store!MarkResult(history, Client, r, outcome)
        /\ SetEvent(r, StatusOf(outcome)) /\ After(r)
        /\ notifyOn' = (notifyOn /\ outcome \notin {"blocked", "stopped"})
        /\ UNCHANGED <<world, due, globalOn, copies, offered>>
    BY <1>2 DEF SendDone
  <2>2. outcome \in Store!Statuses /\ outcome # "none"
    BY DEF Store!Statuses, Store!Outcomes
  <2>3. /\ history' \in Store!Tables /\ Row(r)' = outcome
        /\ \A w \in Records : w # r => Row(w)' = Row(w)
    BY <2>1, <2>2, UpdateRow DEF IInv
  <2>4. Row(r) = "pending"
    BY <2>1 DEF IInv, InHand
  <2>5. /\ StatusOf(outcome) \in EventStatuses \ Clicked
        /\ StatusOf(outcome) = "sent" => outcome = "sent"
    BY DEF StatusOf, Store!Outcomes
  <2>6. notifyOn' \in BOOLEAN
    BY <2>1
  <2>7. QED
    BY <2>1, <2>2, <2>3, <2>4, <2>5, <2>6, Settled
<1>3. QED
  BY <1>1, <1>2

\* An offer is sent under a row of its own, which no earlier offer has left.
LEMMA ReservedStep ==
    ASSUME IInv, NEW r \in Records, Reserved(r)
    PROVE  IInv'
<1>1. /\ poll.pc = "check" /\ poll.rec = r /\ Row(r) = "none"
      /\ history' = Store!InsertOrIgnore(history, Client, r, "pending")
      /\ copies' = [copies EXCEPT ![r] = IF @ < 2 THEN @ + 1 ELSE @]
      /\ poll' = [poll EXCEPT !.pc = "send"]
      /\ UNCHANGED <<world, event, due, notifyOn, globalOn, offered>>
  BY ReservableRow DEF Reserved, Store!Reserve
<1>2. "pending" \in Store!Statuses
  BY DEF Store!Statuses
<1>3. /\ history' \in Store!Tables /\ Row(r)' = "pending"
      /\ \A w \in Records : w # r => Row(w)' = Row(w)
  BY <1>1, <1>2, InsertRow DEF IInv
<1>4. copies[r] = 0
  BY <1>1 DEF IInv, TypeOK, RowsBehind
<1>5. /\ copies' \in [Records -> 0 .. 2] /\ copies'[r] = 1
      /\ \A w \in Records : w # r => copies'[w] = copies[w]
  BY <1>1, <1>4 DEF IInv, TypeOK
<1>6. /\ poll' \in Polls /\ poll'.pc = "send" /\ poll'.rec = r /\ poll'.queue = poll.queue
  BY <1>1 DEF IInv, TypeOK
<1>7. TypeOK'
  BY <1>1, <1>3, <1>5, <1>6 DEF IInv, TypeOK, world
<1>8. OneOfferPerCancellation' /\ RowsBehind'
  BY <1>1, <1>3, <1>5 DEF IInv, OneOfferPerCancellation, RowsBehind
<1>9. EventsAreTrue'
  BY <1>1, <1>3 DEF IInv, EventsAreTrue
<1>10. Queued' /\ InHand'
  BY <1>1, <1>3, <1>6 DEF IInv, Queued, InHand
<1>11. QED
  BY <1>7, <1>8, <1>9, <1>10 DEF IInv

\* It arrives; or the client, who has it, answers.
LEMMA ClientStep ==
    ASSUME IInv, NEW r \in Records, Arrives(r) \/ \E answer \in Clicked : Click(r, answer)
    PROVE  IInv'
<1>1. CASE Arrives(r)
  <2>1. /\ offered' = offered \cup {r}
        /\ UNCHANGED <<live, fresh, crashes, event, due, history, notifyOn, globalOn, poll, copies>>
    BY <1>1 DEF Arrives, world
  <2>2. TypeOK'
    BY <2>1 DEF IInv, TypeOK
  <2>3. QED
    BY <2>1, <2>2
    DEF IInv, OneOfferPerCancellation, EventsAreTrue, RowsBehind, Queued, InHand, Row
<1>2. ASSUME NEW answer \in Clicked, Click(r, answer) PROVE IInv'
  <2>1. /\ r \in offered /\ SetEvent(r, answer)
        /\ UNCHANGED <<live, fresh, crashes, due, history, notifyOn, globalOn, poll, copies, offered>>
    BY <1>2 DEF Click, CanClick, world
  <2>2. /\ event' \in [Records -> EventStatuses] /\ event'[r] = answer
        /\ \A w \in Records : w # r => event'[w] = event[w]
    BY <2>1, EventSet DEF IInv, EventStatuses
  <2>3. TypeOK'
    BY <2>1, <2>2 DEF IInv, TypeOK
  <2>4. OneOfferPerCancellation' /\ RowsBehind' /\ InHand'
    BY <2>1 DEF IInv, OneOfferPerCancellation, RowsBehind, InHand, Row
  <2>5. EventsAreTrue'
    BY <2>1, <2>2 DEF IInv, EventsAreTrue, Row
  <2>6. Queued'
    BY <2>1, <2>2 DEF IInv, TypeOK, Queued
  <2>7. QED
    BY <2>3, <2>4, <2>5, <2>6 DEF IInv
<1>3. QED
  BY <1>1, <1>2

\* A poll begins, goes on, ends or dies.
LEMMA PollStep ==
    ASSUME IInv, BeginPoll \/ EndPoll \/ Crash \/ \E r \in Records : Take(r)
    PROVE  IInv'
<1>1. UNCHANGED <<live, fresh, event, due, history, notifyOn, globalOn, copies, offered>>
  BY DEF BeginPoll, EndPoll, Crash, Take, world
<1>2. crashes' \in 0 .. Crashes
  <2>1. crashes \in 0 .. Crashes /\ Crashes \in Nat
    BY RecoveryAssumption DEF IInv, TypeOK
  <2>2. CASE Crash
    <3>1. crashes < Crashes /\ crashes' = crashes + 1
      BY <2>2 DEF Crash
    <3>2. QED
      BY <2>1, <3>1
  <2>3. CASE BeginPoll \/ EndPoll \/ \E r \in Records : Take(r)
    <3>1. crashes' = crashes
      BY <2>3 DEF BeginPoll, EndPoll, Take, world
    <3>2. QED
      BY <2>1, <3>1
  <2>4. QED
    BY <2>2, <2>3
<1>3. CASE BeginPoll
  <2>1. poll' = [pc |-> "events", queue |-> {r \in due : event[r] = "pending"}, rec |-> Nothing]
    BY <1>3 DEF BeginPoll
  <2>2. poll' \in Polls
    BY <2>1 DEF IInv, TypeOK
  <2>3. TypeOK' /\ Queued' /\ InHand'
    BY <1>1, <1>2, <2>1, <2>2 DEF IInv, TypeOK, Queued, InHand
  <2>4. QED
    BY <1>1, <2>3, SameEvents
<1>4. CASE EndPoll \/ Crash
  <2>1. poll' = IdlePoll
    BY <1>4 DEF EndPoll, Crash
  <2>2. TypeOK' /\ Queued' /\ InHand'
    BY <1>1, <1>2, <2>1 DEF IInv, TypeOK, Queued, InHand
  <2>3. QED
    BY <1>1, <2>2, SameEvents
<1>5. ASSUME NEW r \in Records, Take(r) PROVE IInv'
  <2>1. r \in poll.queue /\ poll' = [poll EXCEPT !.pc = "check", !.rec = r]
    BY <1>5 DEF Take, Taken
  <2>2. /\ poll' \in Polls /\ poll'.pc = "check" /\ poll'.rec = r
        /\ poll'.queue = poll.queue
    BY <2>1 DEF IInv, TypeOK
  <2>3. TypeOK' /\ Queued' /\ InHand'
    BY <1>1, <1>2, <2>1, <2>2 DEF IInv, TypeOK, Queued, InHand
  <2>4. QED
    BY <1>1, <2>3, SameEvents
<1>6. QED
  BY <1>3, <1>4, <1>5

\* Bookings come and go, and a cancellation leaves a pending event.
LEMMA WorldStep ==
    ASSUME IInv,
           \/ SwitchOff \/ ToggleGlobal
           \/ \E r \in Records : BecomesDue(r) \/ Cancelled(r) \/ ElsewhereChanged(r)
    PROVE  IInv'
<1>1. CASE SwitchOff \/ ToggleGlobal
  <2>1. /\ UNCHANGED <<live, fresh, crashes, event, due, history, poll, copies, offered>>
        /\ notifyOn' \in BOOLEAN /\ globalOn' \in BOOLEAN
    <3>1. notifyOn \in BOOLEAN /\ globalOn \in BOOLEAN
      BY DEF IInv, TypeOK
    <3>2. CASE SwitchOff
      BY <3>1, <3>2 DEF SwitchOff, world
    <3>3. CASE ToggleGlobal
      BY <3>1, <3>3 DEF ToggleGlobal, world
    <3>4. QED
      BY <1>1, <3>2, <3>3
  <2>2. TypeOK' /\ Queued' /\ InHand'
    BY <2>1 DEF IInv, TypeOK, Queued, InHand, Row
  <2>3. QED
    BY <2>1, <2>2, SameEvents
<1>2. ASSUME NEW r \in Records, BecomesDue(r) \/ ElsewhereChanged(r) PROVE IInv'
  <2>1. UNCHANGED <<crashes, event, history, notifyOn, globalOn, poll, copies, offered>>
    BY <1>2 DEF BecomesDue, ElsewhereChanged, world
  <2>2. live' \subseteq Records /\ fresh' \subseteq Records /\ due' \subseteq Records
    BY <1>2 DEF BecomesDue, ElsewhereChanged, world, Bookings!Add, Bookings!Remove, IInv, TypeOK
  <2>3. TypeOK' /\ Queued' /\ InHand'
    BY <2>1, <2>2 DEF IInv, TypeOK, Queued, InHand, Row
  <2>4. QED
    BY <2>1, <2>3, SameEvents
<1>3. ASSUME NEW r \in Records, Cancelled(r) PROVE IInv'
  <2>1. /\ event' = [event EXCEPT ![r] = IF @ = "none" THEN "pending" ELSE @]
        /\ live' = live \ {r} /\ fresh' = fresh
        /\ UNCHANGED <<crashes, due, history, notifyOn, globalOn, poll, copies, offered>>
    BY <1>3 DEF Cancelled, Bookings!Cancel
  <2>2. /\ event' \in [Records -> EventStatuses]
        /\ \A w \in Records : event'[w] = event[w] \/ event'[w] = "pending"
    BY <2>1 DEF IInv, TypeOK, EventStatuses
  <2>3. TypeOK'
    BY <2>1, <2>2 DEF IInv, TypeOK
  <2>4. OneOfferPerCancellation' /\ RowsBehind' /\ InHand'
    BY <2>1 DEF IInv, OneOfferPerCancellation, RowsBehind, InHand, Row
  <2>5. EventsAreTrue'
    BY <2>1, <2>2 DEF IInv, EventsAreTrue, Row
  <2>6. Queued'
    BY <2>1, <2>2 DEF IInv, TypeOK, Queued
  <2>7. QED
    BY <2>3, <2>4, <2>5, <2>6 DEF IInv
<1>4. QED
  BY <1>1, <1>2, <1>3

\* Every step keeps the inductive invariant.
LEMMA Step == IInv /\ [Next]_vars => IInv'
<1> SUFFICES ASSUME IInv, [Next]_vars PROVE IInv'
  OBVIOUS
<1>1. CASE UNCHANGED vars
  <2>1. TypeOK' /\ Queued' /\ InHand'
    BY <1>1 DEF vars, world, IInv, TypeOK, Queued, InHand, Row
  <2>2. QED
    BY <1>1, <2>1, SameEvents DEF vars
<1>2. QED
  BY <1>1, UnsentStep, SentStep, ReservedStep, ClientStep, PollStep, WorldStep DEF Next, Polling

\* The initial state satisfies the inductive invariant.
LEMMA InitIInv == Init => IInv
<1> SUFFICES ASSUME Init PROVE IInv
  OBVIOUS
<1> USE DEF Init
<1>1. history \in Store!Tables /\ \A r \in Records : Row(r) = "none"
  BY DEF Store!EmptyTable, Store!Tables, Store!Statuses, Row
<1>2. event \in [Records -> EventStatuses] /\ copies \in [Records -> 0 .. 2]
  BY DEF EventStatuses
<1>3. TypeOK
  BY <1>1, <1>2, RecoveryAssumption DEF TypeOK
<1>4. QED
  BY <1>1, <1>3
  DEF IInv, OneOfferPerCancellation, EventsAreTrue, RowsBehind, Queued, InHand

\* The polls keep the inductive invariant for ever.
THEOREM Invariance == Spec => []IInv
  BY InitIInv, Step, PTL DEF Spec

\* Every value stays in its type.
THEOREM TypeCorrect == Spec => []TypeOK
<1>1. IInv => TypeOK
  BY DEF IInv
<1>2. QED
  BY <1>1, Invariance, PTL

\* One cancellation brings its client one offer at most.
THEOREM OneOfferAlways == Spec => []OneOfferPerCancellation
<1>1. IInv => OneOfferPerCancellation
  BY DEF IInv
<1>2. QED
  BY <1>1, Invariance, PTL

\* The event, the row and the chat of a cancellation agree.
THEOREM EventsAreTrueAlways == Spec => []EventsAreTrue
<1>1. IInv => EventsAreTrue
  BY DEF IInv
<1>2. QED
  BY <1>1, Invariance, PTL

\* No poll that listed an event earlier, and no old button, reopens it.
THEOREM SettledForGoodAlways == Spec => SettledForGood
<1> DEFINE Kept(r) == event'[r] \in {event[r]} \cup (IF event[r] = "sent" THEN Clicked ELSE {})
           Keeps == \A r \in Records :
                        event[r] \notin {"none", "pending"} \cup Clicked => Kept(r)
<1>1. ASSUME IInv, Next, NEW r \in Records, event[r] \notin {"none", "pending"} \cup Clicked
      PROVE  Kept(r)
  <2>1. r \notin poll.queue
    BY <1>1 DEF IInv, Queued
  <2>2. \A w \in Records : \A status : SetEvent(w, status) /\ w # r => event'[r] = event[r]
    BY <1>1 DEF SetEvent, IInv, TypeOK
  <2>3. ASSUME NEW w \in Records, NEW status, SetEvent(w, status), w \in poll.queue
        PROVE  Kept(r)
    BY <2>1, <2>2, <2>3
  <2>4. ASSUME NEW w \in Records,
               \/ TakeUnreachable(w) \/ CheckFails(w) \/ HasBooking(w) \/ NotSent(w)
               \/ SendRaises(w) \/ \E outcome \in Store!Outcomes : SendDone(w, outcome)
        PROVE  Kept(r)
    <3>1. w \in poll.queue
      BY <1>1, <2>4 DEF IInv, InHand, TakeUnreachable, Taken, CheckFails, HasBooking, NotSent,
                        SendRaises, SendDone
    <3>2. PICK status : SetEvent(w, status)
      BY <2>4 DEF TakeUnreachable, Skip, CheckFails, HasBooking, NotSent, SendRaises, SendDone
    <3>3. QED
      BY <2>3, <3>1, <3>2
  <2>5. ASSUME NEW w \in Records, NEW answer \in Clicked, Click(w, answer) PROVE Kept(r)
    <3>1. SetEvent(w, answer) /\ event[w] \in {"sent", "pending"}
      BY <2>5 DEF Click, CanClick
    <3>2. CASE w = r
      BY <1>1, <3>1, <3>2 DEF SetEvent, IInv, TypeOK
    <3>3. QED
      BY <2>2, <3>1, <3>2
  <2>6. ASSUME NEW w \in Records, Cancelled(w) PROVE Kept(r)
    BY <1>1, <2>6 DEF Cancelled, IInv, TypeOK
  <2>7. UNCHANGED event => Kept(r)
    OBVIOUS
  <2>8. CASE \/ BeginPoll \/ EndPoll \/ SwitchOff \/ ToggleGlobal \/ Crash
             \/ \E w \in Records : \/ Take(w) \/ Reserved(w) \/ Arrives(w) \/ BecomesDue(w)
                                   \/ ElsewhereChanged(w)
    BY <2>7, <2>8 DEF BeginPoll, EndPoll, SwitchOff, ToggleGlobal, Crash, Take, Reserved, Arrives,
                      BecomesDue, ElsewhereChanged
  <2>9. QED
    BY <1>1, <2>4, <2>5, <2>6, <2>8 DEF Next, Polling
<1>2. IInv /\ [Next]_vars => [Keeps]_vars
  BY <1>1
<1>3. QED
  BY <1>2, Invariance, PTL DEF Spec, SettledForGood

-----------------------------------------------------------------------------
(* Refinement *)

\* The claim of a record's key depends on its row alone.
LEMMA ClaimOfRow ==
    ASSUME NEW h, NEW r
    PROVE  Store!ClaimOf(h, r) = IF h[Client][r] \in Store!ClaimedStatuses THEN Client
                                 ELSE IF h[Client][r] # "none" THEN "closed" ELSE "unclaimed"
  BY DEF Store!ClaimOf, Store!HasRowForKey

\* Steps that leave the rows, or take a row from one reserved status to another,
\* leave the claims.
LEMMA ClaimsStay ==
    ASSUME \A r \in Records :
               \/ Row(r)' = Row(r)
               \/ Row(r) \in Store!ClaimedStatuses /\ Row(r)' \in Store!ClaimedStatuses
    PROVE  Claims' = Claims
<1>1. \A r \in Records : Store!ClaimOf(history', r) = Store!ClaimOf(history, r)
  BY ClaimOfRow DEF Row
<1>2. QED
  BY <1>1 DEF Claims

\* Without a row for a record the decision not to send closes its key.
LEMMA SkipRefines ==
    ASSUME IInv, NEW r \in Records, history' = Store!MarkSkipped(history, Client, r),
           UNCHANGED offered
    PROVE  Promise!Next \/ UNCHANGED Promise!vars
<1>1. /\ Row(r)' = IF Row(r) = "none" THEN "skipped" ELSE Row(r)
      /\ \A w \in Records : w # r => Row(w)' = Row(w)
  BY SkippedRow DEF IInv
<1>2. Copies' = Copies
  BY DEF Copies
<1>3. CASE Row(r) = "none"
  <2>1. Claims[r] = "unclaimed" /\ Store!ClaimOf(history', r) = "closed"
    BY <1>1, <1>3, ClaimOfRow
    DEF Claims, Row, Store!ClaimedStatuses, Store!Outcomes
  <2>2. \A w \in Records : w # r => Store!ClaimOf(history', w) = Store!ClaimOf(history, w)
    BY <1>1, ClaimOfRow DEF Row
  <2>3. Claims' = [w \in Records |-> IF w \in {r} THEN "closed" ELSE Claims[w]]
    BY <2>1, <2>2 DEF Claims
  <2>4. Promise!Close({r})
    BY <1>2, <2>1, <2>3 DEF Promise!Close, Promise!NoClaim, Promise!Closed
  <2>5. QED
    BY <2>4 DEF Promise!Next
<1>4. CASE Row(r) # "none"
  BY <1>1, <1>2, <1>4, ClaimsStay DEF Promise!vars
<1>5. QED
  BY <1>3, <1>4

\* Reserving the row claims the key.
LEMMA ReservedRefines ==
    ASSUME IInv, NEW r \in Records, Reserved(r)
    PROVE  Promise!Next
<1>1. /\ Row(r) = "none" /\ UNCHANGED offered
      /\ history' = Store!InsertOrIgnore(history, Client, r, "pending")
  BY ReservableRow DEF Reserved, Store!Reserve
<1>2. "pending" \in Store!Statuses /\ "pending" \in Store!ClaimedStatuses
  BY DEF Store!Statuses, Store!ClaimedStatuses
<1>3. Row(r)' = "pending" /\ \A w \in Records : w # r => Row(w)' = Row(w)
  BY <1>1, <1>2, InsertRow DEF IInv
<1>4. Claims[r] = "unclaimed" /\ Store!ClaimOf(history', r) = Client
  BY <1>1, <1>2, <1>3, ClaimOfRow DEF Claims, Row, Store!ClaimedStatuses, Store!Outcomes
<1>5. \A w \in Records : w # r => Store!ClaimOf(history', w) = Store!ClaimOf(history, w)
  BY <1>3, ClaimOfRow DEF Row
<1>6. Claims' = [Claims EXCEPT ![r] = Client]
  BY <1>4, <1>5 DEF Claims
<1>7. Promise!Claim(Client, r)
  BY <1>1, <1>4, <1>6 DEF Promise!Claim, Promise!NoClaim, Copies
<1>8. QED
  BY <1>7 DEF Promise!Next

\* The offer that arrives is the copy of a claimed key.
LEMMA ArrivesRefines ==
    ASSUME IInv, NEW r \in Records, Arrives(r)
    PROVE  Promise!Next
<1>1. /\ r \notin offered /\ offered' = offered \cup {r} /\ history' = history
      /\ Row(r) = "pending"
  BY DEF Arrives, IInv, InHand
<1>2. Claims[r] = Client /\ Claims' = Claims
  BY <1>1, ClaimOfRow DEF Claims, Row, Store!ClaimedStatuses
<1>3. Copies[Client][r] = 0 /\ Copies' = [Copies EXCEPT ![Client][r] = 1]
  BY <1>1 DEF Copies
<1>4. Promise!DeliverCopy(Client, r)
  BY <1>2, <1>3 DEF Promise!DeliverCopy
<1>5. QED
  BY <1>4 DEF Promise!Next

\* Every step of the loop is a decision, an arrival or a stutter.
LEMMA NextRefines == IInv /\ [Next]_vars => [Promise!Next]_(Promise!vars)
<1> SUFFICES ASSUME IInv, [Next]_vars PROVE Promise!Next \/ UNCHANGED Promise!vars
  OBVIOUS
<1>1. ASSUME UNCHANGED <<history, offered>> PROVE UNCHANGED Promise!vars
  BY <1>1 DEF Promise!vars, Claims, Copies
<1>2. ASSUME NEW r \in Records,
             \/ TakeUnreachable(r) \/ Take(r) \/ CheckFails(r) \/ HasBooking(r)
             \/ NotSent(r) \/ SendRaises(r)
      PROVE  Promise!Next \/ UNCHANGED Promise!vars
  <2>1. /\ offered' = offered
        /\ history' = Store!MarkSkipped(history, Client, r) \/ history' = history
    BY <1>2 DEF TakeUnreachable, Take, CheckFails, HasBooking, NotSent, SendRaises, Skip
  <2>2. QED
    BY <1>1, <2>1, SkipRefines
<1>3. ASSUME NEW r \in Records, NEW outcome \in Store!Outcomes, SendDone(r, outcome)
      PROVE  UNCHANGED Promise!vars
  <2>1. /\ Row(r) = "pending" /\ offered' = offered
        /\ history' = Store!MarkResult(history, Client, r, outcome)
    BY <1>3 DEF SendDone, IInv, InHand
  <2>2. outcome \in Store!Statuses /\ {outcome, "pending"} \subseteq Store!ClaimedStatuses
    BY DEF Store!Statuses, Store!ClaimedStatuses
  <2>3. Row(r)' = outcome /\ \A w \in Records : w # r => Row(w)' = Row(w)
    BY <2>1, <2>2, UpdateRow DEF IInv
  <2>4. Claims' = Claims
    BY <2>1, <2>2, <2>3, ClaimsStay
  <2>5. QED
    BY <2>1, <2>4 DEF Promise!vars, Copies
<1>4. CASE \/ BeginPoll \/ EndPoll \/ SwitchOff \/ ToggleGlobal \/ Crash \/ UNCHANGED vars
           \/ \E r \in Records : \/ BecomesDue(r) \/ Cancelled(r) \/ ElsewhereChanged(r)
                                 \/ \E answer \in Clicked : Click(r, answer)
  <2>1. UNCHANGED <<history, offered>>
    BY <1>4 DEF BeginPoll, EndPoll, SwitchOff, ToggleGlobal, Crash, vars, BecomesDue, Cancelled,
                ElsewhereChanged, Click
  <2>2. QED
    BY <1>1, <2>1
<1>5. QED
  BY <1>2, <1>3, <1>4, ReservedRefines, ArrivesRefines DEF Next, Polling

\* Initially every key is undecided.
LEMMA InitRefines == Init => Promise!Init
<1> SUFFICES ASSUME Init PROVE Promise!Init
  OBVIOUS
<1>1. \A r \in Records : history[Client][r] = "none"
  BY DEF Init, Store!EmptyTable
<1>2. \A r \in Records : Store!ClaimOf(history, r) = "unclaimed"
  BY <1>1, ClaimOfRow DEF Store!ClaimedStatuses, Store!Outcomes
<1>3. QED
  BY <1>2 DEF Init, Promise!Init, Claims, Copies, Promise!NoClaim

\* Events, polls and switches around the calls keep the promise of the delivery
\* protocol: an offer is decided once and nobody gets one that was not claimed.
THEOREM PromiseKept == Spec => PromiseSpec
  BY InitRefines, NextRefines, Invariance, PTL DEF Spec, PromiseSpec, Promise!Spec
=============================================================================
