----------------------------- MODULE MyBookings -----------------------------
(***************************************************************************)
(* flows/my_bookings.py and services/my_bookings.py: one client cancels    *)
(* and moves its bookings.                                                 *)
(*                                                                         *)
(* YClients has no way to move a record that the bot uses: a move creates  *)
(* a new record, then deletes the old one.  Each handler is suspended at   *)
(* its requests; handlers do not overlap, but the salon and the death of   *)
(* the process come in between.  The buttons of old messages keep working, *)
(* and what they act on is what the chat's state holds now.                *)
(***************************************************************************)
EXTENDS Naturals

CONSTANTS
    Records,    \* YClients record ids
    First,      \* the records that exist at the start
    Slots,      \* times to move a booking to
    Attempts,   \* RetryPolicy.attempts
    Nothing

ASSUME MyBookingsAssumption ==
    /\ First \subseteq Records
    /\ Nothing \notin Records \cup Slots
    /\ Attempts \in Nat \ {0}

VARIABLES
    live,       \* YClients: the future bookings of the client
    fresh,      \* record ids YClients has not given yet
    recovering, \* cancellation_recovery_events: the records with an event
    attributed, \* platform_attribution: the records with a row
    unsaved,    \* records whose row the database refused (observation)
    nav,        \* the chat's state
    locks,      \* core/action_locks.py
    job,        \* the handler suspended at a request
    asked,      \* whether the chat has a card that asks about a cancellation
    card,       \* the record and slot of the last card of a move (observation)
    made,       \* <<old, new>>: new was made to replace old (observation)
    moved,      \* records deleted by a move (observation)
    told        \* the answer to the last confirmation

rest == <<recovering, unsaved, asked, card, made, moved>>
vars == <<live, fresh, attributed, nav, locks, job, rest, told>>

Maybe(S) == S \cup {Nothing}

NoNav == [listed |-> {}, selected |-> Nothing,
          cancelling |-> Nothing, completed |-> {},
          source |-> Nothing, slot |-> Nothing, moving |-> FALSE,
          outcome |-> Nothing, movedOld |-> Nothing]

Navs == [listed : SUBSET Records,               \* my_bookings_active_items
         selected : Maybe(Records),             \* the selected booking
         cancelling : Maybe(Records),           \* cancel in progress
         completed : SUBSET Records,            \* cancelled in this chat
         source : Maybe(Records),               \* the reschedule context
         slot : Maybe(Slots),                   \* the new slot
         moving : BOOLEAN,                      \* reschedule in progress
         outcome : Maybe({"success", "partial"}),  \* the persisted result
         movedOld : Maybe(Records)]             \* completed old record

NoJob == [pc |-> "idle", rec |-> Nothing, new |-> Nothing, attempt |-> 0]
Jobs == [pc : {"idle", "show", "check", "delete", "recheck", "create", "deleteOld"},
         rec : Maybe(Records), new : Maybe(Records), attempt : 0 .. Attempts]

Answers == {"nothing", "cancelled", "not_cancelled", "moved", "partly_moved", "not_moved"}

TypeOK ==
    /\ live \subseteq Records /\ fresh \subseteq Records
    /\ recovering \subseteq Records
    /\ attributed \subseteq Records /\ unsaved \subseteq Records
    /\ nav \in Navs
    /\ locks \subseteq {"cancel", "move"} \X Records
    /\ job \in Jobs
    /\ asked \in BOOLEAN /\ card \in Maybe(Records \X Slots)
    /\ moved \subseteq Records
    /\ made \subseteq Records \X Records
    /\ told \in [answer : Answers, rec : Maybe(Records), new : Maybe(Records)]

Silence == [answer |-> "nothing", rec |-> Nothing, new |-> Nothing]

Init ==
    /\ live = First /\ fresh = Records \ First
    /\ recovering = {} /\ attributed = First /\ unsaved = {}
    /\ nav = NoNav
    /\ locks = {}
    /\ job = NoJob
    /\ asked = FALSE /\ card = Nothing /\ made = {} /\ moved = {}
    /\ told = Silence

Free == job.pc = "idle"

-----------------------------------------------------------------------------
(* The screens *)

\* "My bookings": _show_my_bookings asks YClients.
Open ==
    /\ Free
    /\ job' = [NoJob EXCEPT !.pc = "show"]
    /\ UNCHANGED <<live, fresh, attributed, nav, locks, rest, told>>

\* ... which answers or not; the nearest booking is selected.  Which one is
\* nearest is left open.
Show ==
    /\ job.pc = "show"
    /\ \/ UNCHANGED nav
       \/ \E r \in IF live = {} THEN {Nothing} ELSE live :
             nav' = [nav EXCEPT !.listed = live, !.selected = r,
                                !.cancelling = Nothing, !.moving = FALSE]
    /\ job' = NoJob
    /\ UNCHANGED <<live, fresh, attributed, locks, rest, told>>

\* handle_my_booking_details: the record is read again.
Details(r) ==
    /\ Free /\ r \in nav.listed \cap live
    /\ nav' = [nav EXCEPT !.selected = r]
    /\ UNCHANGED <<live, fresh, attributed, locks, job, rest, told>>

\* _show_active_booking_page selects a booking of the list, whatever has become of
\* it; so does handle_my_booking_repeat_start on the history.
ShowActive(r) ==
    /\ Free /\ r \in nav.listed
    /\ nav' = [nav EXCEPT !.selected = r]
    /\ UNCHANGED <<live, fresh, attributed, locks, job, rest, told>>

\* Home: core/state.py reset_to_home forgets the chat's state.
Home ==
    /\ Free /\ nav # NoNav
    /\ nav' = NoNav
    /\ UNCHANGED <<live, fresh, attributed, locks, job, rest, told>>

\* Four seconds later; during a handler no other reads the lock.
LockExpires ==
    /\ Free /\ locks # {}
    /\ locks' = {}
    /\ UNCHANGED <<live, fresh, attributed, nav, job, rest, told>>

\* request: another attempt
Repeat == job.attempt < Attempts /\ job' = [job EXCEPT !.attempt = @ + 1]

\* A handler ends with an answer about record r.
Ends(answer, r, new) ==
    /\ job' = NoJob
    /\ told' = [answer |-> answer, rec |-> r, new |-> new]

-----------------------------------------------------------------------------
(* Cancelling *)

\* handle_my_booking_cancel_start: the booking is read, and the card asks.
CancelStart ==
    /\ Free /\ nav.selected \in live
    /\ asked' = TRUE
    /\ UNCHANGED <<live, fresh, attributed, nav, locks, job, recovering, unsaved, card,
                   made, moved, told>>

CancelRefused(r) == r \in nav.completed \/ nav.cancelling = r \/ <<"cancel", r>> \in locks

\* handle_my_booking_cancel_confirm cancels the booking selected now, on any
\* screen and from the button of any message.
CancelConfirm ==
    LET r == nav.selected IN
    /\ Free /\ r # Nothing /\ asked
    /\ ~ CancelRefused(r)
    /\ nav' = [nav EXCEPT !.cancelling = r]
    /\ locks' = locks \cup {<<"cancel", r>>}
    /\ job' = [NoJob EXCEPT !.pc = "check", !.rec = r]
    /\ told' = Silence
    /\ UNCHANGED <<live, fresh, attributed, rest>>

\* Mutant of CancelFailed: the error forgets the lock and the flag.
CancelFailedLocked(r) ==
    /\ Ends("not_cancelled", r, Nothing)
    /\ UNCHANGED <<nav, locks>>

\* MyBookingCancellationError: the flag and the lock are given back.
CancelFailed(r) ==
    /\ nav' = [nav EXCEPT !.cancelling = Nothing]
    /\ locks' = locks \ {<<"cancel", r>>}
    /\ Ends("not_cancelled", r, Nothing)

\* Mutant of CancelCheck: the event is created before the record is deleted.
CancelCheckWithEvent(r) ==
    /\ job.pc = "check" /\ job.rec = r
    /\ r \in live
    /\ recovering' = recovering \cup {r}
    /\ job' = [job EXCEPT !.pc = "delete", !.attempt = 1]
    /\ UNCHANGED <<live, fresh, attributed, unsaved, nav, locks, asked, card, made, moved, told>>

\* cancel_booking_for_user reads the record before it deletes it.
CancelCheck(r) ==
    /\ job.pc = "check" /\ job.rec = r
    /\ \/ CancelFailed(r)
       \/ /\ r \in live
          /\ job' = [job EXCEPT !.pc = "delete", !.attempt = 1]
          /\ UNCHANGED <<nav, locks, told>>
    /\ UNCHANGED <<live, fresh, attributed, rest>>

\* YClients carries the DELETE out, and no answer comes.
DeleteLost(r) ==
    /\ job.pc = "delete" /\ job.rec = r
    /\ r \in live /\ live' = live \ {r}
    /\ \/ Repeat /\ UNCHANGED <<nav, locks, told>>
       \/ job.attempt = Attempts /\ CancelFailed(r)
    /\ UNCHANGED <<recovering, fresh, attributed, unsaved, asked, card, made, moved>>

\* The request is lost on its way, or refused; a record that is gone, be it by
\* the attempt before, answers 404.
DeleteFails(r) ==
    /\ job.pc = "delete" /\ job.rec = r
    /\ \/ Repeat /\ UNCHANGED <<nav, locks, told>>
       \/ CancelFailed(r)
    /\ UNCHANGED <<live, fresh, attributed, rest>>

\* Records get their rows, beginning with the first's, up to the row that the
\* database refuses; the error is swallowed.
Log(first, records) ==
    \E saved \in SUBSET records :
       /\ saved # {} => first \in saved
       /\ attributed' = attributed \cup saved
       /\ unsaved' = unsaved \cup (records \ saved)

\* The rest of the handler, which ends by showing the list
Deleted(r) ==
    /\ job.pc = "delete" /\ job.rec = r
    /\ r \in live /\ live' = live \ {r}
    /\ Log(r, {r})                           \* _log_local_cancellation
    /\ recovering' = recovering \cup {r}     \* create_cancellation_recovery_event
    /\ nav' = [nav EXCEPT !.completed = @ \cup {r}, !.cancelling = Nothing,
                          !.selected = Nothing]
    /\ told' = [answer |-> "cancelled", rec |-> r, new |-> Nothing]
    /\ job' = [NoJob EXCEPT !.pc = "show"]
    /\ UNCHANGED <<fresh, locks, asked, card, made, moved>>

-----------------------------------------------------------------------------
(* Moving *)

\* Mutant of MoveStart: the slot chosen for the last move stays chosen.
MoveStartKeepingSlot ==
    /\ Free /\ nav.selected \in live
    /\ nav' = [nav EXCEPT !.outcome = Nothing, !.movedOld = Nothing,
                          !.source = nav.selected, !.moving = FALSE]
    /\ UNCHANGED <<live, fresh, attributed, locks, job, rest, told>>

\* handle_my_booking_reschedule_start forgets the outcome of the last move, then
\* reads the booking; when that fails the last move's choices stay.
MoveStart ==
    LET clean == [nav EXCEPT !.outcome = Nothing, !.movedOld = Nothing] IN
    /\ Free /\ nav.selected # Nothing
    /\ \/ nav' = clean
       \/ /\ nav.selected \in live
          /\ nav' = [clean EXCEPT !.source = nav.selected, !.slot = Nothing, !.moving = FALSE]
    /\ UNCHANGED <<live, fresh, attributed, locks, job, rest, told>>

\* handle_my_booking_reschedule_date
PickDate ==
    /\ Free /\ nav.source # Nothing
    /\ nav' = [nav EXCEPT !.slot = Nothing]
    /\ UNCHANGED <<live, fresh, attributed, locks, job, rest, told>>

\* handle_my_booking_reschedule_slot: the card names both times.
PickSlot(s) ==
    /\ Free /\ nav.source # Nothing
    /\ nav' = [nav EXCEPT !.slot = s]
    /\ card' = <<nav.source, s>>
    /\ UNCHANGED <<live, fresh, attributed, locks, job, recovering, unsaved, asked,
                   made, moved, told>>

\* Mutant of MoveRefused: the outcome of the last move is not looked at.
MoveRefusedWhileMoving(r) == nav.moving \/ <<"move", r>> \in locks

MoveRefused(r) ==
    \/ nav.moving \/ nav.outcome # Nothing \/ nav.movedOld = r
    \/ <<"move", r>> \in locks

\* handle_my_booking_reschedule_confirm moves the record of the context.
MoveConfirm ==
    LET r == nav.source IN
    /\ Free /\ r # Nothing /\ nav.slot # Nothing
    /\ ~ MoveRefused(r)
    /\ locks' = locks \cup {<<"move", r>>}
    /\ job' = [NoJob EXCEPT !.pc = "recheck", !.rec = r]
    /\ told' = Silence
    /\ UNCHANGED <<live, fresh, attributed, nav, rest>>

\* The slots and the record are read again: an error or a record that is gone, a
\* slot that is gone, or go on.
Recheck(r) ==
    /\ job.pc = "recheck" /\ job.rec = r
    /\ \/ /\ nav' \in {[nav EXCEPT !.moving = FALSE],
                       [nav EXCEPT !.moving = FALSE, !.slot = Nothing]}
          /\ locks' = locks \ {<<"move", r>>}
          /\ job' = NoJob
       \/ /\ r \in live
          /\ nav' = [nav EXCEPT !.moving = TRUE]
          /\ job' = [job EXCEPT !.pc = "create", !.attempt = 1]
          /\ UNCHANGED locks
    /\ UNCHANGED <<live, fresh, attributed, rest, told>>

\* YClients carries the creation out: record n for r.
Make(r, n) ==
    /\ n \in fresh /\ fresh' = fresh \ {n}
    /\ live' = live \cup {n}
    /\ made' = made \cup {<<r, n>>}

\* YClients carries the deletion of the old record out.
DeleteOld(r) ==
    /\ r \in live /\ live' = live \ {r}
    /\ moved' = moved \cup {r}

MoveFailed(r) ==
    /\ nav' = [nav EXCEPT !.moving = FALSE]
    /\ locks' = locks \ {<<"move", r>>}
    /\ Ends("not_moved", r, Nothing)

\* The creation is carried out and the bot learns of no record: no answer comes, and
\* it is tried again or was the last attempt, or the answer names no record.
CreateLost(r, n) ==
    /\ job.pc = "create" /\ job.rec = r
    /\ Make(r, n)
    /\ \/ Repeat /\ UNCHANGED <<nav, locks, told>>
       \/ MoveFailed(r)
    /\ UNCHANGED <<recovering, attributed, unsaved, asked, card, moved>>

\* It is not carried out: tried again, or refused.
CreateFails(r) ==
    /\ job.pc = "create" /\ job.rec = r
    /\ \/ Repeat /\ UNCHANGED <<nav, locks, told>>
       \/ MoveFailed(r)
    /\ UNCHANGED <<live, fresh, attributed, rest>>

\* Mutant of CreateAnswered: the old record goes with the request.
CreateAnsweredLast(r, n) ==
    /\ job.pc = "create" /\ job.rec = r
    /\ DeleteOld(r)
    /\ job' = [job EXCEPT !.pc = "deleteOld", !.attempt = 1]
    /\ UNCHANGED <<recovering, fresh, attributed, unsaved, nav, locks, asked, card, made, told>>

\* The answer names the new record.
CreateAnswered(r, n) ==
    /\ job.pc = "create" /\ job.rec = r
    /\ Make(r, n)
    /\ job' = [job EXCEPT !.pc = "deleteOld", !.attempt = 1, !.new = n]
    /\ UNCHANGED <<recovering, attributed, unsaved, nav, locks, asked, card, moved, told>>

\* reschedule_booking_for_user raises: the new record is kept.
DeleteOldFailed(r) ==
    /\ nav' = [nav EXCEPT !.moving = FALSE, !.movedOld = r, !.outcome = "partial"]
    /\ locks' = locks \ {<<"move", r>>}
    /\ Ends("partly_moved", r, job.new)

DeleteOldLost(r) ==
    /\ job.pc = "deleteOld" /\ job.rec = r
    /\ DeleteOld(r)
    /\ \/ Repeat /\ UNCHANGED <<nav, locks, told>>
       \/ job.attempt = Attempts /\ DeleteOldFailed(r)
    /\ UNCHANGED <<recovering, fresh, attributed, unsaved, asked, card, made>>

DeleteOldFails(r) ==
    /\ job.pc = "deleteOld" /\ job.rec = r
    /\ \/ Repeat /\ UNCHANGED <<nav, locks, told>>
       \/ DeleteOldFailed(r)
    /\ UNCHANGED <<live, fresh, attributed, rest>>

\* Mutant of Attributed: the new record is forgotten.
AttributedOld(r) == {r}

\* The records _log_local_reschedule writes rows for
Attributed(r) == {job.new, r}

\* The rest of the handler
OldDeleted(r) ==
    /\ job.pc = "deleteOld" /\ job.rec = r
    /\ DeleteOld(r)
    /\ Log(job.new, Attributed(r))
    /\ nav' = [nav EXCEPT !.movedOld = r, !.outcome = "success", !.source = Nothing,
                          !.slot = Nothing, !.moving = FALSE, !.selected = Nothing]
    /\ locks' = locks \ {<<"move", r>>}
    /\ Ends("moved", r, job.new)
    /\ UNCHANGED <<recovering, fresh, asked, card, made>>

-----------------------------------------------------------------------------
(* The salon, and the death of the process *)

\* A booking is removed by the salon or with the button of a reminder
\* (flows/booking_reminders.py), or its hour comes.
Elsewhere(r) ==
    /\ r \in live /\ live' = live \ {r}
    /\ UNCHANGED <<fresh, attributed, nav, locks, job, rest, told>>

\* The salon or another client's hand books for the client.
Booked(n) ==
    /\ n \in fresh /\ fresh' = fresh \ {n}
    /\ live' = live \cup {n}
    /\ UNCHANGED <<attributed, nav, locks, job, rest, told>>

Crash ==
    /\ nav' = NoNav /\ locks' = {} /\ job' = NoJob
    /\ told' = Silence
    /\ UNCHANGED <<live, fresh, attributed, rest>>

Cancelling ==
    \E r \in Records : CancelCheck(r) \/ DeleteLost(r) \/ DeleteFails(r) \/ Deleted(r)

Moving ==
    \E r \in Records :
       \/ Recheck(r) \/ CreateFails(r) \/ DeleteOldLost(r) \/ DeleteOldFails(r) \/ OldDeleted(r)
       \/ \E n \in Records : CreateLost(r, n) \/ CreateAnswered(r, n)

Screens ==
    \/ Open \/ Home \/ LockExpires \/ CancelStart \/ CancelConfirm
    \/ MoveStart \/ PickDate \/ MoveConfirm
    \/ \E r \in Records : Details(r) \/ ShowActive(r)
    \/ \E s \in Slots : PickSlot(s)

Next ==
    \/ Screens \/ Show \/ Cancelling \/ Moving \/ Crash
    \/ \E r \in Records : Elsewhere(r) \/ Booked(r)

Spec == Init /\ [][Next]_vars

-----------------------------------------------------------------------------
(* Properties *)

Bookings == INSTANCE ClientBookings

\* What CancellationRecovery is built upon: however confirmations, lost answers,
\* old buttons and the salon interleave, an event for recovery arises exactly
\* with the removal of a booking by the client's cancellation.
LedgerSpec == Bookings!LedgerSpec

\* A move deletes a booking only once another one was made in its place,
\* whatever answers are lost ("safe rebooking: create new, then cancel old").
NeverBookless == \A r \in moved : \E n \in Records : <<r, n>> \in made

\* The last answer is true and stays true: a booking said to be cancelled or
\* moved is gone, its replacement was made, and the reminders know the record
\* unless the database refused its row.
AnswersAreTrue ==
    /\ told.answer \in {"cancelled", "moved"} => told.rec \notin live
    /\ told.answer \in {"moved", "partly_moved"} => <<told.rec, told.new>> \in made
    /\ told.answer = "moved" => told.new \in attributed \cup unsaved

\* Between handlers no flag or lock keeps a booking that still exists from being
\* cancelled or moved.
NothingLeftLocked ==
    job.pc = "idle" =>
        /\ ~ nav.moving /\ nav.cancelling = Nothing
        /\ \A a \in {"cancel", "move"}, r \in live : <<a, r>> \notin locks

\* What a confirmation would move is what the latest card of a move shows, both
\* record and slot: choices of different moves never meet in one request.
MovesAsShown ==
    nav.source # Nothing /\ nav.slot # Nothing => card = <<nav.source, nav.slot>>

\* Once a move has ended, be it half-way, no button makes another record before
\* the client starts a new move.
EndedMovesMakeNothing == [][nav.outcome # Nothing => made' = made]_vars

=============================================================================
