----------------------------- MODULE BookingFlow -----------------------------
(***************************************************************************)
(* flows/booking.py with services/booking.py, core/action_locks.py and     *)
(* integrations/yclients/client.py: one user chooses a date and a slot,    *)
(* gives a phone, sees the confirmation card and taps "confirm"; the bot   *)
(* checks the slot once more and creates the record in YClients.           *)
(*                                                                         *)
(* The polling task handles one update at a time (main.py), so a handler   *)
(* that only reads YClients is one action.  The handler of the             *)
(* confirmation is several: other clients take and free slots, requests    *)
(* are lost and the process may stop between its steps.  Buttons of old    *)
(* messages stay on the user's screen: a handler runs on any screen its    *)
(* own guard accepts.                                                      *)
(*                                                                         *)
(* Service and master are fixed; a slot has as many places as there are    *)
(* masters who can take it ("any specialist" is master 0), which only      *)
(* YClients counts.  The screens before the list of dates are one with it. *)
(***************************************************************************)
EXTENDS Naturals, FiniteSets

CONSTANTS
    Dates, Times,
    Capacity,   \* places of every slot
    Attempts,   \* RetryPolicy.attempts
    Faults,     \* whether the local database may fail, and answers name no record
    None

Slots == Dates \X Times

\* A created record, the latest card when it was confirmed, the check before it, and
\* what became of its row in platform_attribution
RecordOf == [slot : Slots, card : Slots \cup {None}, checked : Slots,
             row : {"none", "saved", "lost"}]

ASSUME BookingAssumption ==
    /\ {Capacity, Attempts} \subseteq Nat \ {0}
    /\ Faults \in BOOLEAN
    /\ None \notin Dates \cup Slots
    /\ None \notin RecordOf

VARIABLES
    free,        \* YClients: places left in each slot
    record,      \* YClients: the last record the bot created, and the card and the
                 \* check behind it, and its row in platform_attribution
    nav,         \* core/state.py: this chat's screen and state_data
    locked,      \* core/action_locks.py: booking_create|<user>
    card,        \* the slot named on the last confirmation card, None once a handler
                 \* failed after choosing another
    confirm,     \* handle_booking_confirm in progress
    told,        \* what the last confirmation ended with
    acked,       \* record ids received since the slot was chosen
    raised       \* an exception ended a confirmation and left its flag or lock

vars == <<free, record, nav, locked, card, confirm, told, acked, raised>>

Screens == {"main", "dates", "slots", "phone", "confirmation", "success"}
Active == Screens \ {"main"}

NoDraft == [screen |-> "main", date |-> None, slot |-> None, slots |-> {}, phone |-> FALSE,
            busy |-> FALSE, completed |-> None]

Drafts == [screen : Screens, date : Dates \cup {None}, slot : Slots \cup {None},
           slots : SUBSET Slots, phone : BOOLEAN, busy : BOOLEAN, completed : Slots \cup {None}]

Idle == [pc |-> "idle", checked |-> None, attempt |-> 0]

Confirms == [pc : {"idle", "recheck", "post", "success"}, checked : Slots \cup {None},
             attempt : 0 .. Attempts]

Answers == {"nothing", "busy", "taken", "unavailable", "not_created", "booked"}

TypeOK ==
    /\ free \in [Slots -> 0 .. Capacity]
    /\ record \in RecordOf \cup {None}
    /\ nav \in Drafts
    /\ locked \in BOOLEAN /\ raised \in BOOLEAN
    /\ card \in Slots \cup {None}
    /\ confirm \in Confirms
    /\ told \in [answer : Answers, slot : Slots \cup {None}]
    /\ acked \in Nat

Silence == [answer |-> "nothing", slot |-> None]

Init ==
    /\ free = [s \in Slots |-> Capacity]
    /\ record = None
    /\ nav = NoDraft
    /\ locked = FALSE /\ raised = FALSE
    /\ card = None
    /\ confirm = Idle
    /\ told = Silence
    /\ acked = 0

-----------------------------------------------------------------------------
(* The steps that lead to the confirmation *)

\* get_available_slots
Available(d) == {s \in Slots : s[1] = d /\ free[s] > 0}

\* The pair revalidate_selected_slot is asked about: the date chosen last and
\* the time of the slot chosen last.
Asked == <<nav.date, nav.slot[2]>>

\* _open_booking_slots: the list cannot be read, is empty, or is shown
OpenSlots(n) ==
    {[n EXCEPT !.screen = "slots"],
     IF Available(n.date) = {}
     THEN [n EXCEPT !.screen = "dates", !.slots = {}, !.slot = None]
     ELSE [n EXCEPT !.screen = "slots", !.slots = Available(n.date)]}

Handler(n) ==
    /\ confirm.pc = "idle"
    /\ nav' = n
    /\ UNCHANGED <<free, record, locked, confirm, told>>

\* A clean draft leaves nothing of an exception but the lock.
Clean(n) == raised' = (raised /\ (n.busy \/ locked))

\* Home, or "cancel" on the confirmation: the draft is forgotten.
Leave ==
    /\ nav.screen \in Active
    /\ Handler(NoDraft) /\ Clean(NoDraft)
    /\ UNCHANGED <<card, acked>>

\* A new booking, up to the list of dates.
Start ==
    LET n == [NoDraft EXCEPT !.screen = "dates"] IN
    /\ Handler(n) /\ Clean(n)
    /\ UNCHANGED <<card, acked>>

\* handle_booking_master, on the list of any message
PickMaster ==
    /\ nav.screen \in Active
    /\ Handler([nav EXCEPT !.screen = "dates", !.date = None, !.slot = None])
    /\ UNCHANGED <<card, acked, raised>>

\* handle_booking_date: the slot chosen before stays in the draft.
PickDate(d) ==
    /\ nav.screen \in Active
    /\ \E n \in OpenSlots([nav EXCEPT !.date = d]) : Handler(n)
    /\ UNCHANGED <<card, acked, raised>>

\* Back from the slots, "any specialist" on the list of any message
ShowDates ==
    /\ nav.screen \in Active
    /\ Handler([nav EXCEPT !.screen = "dates"])
    /\ UNCHANGED <<card, acked, raised>>

\* Back from the phone, or a page button of any list of slots: the list shown
\* last comes again.  Without one, or for a slot no longer on it, it is asked for.
ShowSlots ==
    /\ nav.screen \in Active /\ nav.date # None
    /\ \/ nav.slots # {} /\ Handler([nav EXCEPT !.screen = "slots"])
       \/ \E n \in OpenSlots(nav) : Handler(n)
    /\ UNCHANGED <<card, acked, raised>>

\* Back from the confirmation to the phone, from the success home
Back ==
    /\ \/ /\ nav.screen = "confirmation"
          /\ Handler([nav EXCEPT !.screen = "phone"])
       \/ /\ nav.screen = "success"
          /\ Handler([nav EXCEPT !.screen = "main"])
    /\ UNCHANGED <<card, acked, raised>>

\* What handle_booking_slot writes before it shows the next screen
SlotChosen(s) == [nav EXCEPT !.slot = s, !.busy = FALSE, !.completed = None, !.phone = FALSE]

\* handle_booking_slot: the slot is looked up in the list shown last.
PickSlot(s) ==
    LET n == SlotChosen(s) IN
    /\ nav.screen \in Active /\ nav.date # None /\ s \in nav.slots
    /\ acked' = 0
    /\ \/ /\ Handler([n EXCEPT !.screen = "phone"]) /\ Clean(n)
          /\ UNCHANGED card
       \/ /\ Faults /\ Handler(n) /\ Clean(n)   \* _show_booking_phone: the user cannot be read
          /\ card' = None

\* Mutant of CardSlot: the card shows the date and time of the last choices.
CardSlotOfChoices(n) == <<n.date, n.slot[2]>>

\* _display_date_time
CardSlot(n) == n.slot

\* The phone, by the button of any message or (on its screen) by text: then
\* _show_booking_confirmation, which checks the slot.
GivePhone ==
    LET n == [nav EXCEPT !.phone = TRUE] IN
    /\ nav.screen \in Active
    /\ \/ /\ n.date = None \/ n.slot = None
          /\ Handler([n EXCEPT !.screen = "dates"]) /\ UNCHANGED card
       \/ /\ n.date # None /\ n.slot # None
          /\ \/ Handler(n) /\ UNCHANGED card                             \* BookingServiceError
             \/ /\ Asked \notin Available(n.date)
                /\ \E m \in OpenSlots(n) : Handler(m)
                /\ UNCHANGED card
             \/ /\ Asked \in Available(n.date)
                /\ Handler([n EXCEPT !.screen = "confirmation"])
                /\ card' = CardSlot(n)
    /\ UNCHANGED <<acked, raised>>

-----------------------------------------------------------------------------
(* handle_booking_confirm and _create_booking_after_lock *)

\* The exits that reset the flag, release the lock and end the handler
Exit(n, answer) ==
    /\ nav' = [n EXCEPT !.busy = FALSE]
    /\ locked' = FALSE
    /\ confirm' = [confirm EXCEPT !.pc = "idle"]
    /\ told' = [answer |-> answer, slot |-> None]

\* Mutant of RecheckExit: the flag stays set when the slot has been taken.
RecheckExitKeepsFlag(n, answer) ==
    /\ nav' = n
    /\ locked' = FALSE
    /\ confirm' = [confirm EXCEPT !.pc = "idle"]
    /\ told' = [answer |-> answer, slot |-> None]

\* The exit of the final check
RecheckExit(n, answer) == Exit(n, answer)

\* Mutant of Refused: a completed draft may be confirmed again.
RefusedUnlessFree == nav.busy \/ locked

\* A second tap: one confirmation is in progress, or the draft is completed.
Refused == nav.busy \/ nav.completed # None \/ locked

ConfirmRefused ==
    /\ confirm.pc = "idle" /\ nav.screen = "confirmation"
    /\ Refused
    /\ told' = [answer |-> IF nav.busy \/ nav.completed = None THEN "busy" ELSE "nothing",
                slot |-> None]
    /\ UNCHANGED <<free, record, nav, locked, card, confirm, acked, raised>>

\* The button of any card: it names no draft, and what it confirms is the draft
\* as it is now.  The flag is set and the lock taken; the user is read and the draft checked
\* for its phone and its choices.
ConfirmBegin ==
    /\ confirm.pc = "idle" /\ nav.screen = "confirmation"
    /\ ~Refused
    /\ \/ /\ Faults                                   \* the user cannot be read
          /\ nav' = [nav EXCEPT !.busy = TRUE] /\ locked' = TRUE /\ raised' = TRUE
          /\ UNCHANGED <<confirm, told>>
       \/ /\ ~(nav.phone /\ nav.date # None /\ nav.slot # None)
          /\ nav' = IF nav.phone THEN nav ELSE [nav EXCEPT !.screen = "phone"]
          /\ told' = Silence
          /\ UNCHANGED <<locked, confirm, raised>>
       \/ /\ nav.phone /\ nav.date # None /\ nav.slot # None
          /\ nav' = [nav EXCEPT !.busy = TRUE]
          /\ locked' = TRUE
          /\ confirm' = [pc |-> "recheck", checked |-> None, attempt |-> 0]
          /\ told' = Silence
          /\ UNCHANGED raised
    /\ UNCHANGED <<free, record, card, acked>>

\* revalidate_selected_slot: an error, a slot no longer there, or go on
Recheck ==
    /\ confirm.pc = "recheck"
    /\ \/ Exit(nav, "unavailable")
       \/ /\ Asked \notin Available(nav.date)
          /\ \E n \in OpenSlots(nav) : RecheckExit(n, "taken")
       \/ /\ Asked \in Available(nav.date)
          /\ confirm' = [confirm EXCEPT !.pc = "post", !.checked = Asked, !.attempt = 1]
          /\ UNCHANGED <<nav, locked, told>>
    /\ UNCHANGED <<free, record, card, acked, raised>>

\* YClients gives one of the slot's places to the request.
CreatedWith(row) ==
    /\ free[nav.slot] > 0
    /\ free' = [free EXCEPT ![nav.slot] = @ - 1]
    /\ record' = [slot |-> nav.slot, card |-> card, checked |-> confirm.checked, row |-> row]

\* ... and the bot does not learn of the record.
Created == CreatedWith("none")

NotCreated == UNCHANGED <<free, record>>

\* attempt < self._retry.attempts
MayRetry == confirm.attempt < Attempts

\* The next turn of the for loop
NextAttempt == confirm.attempt + 1

\* No answer in time, a broken connection or a 5xx, whether or not the request
\* was carried out: the same request is sent again while attempts are left.
PostLost ==
    /\ confirm.pc = "post" /\ MayRetry
    /\ Created \/ NotCreated
    /\ confirm' = [confirm EXCEPT !.attempt = NextAttempt]
    /\ UNCHANGED <<nav, locked, card, told, acked, raised>>

\* The last attempt is lost, the client's cooldown or a rate limit refuses the
\* request, YClients refuses the slot, or its answer names no record.
PostRefused ==
    /\ confirm.pc = "post"
    /\ \/ confirm.attempt = Attempts /\ Created /\ Exit(nav, "unavailable")
       \/ NotCreated /\ Exit(nav, "unavailable")
       \/ NotCreated /\ Exit(nav, "not_created")
       \/ Faults /\ Created /\ Exit(nav, "not_created")
    /\ UNCHANGED <<card, acked, raised>>

\* The draft once the record's id is known, before the gift is marked
Completed == [nav EXCEPT !.completed = nav.slot, !.busy = FALSE]

\* Mutant of Attributed: only records of a gift are attributed.
AttributedUnlessPlain == {"none"}

\* _save_attribution_safely, which swallows a failing save
Attributed == {"saved"} \cup (IF Faults THEN {"lost"} ELSE {})

\* The answer names the record: the draft is completed, the gift marked (or the
\* mark fails and the handler ends there), the record attributed if the database
\* takes it, and the screen of success comes up either way.
PostAnswered ==
    /\ confirm.pc = "post"
    /\ acked' = acked + 1
    /\ \/ /\ Faults
          /\ CreatedWith("none")
          /\ nav' = Completed
          /\ raised' = TRUE
          /\ confirm' = [confirm EXCEPT !.pc = "idle"]
       \/ /\ \E row \in Attributed : CreatedWith(row)
          /\ nav' = [Completed EXCEPT !.screen = "success"]
          /\ confirm' = [confirm EXCEPT !.pc = "success"]
          /\ UNCHANGED raised
    /\ UNCHANGED <<locked, card, told>>

\* _send_immediate_confirmation_safely; whatever comes of it, the lock goes.
Success ==
    /\ confirm.pc = "success"
    /\ locked' = FALSE
    /\ confirm' = [confirm EXCEPT !.pc = "idle"]
    /\ told' = [answer |-> "booked", slot |-> nav.slot]
    /\ UNCHANGED <<free, record, nav, card, acked, raised>>

-----------------------------------------------------------------------------
(* The surroundings *)

\* BOOKING_CREATE_LOCK_TTL_SECONDS have passed since an exception left the lock.
LockExpires ==
    /\ confirm.pc = "idle" /\ locked
    /\ locked' = FALSE
    /\ raised' = nav.busy
    /\ UNCHANGED <<free, record, nav, card, confirm, told, acked>>

\* The process is stopped and started: what it kept in memory is lost.
Restart ==
    /\ nav' = NoDraft /\ locked' = FALSE /\ raised' = FALSE
    /\ confirm' = Idle /\ told' = Silence
    /\ UNCHANGED <<free, record, card, acked>>

\* Other clients and the salon, who may also cancel what the bot has made
Taken(s) ==
    /\ free[s] > 0 /\ free' = [free EXCEPT ![s] = @ - 1]
    /\ UNCHANGED <<record, nav, locked, card, confirm, told, acked, raised>>

Freed(s) ==
    /\ free[s] < Capacity /\ free' = [free EXCEPT ![s] = @ + 1]
    /\ UNCHANGED <<record, nav, locked, card, confirm, told, acked, raised>>

Confirming == Recheck \/ PostLost \/ PostRefused \/ PostAnswered \/ Success

Next ==
    \/ Leave \/ Start \/ PickMaster \/ ShowDates \/ ShowSlots \/ Back \/ GivePhone
    \/ \E d \in Dates : PickDate(d)
    \/ \E s \in Slots : PickSlot(s) \/ Taken(s) \/ Freed(s)
    \/ ConfirmRefused \/ ConfirmBegin \/ Confirming
    \/ LockExpires \/ Restart

Spec == Init /\ [][Next]_vars

-----------------------------------------------------------------------------
(* Properties *)

\* What is booked is what the latest confirmation card shows, whatever old buttons
\* were used since it was shown: every handler that changes the slot leaves the
\* screen on which it can be confirmed, unless it fails half-way.  The button of
\* an older card books the slot of the latest one too: it names no draft.
LatestCardIsBooked ==
    record # None /\ record.card # None => record.slot = record.card

\* One choice of a slot yields at most one record the bot knows of, through
\* double taps, old buttons, exceptions and an expired lock.
OneKnownRecordPerChoice == acked <= 1

\* Every way out of a confirmation resets the in-progress flag and gives the
\* lock back, unless the handler ended in an exception.
EveryWayOutUnlocks == confirm.pc = "idle" /\ ~raised => ~nav.busy /\ ~locked

\* The success message names the record YClients made, at its slot, and the record
\* was attributed before, so that the reminders will find it, unless the database
\* refused the row.
SuccessIsTrue ==
    told.answer = "booked" => /\ record # None /\ record.slot = told.slot
                              /\ record.row # "none"

\* The final check before the record is created is about the slot of the
\* record ("Final strict YClients slot recheck before confirmation/create").
CheckedIsBooked == record # None => record.slot = record.checked

=============================================================================
