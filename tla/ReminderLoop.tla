---------------------------- MODULE ReminderLoop ----------------------------
(***************************************************************************)
(* services/reminders.py with services/reminder_lifecycle.py: the polling  *)
(* loop that looks at the latest attributed bookings, verifies each one in *)
(* YClients and sends the confirmation (48 h, type booking_confirmation_2d) *)
(* and the 2 h reminder.                                                   *)
(*                                                                         *)
(* A scan has two phases.  get_due_reminders fetches every record, one     *)
(* await per record, against the clock read when the scan began, and       *)
(* collects what is due; send_due_reminders then sends the collected items *)
(* one by one.  Between an item's fetch and its sending the client, the    *)
(* administrator and the clock go on.                                      *)
(*                                                                         *)
(* The reserve / send / record protocol of one message is the subject of   *)
(* Notifications; here a send is two steps, the reservation and the        *)
(* outcome, with the retries of the transport inside the second.  Time is  *)
(* counted in ticks, and MaxScan bounds the ticks a scan may take.         *)
(***************************************************************************)
EXTENDS Integers, Sequences, FiniteSets

CONSTANTS
    Users, Records,
    Owner,      \* the user each record is attributed to
    Times,      \* when visits can take place
    Confirm,    \* 48 hours before the visit
    Fallback,   \* 6 hours
    Soon,       \* 2 hours
    Interval,   \* REMINDERS_POLL_INTERVAL_SECONDS
    Limit,      \* latest attributions examined by a scan (200)
    MaxScan, Horizon

ASSUME ReminderAssumption ==
    /\ Owner \in [Records -> Users]
    /\ 0 < Soon /\ Soon < Fallback /\ Fallback < Confirm
    /\ {Soon, Fallback, Confirm, Interval, Limit, Horizon} \subseteq Nat \ {0}
    /\ MaxScan \in Nat
    /\ Times \subseteq 1 .. Horizon

Kinds == {"confirmation", "soon"}
Keys == Records \X Kinds

INSTANCE NotificationStore

VARIABLES
    now,
    record,        \* the booking in YClients: whether it is active, and its time
    attributions,  \* records of table platform_attribution, oldest first
    notifyOn,      \* users.notifications_enabled
    history,       \* table notification_history
    loop,          \* the reminder task
    log,           \* reminders that reached their user, with the scan's clock
    changed,       \* records YClients changed since the current scan began
    calm           \* ticks the loop has had to see the record in peace

vars == <<now, record, attributions, notifyOn, history, loop, log, changed, calm>>

\* A record in peace for this long has been fetched: the rest of a scan that
\* began too early, the pause, and a whole scan.
Patience == Interval + 2 * MaxScan + 1

Scanning == loop.pc \in {"fetching", "sending", "awaiting"}

NoBooking == [active |-> FALSE, at |-> 0]
Bookings == [active : BOOLEAN, at : Times]

Off == [pc |-> "off", asOf |-> 0, todo |-> {}, due |-> {}, wake |-> 0]
Items == [record : Records, kind : Kinds, at : Times]
Loops == [pc : {"off", "fetching", "sending", "awaiting", "sleeping"}, asOf : 0 .. Horizon,
          todo : SUBSET Records, due : SUBSET Items, wake : Nat]

TypeOK ==
    /\ now \in 0 .. Horizon
    /\ record \in [Records -> Bookings \cup {NoBooking}]
    /\ attributions \in Seq(Records)
    /\ notifyOn \in [Users -> BOOLEAN]
    /\ history \in Tables
    /\ loop \in Loops
    /\ log \subseteq [item : Items, asOf : 0 .. Horizon]
    /\ changed \subseteq Records
    /\ calm \in [Records -> 0 .. Patience]

Init ==
    /\ now = 0
    /\ record = [r \in Records |-> NoBooking]
    /\ attributions = <<>>
    /\ notifyOn = [u \in Users |-> TRUE]
    /\ history = EmptyTable
    /\ loop = Off
    /\ log = {}
    /\ changed = {}
    /\ calm = [r \in Records |-> 0]

\* Something kept, or may keep, the loop from seeing these records.
Disturbed(rs) == calm' = [r \in Records |-> IF r \in rs THEN 0 ELSE calm[r]]

-----------------------------------------------------------------------------
(* The schedule, recomputed against the clock of every scan *)

\* Mutant of ConfirmationDue: a visit less than six hours away is confirmed
\* when it begins.
ConfirmationDueTooLate(at, t) ==
    LET left == at - t IN
    IF left >= Confirm THEN at - Confirm ELSE IF left >= Fallback THEN at - Fallback ELSE at

\* _calculate_telegram_confirmation_due, for a visit still to come
ConfirmationDue(at, t) ==
    LET left == at - t IN
    IF left >= Confirm THEN at - Confirm ELSE IF left >= Fallback THEN at - Fallback ELSE t

\* Mutant of DueKinds: a window of one instant.
DueExactly(at, t) ==
    {k \in Kinds : t = IF k = "confirmation" THEN ConfirmationDue(at, t) ELSE at - Soon}

\* build_reminder_schedule and the test scheduled_for <= now < booking
DueKinds(at, t) ==
    {k \in Kinds : t >= IF k = "confirmation" THEN ConfirmationDue(at, t) ELSE at - Soon}

\* Mutant of SkipBoth: INSERT OR REPLACE, whatever the rows say already.
SkipBothReplacing(r) ==
    InsertOrReplace(InsertOrReplace(history, Owner[r], <<r, "confirmation">>, "skipped"),
                    Owner[r], <<r, "soon">>, "skipped")

\* _record_skipped_reminders
SkipBoth(r) ==
    MarkSkipped(MarkSkipped(history, Owner[r], <<r, "confirmation">>),
                Owner[r], <<r, "soon">>)

Latest(s, n) == {s[i] : i \in {j \in DOMAIN s : j > Len(s) - n}}

-----------------------------------------------------------------------------
(* The loop *)

BeginScan ==
    /\ loop' = [Off EXCEPT !.pc = "fetching", !.asOf = now,
                           !.todo = Latest(attributions, Limit)]
    /\ changed' = {}
    /\ UNCHANGED <<now, record, attributions, notifyOn, history, log>>

\* start_reminder_lifecycle, at start-up or from the settings screen
Start ==
    /\ loop.pc = "off"
    /\ BeginScan
    /\ UNCHANGED calm

Wake ==
    /\ loop.pc = "sleeping"
    /\ now >= loop.wake
    /\ BeginScan
    /\ UNCHANGED calm

Fetched(r, items, table) ==
    /\ loop' = [loop EXCEPT !.todo = @ \ {r}, !.due = @ \cup items]
    /\ history' = table
    /\ UNCHANGED <<now, record, attributions, notifyOn, log, changed>>

\* The user is switched off, or get_booking_details raised.
PassOver(r) ==
    /\ loop.pc = "fetching"
    /\ r \in loop.todo
    /\ Fetched(r, {}, history)
    /\ Disturbed({r})

\* A cancelled or deleted record, and a visit that is not in the future.
FetchOver(r) ==
    /\ loop.pc = "fetching"
    /\ r \in loop.todo
    /\ notifyOn[Owner[r]]
    /\ ~ record[r].active \/ record[r].at <= loop.asOf
    /\ Fetched(r, {}, SkipBoth(r))
    /\ UNCHANGED calm

\* Mutant of FetchActive: only the time of the record is looked at.
FetchWhetherActive(r) ==
    LET at == record[r].at
        kinds == {k \in DueKinds(at, loop.asOf) : history[Owner[r]][<<r, k>>] = NoRow} IN
    /\ loop.pc = "fetching"
    /\ r \in loop.todo
    /\ notifyOn[Owner[r]]
    /\ at > loop.asOf
    /\ Fetched(r, {[record |-> r, kind |-> k, at |-> at] : k \in kinds}, history)
    /\ UNCHANGED calm

FetchActive(r) ==
    LET at == record[r].at
        kinds == {k \in DueKinds(at, loop.asOf) : history[Owner[r]][<<r, k>>] = NoRow} IN
    /\ loop.pc = "fetching"
    /\ r \in loop.todo
    /\ notifyOn[Owner[r]]
    /\ record[r].active
    /\ at > loop.asOf
    /\ Fetched(r, {[record |-> r, kind |-> k, at |-> at] : k \in kinds}, history)
    /\ UNCHANGED calm

FetchesDone ==
    /\ loop.pc = "fetching"
    /\ loop.todo = {}
    /\ loop' = [loop EXCEPT !.pc = "sending"]
    /\ UNCHANGED <<now, record, attributions, notifyOn, history, log, changed, calm>>

\* The item being sent is the only one left in due whose row is pending.
InFlight(i) == loop.pc = "awaiting" /\ history[Owner[i.record]][<<i.record, i.kind>>] = "pending"

\* send_business_notification up to its await.  The global switch cannot be
\* off here: switching it off cancels the loop in the same step.
SendItem(i) ==
    LET key == <<i.record, i.kind>> IN
    /\ loop.pc = "sending"
    /\ i \in loop.due
    /\ IF CanReserve(history, key)
         THEN /\ history' = Reserve(history, Owner[i.record], key)
              /\ loop' = [loop EXCEPT !.pc = "awaiting"]
         ELSE /\ loop' = [loop EXCEPT !.due = @ \ {i}]
              /\ UNCHANGED history
    /\ UNCHANGED <<now, record, attributions, notifyOn, log, changed, calm>>

\* The reminder arrives while its send is awaited (or, for the retries of the
\* sender, arrives again).
Arrives(i) ==
    /\ i \in loop.due
    /\ InFlight(i)
    /\ log' = log \cup {[item |-> i, asOf |-> loop.asOf]}
    /\ UNCHANGED <<now, record, attributions, notifyOn, history, loop, changed, calm>>

\* 'stopped' ends a send as 'blocked' does, 'rate_limited' as 'failed' does.
EndOutcomes == {"sent", "blocked", "failed"}

Reached(i) == \E e \in log : e.item = i

\* Mutant of SendDone: a failed reminder is to be sent again by a later scan.
SendDoneRetrying(i, outcome) ==
    /\ i \in loop.due
    /\ InFlight(i)
    /\ outcome = "sent" => Reached(i)
    /\ outcome = "blocked" => ~ Reached(i)
    /\ history' = MarkResult(history, Owner[i.record], <<i.record, i.kind>>,
                             IF outcome = "failed" THEN NoRow ELSE outcome)
    /\ notifyOn' = IF outcome = "blocked"
                     THEN [notifyOn EXCEPT ![Owner[i.record]] = FALSE] ELSE notifyOn
    /\ loop' = [loop EXCEPT !.pc = "sending", !.due = @ \ {i}]
    /\ UNCHANGED <<now, record, attributions, log, changed, calm>>

SendDone(i, outcome) ==
    /\ i \in loop.due
    /\ InFlight(i)
    /\ outcome = "sent" => Reached(i)
    /\ outcome = "blocked" => ~ Reached(i)
    /\ history' = MarkResult(history, Owner[i.record], <<i.record, i.kind>>, outcome)
    /\ notifyOn' = IF outcome = "blocked"
                     THEN [notifyOn EXCEPT ![Owner[i.record]] = FALSE] ELSE notifyOn
    /\ loop' = [loop EXCEPT !.pc = "sending", !.due = @ \ {i}]
    /\ UNCHANGED <<now, record, attributions, log, changed, calm>>

\* The UPDATE of the row raises: send_booking_notification swallows it and the
\* scan goes on with a row that stays pending.
SendRaises(i) ==
    /\ i \in loop.due
    /\ InFlight(i)
    /\ loop' = [loop EXCEPT !.pc = "sending", !.due = @ \ {i}]
    /\ UNCHANGED <<now, record, attributions, notifyOn, history, log, changed, calm>>

\* YClients is not configured, or get_due_reminders raised: what it had
\* collected is lost and the loop pauses.
ScanFails ==
    /\ loop.pc = "fetching"
    /\ loop' = [Off EXCEPT !.pc = "sleeping", !.wake = now + Interval]
    /\ changed' = {}
    /\ Disturbed(Records)
    /\ UNCHANGED <<now, record, attributions, notifyOn, history, log>>

ScanDone ==
    /\ loop.pc = "sending"
    /\ loop.due = {}
    /\ loop' = [Off EXCEPT !.pc = "sleeping", !.wake = now + Interval]
    /\ changed' = {}
    /\ UNCHANGED <<now, record, attributions, notifyOn, history, log, calm>>

\* stop_reminder_lifecycle (notifications switched off, shutdown) cancels the
\* task at its await; a crash does the same.
Stop ==
    /\ loop.pc # "off"
    /\ loop' = Off
    /\ changed' = {}
    /\ Disturbed(Records)
    /\ UNCHANGED <<now, record, attributions, notifyOn, history, log>>

-----------------------------------------------------------------------------
(* YClients, the booking flow and the clock *)

\* A booking made through the bot: _save_attribution_safely may fail.
Book(r, at, saved) ==
    /\ record[r] = NoBooking
    /\ at > now
    /\ record' = [record EXCEPT ![r] = [active |-> TRUE, at |-> at]]
    /\ attributions' = IF saved THEN Append(attributions, r) ELSE attributions
    /\ UNCHANGED <<now, notifyOn, history, loop, log, changed, calm>>

\* Cancelled, deleted, or moved to another time by the client or the salon.
Change(r, booking) ==
    /\ record[r].active
    /\ booking # record[r]
    /\ booking.active => booking.at > now
    /\ ~ booking.active => booking.at = record[r].at
    /\ record' = [record EXCEPT ![r] = booking]
    /\ changed' = IF Scanning THEN changed \cup {r} ELSE changed
    /\ Disturbed({r})
    /\ UNCHANGED <<now, attributions, notifyOn, history, loop, log>>

Tick ==
    /\ now < Horizon
    /\ loop.pc = "sleeping" => now < loop.wake
    /\ Scanning => now < loop.asOf + MaxScan
    /\ now' = now + 1
    /\ calm' = [r \in Records |->
                  IF loop.pc # "off" /\ record[r].active /\ calm[r] < Patience
                    THEN calm[r] + 1 ELSE calm[r]]
    /\ UNCHANGED <<record, attributions, notifyOn, history, loop, log, changed>>

Next ==
    \/ Start \/ Wake \/ FetchesDone \/ ScanFails \/ ScanDone \/ Stop \/ Tick
    \/ \E r \in Records :
          \/ PassOver(r) \/ FetchOver(r) \/ FetchActive(r)
          \/ \E at \in Times, saved \in BOOLEAN : Book(r, at, saved)
          \/ \E booking \in Bookings : Change(r, booking)
    \/ \E i \in loop.due : \/ SendItem(i) \/ Arrives(i) \/ SendRaises(i)
                           \/ \E outcome \in EndOutcomes : SendDone(i, outcome)

Spec == Init /\ [][Next]_vars

-----------------------------------------------------------------------------
(* Properties *)

\* However often the booking is moved, the loop stopped or the bot restarted,
\* all copies of a reminder of one kind for one record come from one scan and
\* announce one time.
OneScanPerReminder ==
    \A e, f \in log :
        e.item.record = f.item.record /\ e.item.kind = f.item.kind =>
            e.item = f.item /\ e.asOf = f.asOf

\* A reminder announces the visit the client really has, except when YClients
\* changed the record after the scan that sends it had begun.
StaleOnlyWithinScan ==
    [][\A e \in log' \ log :
          \/ record[e.item.record] = [active |-> TRUE, at |-> e.item.at]
          \/ e.item.record \in changed]_vars

\* The booking's window opened long enough ago, and nothing has kept the loop
\* from seeing it.
Watched(r, opening) ==
    /\ loop.pc # "off"
    /\ r \in Latest(attributions, Limit)
    /\ record[r].active
    /\ now >= opening + Patience
    /\ calm[r] = Patience

Decided(r, kind) == history[Owner[r]][<<r, kind>>] # NoRow

\* No booking slips through its 2 h window between two scans.
SoonDecidedInTime ==
    \A r \in Records :
        Watched(r, record[r].at - Soon) => Decided(r, "soon")

\* Every booking gets a confirmation before the visit: when six hours are left.
ConfirmationAt6h ==
    \A r \in Records :
        Watched(r, record[r].at - Fallback) => Decided(r, "confirmation")

-----------------------------------------------------------------------------
(* The promise of the delivery protocol, which the loop keeps *)

Claims == [k \in Keys |-> ClaimOf(history, k)]

\* Reminders the user got under a key, told apart by their text and their scan
Received(u, k) == {e \in log : u = Owner[e.item.record] /\ k = <<e.item.record, e.item.kind>>}
Copies == [u \in Users |-> [k \in Keys |-> Cardinality(Received(u, k))]]

Promise == INSTANCE OnceOnlyDelivery WITH MaxCopies <- 1, claim <- Claims, copies <- Copies

\* A booking's reminder of a kind is decided once, by whichever scan comes first,
\* and only its owner gets it.
PromiseSpec == Promise!Spec
=============================================================================
