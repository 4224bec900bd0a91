# Verification of the MAX barbershop bot

TLA+ models of the bot under `src/max_barbershop_bot`, TLC runs on small
instances, and TLAPS proofs for every instance. Paths below are relative to
`src/max_barbershop_bot` unless they start with `docs/` or `tests/`.

## 1. The system

The bot is one asyncio process (`main.py`). It long-polls the MAX Bot API and
dispatches updates one after the other through `core/router.py` to the flows;
beside the polling task run up to four background tasks: the reminder loop
(reminders, feedback requests, repeat-visit messages), the birthday loop, the
cancellation-recovery loop and the lost-clients loop. Durable state is one
SQLite file; bookings live in YClients, an external service; navigation state,
action locks and cooldowns live in memory and are lost at a restart.

A task runs without interruption from one `await` to the next. SQLite calls
are synchronous, so a look-up followed by an INSERT is atomic; every call to
MAX or YClients is an `await` at which other tasks run, the task can be
cancelled, and the process can die.

| Component | State | Operations | Interacts with | Hard behaviour | Correct when |
| --- | --- | --- | --- | --- | --- |
| Delivery protocol: `services/notifications.py` | tables `notification_history`, `notification_delivery`; `users.notifications_enabled` | reserve, send, record, skip | every loop and flow, the sender | tasks interleave between reservation and recording; cancellation and crashes in between | one owner per key, decisions final, records true |
| Sender: `max_api/sender.py` | attempt counter | send with retries | MAX API | answer lost after the request was executed | bounded copies, every call ends |
| Reminder loop: `services/reminders.py`, `services/reminder_lifecycle.py` | the task, its snapshot of due items | start, stop, scan, send | attribution, YClients, delivery | fetch phase before send phase; schedule recomputed at each scan; polling grain; limit of 200 | sent in the window, once, about the visit the client has |
| Attribution: `repositories/platform_attribution.py` | record id to user | create if missing, list latest | booking flow, reminders, my bookings | a failing save is swallowed | every bot booking has a row |
| Birthday funnel: `services/birthday_funnel.py`, `repositories/birthday_funnel_events.py` | `birthday_funnel_events`, booking state in memory | scan, greet, tap, book | delivery, booking flow | taps during the send, restarts in the middle, end of the year | once per user per year, tables agree, gift to its owner |
| Booking flow: `flows/booking.py`, `services/booking.py`, `core/action_locks.py` | draft in navigation state, in-progress and completed flags, locks | choose, recheck slot, create, attribute, confirm | YClients, attribution, delivery, funnels | POST retried after a timeout, flags left behind, lost attribution | one record per confirmed draft, the client is told the truth |
| YClients client: `integrations/yclients/client.py` | failure window, cooldowns (class-wide) | request with retries | all users of YClients | window and cooldown shared by tasks, looked at once per request | window bounded, cooldown earned, requests end |
| My bookings: `flows/my_bookings.py`, `services/my_bookings.py` | locks, drafts | list, cancel, reschedule, repeat | YClients, recovery events, history | creating, deleting and recording are three steps; requests repeated after lost answers; buttons of old cards | a change is told as it happened, nobody is left without a booking, no flag stays |
| Cancellation recovery: `services/cancellation_recovery.py` | `cancellation_recovery_events` | create, poll, send, click, book | delivery, my bookings | event and history row are two tables; pending events met again | one offer per cancellation, tables agree, due events settle |
| Repeat visit: `services/repeat_visit.py` | `repeat_visit_events` | create on completed visit, send | delivery, YClients | scheduling and sending happen in different passes | one invitation per visit, after the delay; who stays away is served |
| Lost clients: `services/lost_clients.py` | `lost_client_events` | scan, send, record | sender, YClients | send before any durable mark; one interval per threshold | repetition only after an unrecorded message; thresholds climb |
| Feedback: `services/feedback.py`, `flows/feedback.py` | feedback requests and responses | request, rate, comment, alert | delivery | buttons do not name their visit; several of the staff answer at once | one rating, alert and answer per visit |
| Broadcasts: `flows/broadcasts.py`, `services/broadcasts.py`, `services/omnichannel_broadcasts.py` | drafts, campaigns, recipients | compose, confirm, send, report | sender, users | double confirm, blocked users, partial sends | each recipient once |
| Router and state: `core/router.py`, `core/state.py` | screen stack and data per chat | dispatch, back, home | all flows | stale buttons | a button acts on the screen it belongs to |
| Roles: `core/permissions.py`, `repositories/staff_roles.py`, `flows/staff.py` | roles | assign, remove | settings | last administrator | no lock-out, no self-promotion |
| Diagnostics: `core/error_handler.py` | throttle table | report | sender | bursts | alerts throttled, never raising |
| Settings, screens, texts, users, statistics, segments | key-value tables, read-only queries | show, save | | | not modelled: forms and queries |

`PROJECT.json` lists every component with its status, and the hazards with the
lines where they bite and the properties that cover them.

## 2. Modules

| Module | Models |
| --- | --- |
| `NotificationStore` | `notification_history`: the rows, and the statements run on them. Instantiated by every module that sends through `send_business_notification`. |
| `OnceOnlyDelivery` | Abstract specification: each key is given to one user or closed, once; a bounded number of copies. |
| `Notifications` | `send_business_notification` and the sender's retries for any number of tasks; cancellation, crash, switches. Implements `OnceOnlyDelivery`. |
| `ReminderLoop` | The loop, its schedule, YClients records that change, the clock. Implements `OnceOnlyDelivery`. |
| `BirthdayFunnel` | The birthday scan over several days and users, and the gift's booking button. Implements `OnceOnlyDelivery`. |
| `BookingFlow` | One user's booking from the list of dates to the record in YClients: draft, card, confirmation, lock, retried creation. |
| `ClientBookings` | Abstract specification: a client's bookings come and go, and a record is put up for recovery exactly when the client's own cancellation removes it. |
| `MyBookings` | One client cancels and moves its bookings. Implements `ClientBookings`. |
| `CancellationRecovery` | The loop that writes to a client after a cancellation, built upon `ClientBookings`. Implements `OnceOnlyDelivery`. |
| `Feedback` | Requests, ratings, comments, alerts to the staff and the staff's answers. |
| `Salon` | The client of the two return funnels: visits, the booking ahead, the switch, the days. |
| `RepeatVisit` | The two halves of a pass: recording an event for the last visit, sending what an earlier pass recorded. Implements `OnceOnlyDelivery`. |
| `LostClients` | The scan of one client with its thresholds and intervals. |
| `YClientsClient` | Failure window, cooldown and limits of `YClientsClient.request`, shared by tasks. |
| `...Proofs` | Theorems about the module of that name: `Notifications`, `ReminderLoop`, `BirthdayFunnel`, `MyBookings`, `CancellationRecovery`, `Feedback`. |
| `ReturnFunnelsProofs` | Theorems about `RepeatVisit` and `LostClients`, which share `Salon`. |
| `YClientsProofs` | Theorems about the two modules of requests to YClients, `BookingFlow` and `YClientsClient`. |
| `MC...` | Model values for TLC. |

How they fit together: `Notifications` shows what one call of the delivery
protocol promises when many tasks use it. The funnels instantiate its table
(`NotificationStore`) and have their own two or three steps around a call:
reserve, arrive, record; `PromiseSpec` at the end of each says that with these
steps it keeps the same promise (`OnceOnlyDelivery`) under its own keys: a booking
and a kind of reminder, a year, a cancelled record, a visit. `ClaimOf` reads a claim
off the rows of a key: reserved rows claim it for their user, a row written by a
decision not to send closes it. One step may close several keys, since a scan of
the reminders skips both reminders of a cancelled booking at once; TLC refuted the
promise with one key a step. `MyBookings` implements `ClientBookings`, and
`CancellationRecovery` takes every change of the bookings from
`ClientBookings`, so what it relies on is what `MyBookings` does.

How they correspond to the code:

* `Notifications`. `call[t]` is the coroutine `send_business_notification` of
  task `t`, suspended in the sender. `Reserved` is the code from the settings
  check to the INSERT; `RequestExecuted` is the MAX server's side;
  `AnsweredOk`, `Retry`, `GiveUp` and `Refused` are the branches of
  `_run_with_retry`, `Record` what follows it. 'skipped' with `is_stopped`
  is written "stopped" and 'blocked' "blocked", so that they are told from a
  decision not to send. `SkipByCaller` stands for the callers' own
  `mark_notification_history_skipped`. A key of `TestKeys` is sent with
  `respect_global_settings=False` (test sends from settings and broadcasts).
  `abandoned` is a history variable: keys whose call was cut.
* `ReminderLoop`. `loop` is the task: the scan's clock, the attributions not
  yet fetched, the items collected, the time to wake up. `FetchOver` and
  `FetchActive` are one turn of the loop of `get_due_reminders`, `SendItem` to
  `SendDone` one turn of `send_due_reminders`. `record` is YClients. `log`,
  `changed` and `calm` are history variables for the properties.
* `BirthdayFunnel`. A day is a number and a year has `YearDays` of them.
  `BeginScan` takes the list of users as the code does, with their birthdays
  and switches; `Reserved`, `NotReserved` and `GloballyOff` are `_process_user`
  up to the await, `SendDone` the rest. Event, row of the history, the user's
  switch and the event's status are commits of their own: `CutBeforeSend` and
  `CutAfterSend` are the turns that end between two of them, by a death (`Dies`) or
  by a statement that raises (`Raises`, after which the `except` clause may or may
  not mark the event failed); `SendRaises` is a turn whose row is not updated. A
  death anywhere else is `Crash`. `gift` is `birthday_event_id` in the chat's
  booking state; `greeted` and `cut` (the turns that were cut) are observations.
* `BookingFlow`. `nav` is the chat's entry of `core/state.py`: the screen and
  the parts of `state_data` the confirmation reads. The handlers that only read
  YClients are one action each, since updates are handled one at a time.
  `confirm` is the coroutine `handle_booking_confirm`: `ConfirmBegin` runs up to
  the first request, `Recheck` handles the answer of the final check, `PostLost`,
  `PostRefused` and `PostAnswered` are what comes of one attempt of the POST in
  `YClientsClient.request`, `Success` the end. `free` is YClients; `Taken` and
  `Freed` are everyone else there. A slot has `Capacity` places: with "any
  specialist" several masters can take it. A handler accepts any screen its
  guard accepts, because the buttons of old messages still work; the confirm button
  names no draft, so `ConfirmBegin` is the button of any card. `record.row` is what
  became of the record's row in `platform_attribution`: a failing save is
  swallowed (`Attributed`). `record`, `card` (the latest confirmation card),
  `acked`, `told` and `raised` are observations for the properties.
* `MyBookings`. `nav` has the chat's list, the selected booking (chosen by
  `Details` or `ShowActive`), the context of a move and the flags; `job` is the
  handler suspended at a request. Cancelling
  is `CancelConfirm`, `CancelCheck` (the record is read again), then one attempt
  after another of the DELETE: `DeleteLost` is carried out without an answer,
  `DeleteFails` is not, `Deleted` is answered and runs to the end of the handler.
  Moving is `MoveConfirm`, `Recheck`, the creation (`CreateLost`, `CreateFails`,
  `CreateAnswered`), the deletion of the old record, and the local rows, which the
  database may refuse without the client's learning of it (`Log`).
  `Elsewhere` is the salon, other channels, and the button of a reminder
  (`flows/booking_reminders.py`); `Crash` forgets all but YClients and the
  database. `made`, `moved`, `unsaved`, `card`, `asked` and `told` are
  observations.
* `CancellationRecovery`. `event` is the table `cancellation_recovery_events`,
  keyed by the record; `poll` is `process_due_cancellation_recovery_events` with
  the batch it listed. `Take` is the step up to the request for the client's
  bookings, `HasBooking`, `CheckFails`, `NotSent` and `Reserved` its outcomes,
  `SendDone` and `SendRaises` the end of the send. `Cancelled` is
  `ClientBookings!Cancel` with the event it creates.
* `Feedback`. `request` and `response` are the two tables. A rating goes to the
  newest request that waits (`IsLatest`), whichever message its button is of.
  `desk[a]` is the chat of a member of the staff; `job` is the handler suspended
  at an alert, at the answer, or before the answer is saved.
* `RepeatVisit`. `Answered` is `schedule_repeat_visit_events` with the salon's
  answer; an event recorded there is not in the batch of the same pass, because
  its due time is read after the pass's own. `Marked` is `mark_status`.
* `LostClients`. `Tell` is the decision after the salon's answer, `Arrives`
  the message, `Told`, `NotTold` and the stop the ends. There is no row of
  `notification_history`: `lostOn`, recorded last, is all that forbids a
  repetition. `heard`, `repeats` and `slips` are observations.
* `YClientsClient`. The code compares instants with the clock; the module has
  ages and remaining times instead, so that time can go on for ever in a finite
  model. `Begin` is the single look at the shared state before the first
  attempt. `Answered`, `Rejected`, `Limited`, `Failed` and `Fails` are what comes
  of an attempt: a 2xx, another answer, 429, the last failure, an earlier one.
  `Kept` is the loop of `_record_failure` that pops the old end of the deque.

Every property of a passing run has a mutant in its module, named for the bug
it plants and placed before the definition it replaces.

Worth doing next: broadcasts (draft, double confirmation, recipients one by
one), the roles (last administrator), the alert throttle, the lifecycle of the
reminder task with its cancellation, registration.

## 3. Runs

| Run | Question | Bounds |
| --- | --- | --- |
| `notifications` | Who owns a key, what a pending row means, are decisions final, does every send end, does it implement `OnceOnlyDelivery` | 2 users, 2 keys (one test key), 2 tasks, 3 attempts, no symmetry |
| `reminders` | Which scan sends a reminder and how stale can it be; does a watched booking get its reminders; does the loop implement `OnceOnlyDelivery` | 1 record, 8 ticks, scans of up to one tick, every booking time, move, failure |
| `birthday` | Do events and history agree but for what a cut turn leaves, who books a gift, is a greeting of a year attempted once | 2 users, 1 year of 3 days |
| `birthday_served` | Is every due user served, as long as no turn was cut (violated) | 2 users, 1 year of 3 days, and one day of the next |
| `booking` | Do double taps, old buttons, failures and restarts yield one known record at the slot of the latest card, no flag left, a true answer | 2 days of one slot, 1 place, 2 attempts, database failures, symmetric in days |
| `booking_checked` | Is the checked slot the booked one (violated) | as `booking`, the database works |
| `my_bookings` | Is the client told the truth, never left without a booking, nothing locked; does it implement `ClientBookings` | 1 booking and 2 records to make, 2 times, 2 attempts, any number of deaths and refused rows |
| `recovery` | One offer per cancellation, do event and row agree, are due events settled | 3 records, 2 of them bookings at the start, 2 deaths |
| `feedback` | One rating, one alert, one answer; do the tables agree | 2 visits, 2 of the staff, 1 death |
| `repeat_visit` | One invitation per visit, do event and row agree, is a client that stays away served | 2 visits, 4 days, delay and interval of 1 day, 1 stop |
| `lost_clients` | What allows a repetition, in which order are thresholds heard | 2 thresholds (1 and 3 days), interval of 1 day, 2 visits, 6 days, 2 unrecorded messages |
| `yclients_client` | Does the window stay bounded, is a cooldown earned, do requests end | 2 tasks, 2 endpoints, 2 attempts, threshold 3, window 4, cooldown 2, limits 1 and 2 |

Why the bounds are enough. The delivery protocol treats keys alike and the
look-up of a reservation relates the users of one key, so two users and two
tasks exhibit every conflict; three attempts are the code's constant. For the
reminders the thresholds only matter by their order and by being longer or
shorter than the interval between scans. Two users show the conflict of the
year's birthday key. In the booking flow a date and a slot of another date meet
with two days; slots of one day differ only by their time, which no handler
compares with another slot's. A move that is repeated needs two records to
make; two attempts are the least with a repetition, and a further one is a
repetition of the same kind. Recovery needs two events, so that one is in the
batch while another is handled, and a record that is still to be made. With two
visits a button can meet the wrong one and with two of the staff an answer can
be late. Two thresholds of lost clients show whether a smaller one can follow a
larger, and six days hold both with their intervals. In the YClients client the
window is twice the cooldown, as in the code, and two tasks with two attempts
can fill it before the cooldown is seen.

The theorems of section 4 do not depend on these bounds. `CHECK_DEADLOCK FALSE`
is given only to the run of the reminders, whose clock ends at `Horizon`.
Symmetry is used where the run has no liveness property and its action
properties treat the permuted values alike.

The violated runs state what the documentation or a test says; `PROJECT.json`
"findings" quotes the line.

* `birthday_served`: the history key `birthday:<year>` is shared by all users, so
  only the first due user of a year is greeted.
* `booking_checked`: a slot is chosen, then another date, then the phone button
  of the older message is pressed: `handle_booking_date` has kept the slot, the
  check asks for the new date with the slot's time, and the record is made at
  the slot's own instant. The card shows that instant too, which is why
  `LatestCardIsBooked` holds.

Behaviours the models have and the documents do not expect. No run is spent on
them; `PROJECT.json` "hazards" names the lines.

* The 48 h confirmation moves to six hours before the visit as soon as less than
  48 hours are left, so polling practically never sends it at 48 hours
  (`docs/reminders_manual_smoke.md:14`, `docs/manual_qa_priority_checklist.md:104`).
  `ConfirmationAt6h` states what the code does.
* A birthday in the first days of January is never due
  (`tests/test_birthday_funnel_parity.py:91`).
* A POST repeated after a lost answer makes a second record when the slot has a
  second place (`docs/max_telegram_parity_plan_v2.md:433`); when it has none, the
  client reads that no record was made although one was.
* A move whose creation is answered too late is told as failed, with both
  bookings standing (`docs/manual_qa_priority_checklist.md:58` and `:183`).
* The confirm button of an older booking card books the slot of the latest card,
  since it names no draft; `LatestCardIsBooked` is about the latest card only.
* A booking, or a move, whose row in `platform_attribution` the database refuses is
  told as a plain success, and no reminder finds the new record. `SuccessIsTrue`
  and `AnswersAreTrue` exempt a refused row by name (`row = "lost"`, `unsaved`).
* A birthday turn cut between two of its commits leaves an event that is pending
  or failed for good, even when the greeting arrived; `EventsAgreeWithHistory` says
  that it leaves nothing worse.
* A DELETE that was carried out and repeated is told as "not cancelled", and
  leaves no recovery event. A cancellation from a reminder leaves none either.
* The confirm button of a cancellation acts on the booking selected now, not on
  the one its card names.
* A comment can close the newer, unrated request and be dropped
  (`docs/manual_qa_priority_checklist.md:107`); a text typed by the staff for one
  rating can be sent to another.
* A repeat-visit invitation is not checked against a booking made since it was
  recorded (`docs/manual_qa_priority_checklist.md:110`).
* A client found blocked by the lost-clients scan is not switched off
  (`docs/manual_qa_priority_checklist.md:112`).

`LatestCardIsBooked` holds with `Faults = TRUE` because `card` is None once a
handler failed after it had chosen another slot: a slot can be written to the
draft while the screen stays on the older confirmation (`_show_booking_phone`
reads the user before it changes the screen). `Faults` also allows an answer of
YClients that names no record, a gift mark that fails and an attribution that is
not saved; the violated run does without all of them.

Fairness is assumed in four runs, of the bot and its transport only, never of a
user or of a particular answer:

* `Notifications`: `WF(Answered(t))`. The session of `max_api/client.py` has a
  total timeout of 120 s, so a suspended request is answered or raises, and the
  event loop resumes the task.
* `CancellationRecovery`: `WF(BeginPoll)` and `WF(Polling)`. The loop polls again
  after every poll, and its awaited requests end as above.
* `RepeatVisit`: `WF(BeginPass)` and `WF(Passing)` likewise, and `SF(Answered)`:
  of the passes without end some get the salon's answer, without which nobody
  could be invited.
* `YClientsClient`: `WF(Tick)`, the clock, and `WF(Step(t))`: an attempt has a
  timeout and a backoff ends.

## 4. Proofs

TLAPS proves, for every value of the constants that satisfies the modules'
assumptions, type correctness of the ten detailed modules, every safety and
action property of the passing runs, and all refinements: `ClientBookings` by
`MyBookings`, and `OnceOnlyDelivery` by `Notifications`, `ReminderLoop`,
`BirthdayFunnel`, `CancellationRecovery` and `RepeatVisit`. Each proof has the
same shape: an inductive invariant that contains the type invariant, the
properties and what they need; one lemma for the initial states; one lemma per
action or group of actions for the steps; `Invariance`; the properties from it.
Action properties and refinements use the invariant in the hypothesis of each
step. The assumptions say that bounds are natural numbers (or positive ones), that
a set is finite where it is counted, and that markers are not values.

Some properties (`CallsOwnRows`, `BoundedDelivery`, `SentIsTrue`,
`InvitedAfterDelay`, `TypeOK` of most modules, and `PromiseSpec` of the birthday,
recovery and repeat-visit modules) have their theorem and no run: the runs go to
what is not implied.

* `NotificationsProofs`. That two users do not own a key follows from the
  reservation's look-up; that no copy reaches a second user needs to know that
  a suspended call owns its pending row (`CallsOwnRows`), and the bound on copies
  needs to relate them to the attempt counter of the call (`CopiesCounted`). The
  claim of a key is defined with CHOOSE over the owner; `OneOwner` makes it well
  defined for `Refinement`.
* `ReminderLoopProofs`. Two halves. `ItemsInv` is about the items in hand: each is
  of a record no longer to be fetched, and its row is free or the item is the one
  in flight (`Collected`); a copy that arrived has its row and, while its item is
  still there, is of it (`Logged`); an item tells what YClients says unless the
  booking changed since the fetch (`Current`). That makes one scan per reminder and
  confines staleness. `TimeInv` is about the clock: the running scan and the sleep
  before it have bounds (`Clock`), the scan still has each record it could see on
  its list, in hand or decided, and the scan before it has decided what was open
  then (`InScan`, `Swept`). `Patience` is the rest of a scan that began too early,
  the pause, and a whole scan. For `PromiseKept` the claim of a key is read off the
  owner's row, since rows are of their owners only (`OwnersOnly`, `ClaimOfRow`), and a
  first arrival finds no copy of another scan (`OneScanPerReminder`): that is why
  one copy is all the promise allows. A copy is told from another by its text and its
  scan; the repetitions of the sender are the subject of `Notifications`.
* `BirthdayFunnelProofs`. `EventsAgreeWithHistory` is kept only if a message in
  flight owns its rows (`InFlightOwned`) and a greeting seen by the user is one
  that was claimed (`GreetedIsClaimed`): a turn can then be cut anywhere, and what
  it leaves is the event as it was or one marked failed; the gift in a chat is one its user was
  given (`GiftInHand`). The key of a year is one for all users, so `PromiseKept` rests on
  `OneOwner`: no two users have a claimed row of one year, because the look-up of a
  reservation ignores the user.
* `YClientsProofs`, part 1 (`BookingFlow`). What a suspended confirmation holds is
  what the latest card showed when it began (`InHand`), the confirmation screen and
  that card agree (`CardOnScreen`), the bot knows of one record per choice only while
  the flag or the completed id stops the next (`AckedOnce`, `FlagAtSuccess`).
* `YClientsProofs`, part 2 (`YClientsClient`). The length of the window cannot be
  bounded by looking at it alone: the shared state is read once per request, so
  the failures that arrive during a cooldown come from requests that were let
  through before. `Chances` is the set of attempts they may still lose; a failure
  takes one away, and none is added while the cooldown is on. `Paced` counts
  backwards from any failure in the window: less than `Threshold` since it, and one
  crowd (tasks times attempts) for every cooldown since, the chances included.
  With the ages in order (`Sorted`) the oldest failure gives the bound
  (`Bounded`). `CooldownsAreEarned` needs that the window holds no failure from
  before the last success (`SinceSuccess`). The proof showed the bound of an earlier
  version of `WindowIsBounded`, with the quotient of window and cooldown rounded
  down, to be wrong when the cooldown does not divide the window (TLC: window 3,
  cooldown 2); it is rounded up now, which makes no difference for the code's 60 and 30
  seconds. `LeadingPart` and `KeptFacts` are the lemmas about trimming: what is
  dropped is an interval at the old end.
* `MyBookingsProofs`. Created and deleted records never mix (`Apart`, `Gone`), the
  flags and locks of the chat belong to the suspended handler (`FlagsInHand`,
  `LocksInHand`), and a deletion of the old record is begun only after its
  replacement (`MadeInHand`). Rows, once written or refused, stay so
  (`LogKeeps`), which keeps an answer true. `LedgerRefined` is the refinement of
  `ClientBookings`.
* `CancellationRecoveryProofs`. The row behind an event tells what may have been
  sent (`RowsBehind`); what the poll has queued and has in hand is not settled
  yet (`Queued`, `InHand`). In `PromiseKept` of this module and of the birthdays a
  copy counts once however often it is repeated (`offered` and `greeted` are sets):
  the refinement says to whom a message goes and after which decision.
* `FeedbackProofs`. The suspended handler is about a rated visit (`JobInHand`), a
  desk holds visits that were alerted (`DesksAreAboutVisits`), and an open
  response has been answered by no more than the deaths allow
  (`OpenIsUnanswered`).
* `ReturnFunnelsProofs`. Repeat visit: events are of visits of the past
  (`EventsOfVisits`), and the rest is as in the recovery;
  copies are counted, and `PromiseKept` allows one. Lost clients: each
  repetition is paid by a message that was not recorded (`Paid`); the invariant
  relates what was heard to what is recorded, through the message in flight
  (`Sending`, `Unsent`, `HeardInTime`).

Only model-checked: the liveness properties `CallsEnd`, `DueEventsSettle`,
`AwayIsServed` and `RequestsEnd`, since fairness and ENABLED are out of the
prover's reach; and the two violations.

## 5. Abstractions and omissions

* Texts, keyboards, logging, `notification_delivery` (a log that nothing reads
  back for a decision) and media uploads are left out.
* Tasks stop at an await, and SQLite statements succeed, with these exceptions. The
  recording of a result may fail (`Cancelled` in `Notifications`, `SendRaises` in
  the loops); so may what `Faults` allows in `BookingFlow`, the local rows of
  `MyBookings` (`Log`) and the attribution in `ReminderLoop!Book`. In
  `BirthdayFunnel` a turn may die or raise between any two of its commits, and
  the switching-off of a user, which swallows its own failure, may fail
  (`SwitchedOff`); the other modules take it to succeed when the UPDATE of the
  history row just before it did, so that `EventsAreTrue` of `RepeatVisit`, which
  relates blocked events to the switch, says nothing of a death or an error between
  those two statements.
* A scan of the reminders examines the latest `Limit` attributions (200 in the
  code) and rows are never removed: `SoonDecidedInTime` and `ConfirmationAt6h` are
  about a booking that is among them (`Watched`); one that fell out is not looked
  at again.
* Handlers of updates do not overlap: `_poll_dev_updates` awaits each dispatch.
  `Feedback` therefore lets no handler begin while one is suspended.
* Test events (`is_test`), the developer's test screens, and the funnels' own
  on/off switches are not modelled. `RepeatVisit` and `LostClients` have the rule
  that a booking ahead excludes switched on.
* In `BookingFlow` the service and the master are fixed, the screens before the
  list of dates are one with it, and the date-first and repeat orders are left
  out. YClients refuses a record on a slot without places and gives no other
  promise. The lock's expiry during a confirmation is left out: no other update is
  handled then.
* In `MyBookings` free slots are not counted (YClients may refuse any creation),
  paging and the history of visits are left out, and repeating a visit is the
  booking flow's. An exception of the read of the user (`flows/my_bookings.py:803`
  and `:844`), or of the recovery event's INSERT, leaves flag and lock; neither is
  a way out the module has, so `NothingLeftLocked` is about the others.
* `CancellationRecovery` allows that no booking is found while one stands: a missing
  profile has an empty list.
* `RepeatVisit` is about a client among the first 500 of a pass
  (`services/repeat_visit.py:86`). A skipped event counts as served in
  `AwayIsServed`.
* `LostClients` is about one client; the list of lost clients and its broadcast
  are screens over the same query.

Not modelled, with the reasons in `PROJECT.json`: broadcasts and omnichannel
broadcasts, segments, registration, roles, settings, statistics, master
photographs and the other screens, the developer's alerts, the transport of MAX,
the runtime. Most of the repository's Python is of two kinds a state machine
says nothing about: screens, keyboards and texts, and queries that compute lists
for an administrator. `telegram_reference` is a copy of another bot, kept to
compare behaviour; it is not part of this program, and its handlers are the
largest files of the repository.
