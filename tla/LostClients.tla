----------------------------- MODULE LostClients -----------------------------
(***************************************************************************)
(* services/lost_clients.py and repositories/lost_client_events.py: one    *)
(* client that stays away gets a message of its own at every threshold.    *)
(*                                                                         *)
(* A scan asks the salon for the client's records and writes at once, with *)
(* the sender and without a row of notification_history: the only thing    *)
(* that forbids a repetition is the time of sending, recorded afterwards.  *)
(* The funnel is switched on, inside its hours, with its rule that a       *)
(* booking ahead excludes.  Visits are numbered.                           *)
(***************************************************************************)
EXTENDS Salon, FiniteSets

CONSTANTS
    Thresholds,   \* threshold_days
    Cooldown,     \* days of the anti-spam interval
    Slips         \* bound: messages that arrive and are not recorded

ASSUME LostClientsAssumption ==
    /\ {Cooldown, Slips} \subseteq Nat
    /\ Thresholds \subseteq Nat /\ IsFiniteSet(Thresholds)

VARIABLES
    lostOn,     \* lost_client_events: the latest sent_at, by threshold
    scan,       \* run_lost_clients_scan
    heard,      \* when the client last heard it is lost, after which visit (observation)
    repeats,    \* ... within the interval of the message before it (observation)
    slips       \* ... and it was not recorded (observation)

message == <<lostOn, scan, heard, repeats, slips>>
lostVars == <<day, salon, notifyOn, message>>

IdleScan == [pc |-> "idle", day |-> 0, threshold |-> 0, visit |-> 0]
Unheard == [day |-> Never, visit |-> 0]

LostTypeOK ==
    /\ SalonTypeOK
    /\ lostOn \in [Thresholds -> SomeDay]
    /\ scan \in [pc : {"idle", "asking", "send", "arrived"}, day : Days,
                 threshold : Thresholds \cup {0}, visit : 0 .. Last]
    /\ heard \in [Thresholds -> [day : SomeDay, visit : 0 .. Last]]
    /\ repeats \in Nat
    /\ slips \in 0 .. Slips

LostInit ==
    /\ SalonInit
    /\ lostOn = [t \in Thresholds |-> Never]
    /\ scan = IdleScan /\ heard = [t \in Thresholds |-> Unheard]
    /\ repeats = 0 /\ slips = 0

Within(past, now, interval) == past # Never /\ now - past <= interval

-----------------------------------------------------------------------------
(* The message to a lost client *)

\* run_lost_clients_scan: the list of users is read.
BeginScan ==
    /\ scan.pc = "idle"
    /\ notifyOn
    /\ scan' = [IdleScan EXCEPT !.pc = "asking", !.day = day]
    /\ UNCHANGED <<day, salon, notifyOn, lostOn, heard, repeats, slips>>

Reached == {t \in Thresholds : t <= scan.day - visitDay[last]}

\* LostClientEventsRepository.has_recent_sent
RecentlyTold(t) == Within(lostOn[t], day, Cooldown)

\* Mutant of Chosen: the largest threshold that was not used recently.
ChosenUnused(t) ==
    t \in Reached /\ ~ RecentlyTold(t) /\ \A u \in Reached : u <= t \/ RecentlyTold(u)

\* The largest threshold reached, and nothing when it was used recently.
Chosen(t) == t \in Reached /\ (\A u \in Reached : u <= t) /\ ~ RecentlyTold(t)

\* The client's records: what follows is one step up to the sender's await.
Tell(t) ==
    /\ scan.pc = "asking"
    /\ last > 0 /\ ~ booked /\ Chosen(t)
    /\ scan' = [scan EXCEPT !.pc = "send", !.threshold = t, !.visit = last]
    /\ UNCHANGED <<day, salon, notifyOn, lostOn, heard, repeats, slips>>

\* There is no answer or nothing to send, the anti-spam switch is off, the
\* message is not delivered, or the process dies.  A client that blocked the bot
\* is not switched off.
NotTold ==
    /\ scan.pc \in {"asking", "send"}
    /\ scan' = IdleScan
    /\ UNCHANGED <<day, salon, notifyOn, lostOn, heard, repeats, slips>>

Hears(t) ==
    /\ scan.pc = "send" /\ scan.threshold = t
    /\ scan' = [scan EXCEPT !.pc = "arrived"]
    /\ heard' = [heard EXCEPT ![t] = [day |-> day, visit |-> scan.visit]]
    /\ repeats' = repeats + (IF Within(heard[t].day, day, Cooldown) THEN 1 ELSE 0)
    /\ UNCHANGED <<day, salon, notifyOn, lostOn, slips>>

\* Mutant of Told: the status is recorded without the time.
ToldWithoutTime(t) ==
    /\ scan.pc = "arrived" /\ scan.threshold = t
    /\ scan' = IdleScan
    /\ UNCHANGED <<day, salon, notifyOn, lostOn, heard, repeats, slips>>

\* mark_status(sent)
Told(t) ==
    /\ scan.pc = "arrived" /\ scan.threshold = t
    /\ lostOn' = [lostOn EXCEPT ![t] = day]
    /\ scan' = IdleScan
    /\ UNCHANGED <<day, salon, notifyOn, heard, repeats, slips>>

\* The answer to the bot is lost, recording it raises, or the process dies.
Slip ==
    /\ scan.pc = "arrived"
    /\ slips < Slips /\ slips' = slips + 1
    /\ scan' = IdleScan
    /\ UNCHANGED <<day, salon, notifyOn, lostOn, heard, repeats>>

LostNext ==
    \/ BeginScan \/ NotTold \/ Slip \/ \E t \in Thresholds : Tell(t) \/ Hears(t) \/ Told(t)
    \/ World /\ UNCHANGED message

LostSpec == LostInit /\ [][LostNext]_lostVars

-----------------------------------------------------------------------------
(* Properties *)

\* A message comes again within the interval only if the one before it was
\* delivered and not recorded.
RepeatsAreSlips == repeats <= slips

\* The longer the client stays away, the larger the threshold it hears of.
ThresholdsClimb ==
    [][\A t, u \in Thresholds :
          u > t /\ heard[u].visit > 0 /\ heard[u].visit = heard'[t].visit
              => heard'[t] = heard[t]]_lostVars

=============================================================================
