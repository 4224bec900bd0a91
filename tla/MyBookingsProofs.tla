-------------------------- MODULE MyBookingsProofs --------------------------
(***************************************************************************)
(* The safety properties of MyBookings, and that it implements             *)
(* ClientBookings, for any records, slots and number of attempts.  What    *)
(* carries them is that a record id comes up once, that flags and locks    *)
(* belong to the suspended handler, and that this handler deletes an old   *)
(* record only after it has made the new one.                              *)
(***************************************************************************)
EXTENDS MyBookings, TLAPS

\* An id is given once: the record of an answered removal never comes back.
Apart == live \cap fresh = {}

Gone == told.answer \in {"cancelled", "moved"} => told.rec \notin live \cup fresh

\* The suspended handler's phase
CancelPcs == {"check", "delete"}
MovePcs == {"recheck", "create", "deleteOld"}

\* Flags are those of the suspended handler, ...
FlagsInHand ==
    /\ nav.moving => job.pc \in {"create", "deleteOld"}
    /\ nav.cancelling # Nothing => job.pc \in CancelPcs
    /\ job.pc \in MovePcs => nav.outcome = Nothing

\* ... and so are locks, but for those of records that are gone.
LocksInHand ==
    /\ \A r \in Records : <<"cancel", r>> \in locks =>
          r \notin live \cup fresh \/ (job.rec = r /\ job.pc \in CancelPcs)
    /\ \A r \in Records : <<"move", r>> \in locks =>
          r \notin live \cup fresh \/ (job.rec = r /\ job.pc \in MovePcs)

\* The old record is deleted when the new one is made.
MadeInHand ==
    job.pc = "deleteOld" => job.new \in Records /\ <<job.rec, job.new>> \in made

\* The inductive invariant.
IInv ==
    /\ TypeOK /\ NeverBookless /\ AnswersAreTrue /\ MovesAsShown
    /\ Apart /\ Gone /\ FlagsInHand /\ LocksInHand /\ MadeInHand

USE DEF Maybe, rest, Free, CancelPcs, MovePcs

-----------------------------------------------------------------------------
(* Lemmas of the data *)

Tolds == [answer : Answers, rec : Maybe(Records), new : Maybe(Records)]

\* The next attempt, if there is one
LEMMA NextAttempt ==
    ASSUME job \in Jobs, Repeat
    PROVE  job' \in Jobs /\ job'.pc = job.pc /\ job'.rec = job.rec /\ job'.new = job.new
<1>1. job.attempt \in 0 .. Attempts /\ Attempts \in Nat /\ job.attempt < Attempts
  BY MyBookingsAssumption DEF Jobs, Repeat
<1>2. job.attempt + 1 \in 0 .. Attempts
  BY <1>1
<1>3. job' = [pc |-> job.pc, rec |-> job.rec, new |-> job.new, attempt |-> job.attempt + 1]
  BY DEF Repeat, Jobs
<1>4. QED
  BY <1>2, <1>3 DEF Jobs

LEMMA InitIInv == Init => IInv
<1> SUFFICES ASSUME Init PROVE IInv
  OBVIOUS
<1>1. NoNav \in Navs
  BY DEF NoNav, Navs
<1>2. NoJob \in Jobs
  BY MyBookingsAssumption DEF NoJob, Jobs
<1>3. Silence \in Tolds
  BY DEF Silence, Tolds, Answers
<1>4. TypeOK
  BY <1>1, <1>2, <1>3, MyBookingsAssumption DEF Init, TypeOK, Tolds
<1>5. NeverBookless /\ AnswersAreTrue /\ MovesAsShown
  BY DEF Init, NeverBookless, AnswersAreTrue, Silence, MovesAsShown, NoNav
<1>6. Apart /\ Gone /\ FlagsInHand /\ LocksInHand /\ MadeInHand
  BY DEF Init, Apart, Gone, Silence, FlagsInHand, NoNav, NoJob, LocksInHand, MadeInHand
<1>7. QED
  BY <1>4, <1>5, <1>6 DEF IInv

\* Where nothing is said of bookings and answers: screens and flags
LEMMA ChatStep ==
    ASSUME IInv, UNCHANGED <<live, fresh, attributed, unsaved, recovering, made, moved>>,
           nav' \in Navs, job' \in Jobs, told' = told \/ told' = Silence,
           locks' \subseteq {"cancel", "move"} \X Records,
           asked' \in BOOLEAN, card' \in Maybe(Records \X Slots),
           MovesAsShown', FlagsInHand', LocksInHand', MadeInHand'
    PROVE  IInv'
<1>1. told' \in Tolds
  BY DEF IInv, TypeOK, Tolds, Silence, Answers
<1>2. TypeOK'
  BY <1>1 DEF IInv, TypeOK, Tolds
<1>3. NeverBookless' /\ Apart'
  BY DEF IInv, NeverBookless, Apart
<1>4. AnswersAreTrue' /\ Gone'
  BY DEF IInv, AnswersAreTrue, Gone, Silence
<1>5. QED
  BY <1>2, <1>3, <1>4 DEF IInv

-----------------------------------------------------------------------------
(* The screens *)

\* A handler that is not suspended changes the draft's choices at most.
LEMMA ScreenStep ==
    ASSUME IInv,
           \/ Open \/ Show \/ Home \/ LockExpires \/ CancelStart \/ MoveStart \/ PickDate
           \/ \E r \in Records : Details(r) \/ ShowActive(r)
           \/ \E s \in Slots : PickSlot(s)
    PROVE  IInv'
<1>1. UNCHANGED <<live, fresh, attributed, unsaved, recovering, made, moved, told>>
  BY DEF Open, Show, Home, LockExpires, CancelStart, MoveStart, PickDate, Details, ShowActive,
         PickSlot
<1>2. /\ nav \in Navs /\ job \in Jobs /\ locks \subseteq {"cancel", "move"} \X Records
      /\ asked \in BOOLEAN /\ card \in Maybe(Records \X Slots) /\ live \subseteq Records
  BY DEF IInv, TypeOK
<1>0. asked' \in BOOLEAN
  <2>1. asked' = asked \/ asked' = TRUE
    BY DEF Open, Show, Home, LockExpires, CancelStart, MoveStart, PickDate, Details, ShowActive,
           PickSlot
  <2>2. QED
    BY <1>2, <2>1, Zenon
<1>3. ASSUME job' \in Jobs, job'.pc \in {"idle", "show"}, job.pc \in {"idle", "show"},
             UNCHANGED <<nav, locks, card>>
      PROVE  IInv'
  <2>1. MovesAsShown' /\ FlagsInHand' /\ MadeInHand'
    BY <1>1, <1>3 DEF IInv, MovesAsShown, FlagsInHand, MadeInHand
  <2>2. LocksInHand'
    BY <1>1, <1>3 DEF IInv, LocksInHand
  <2>3. QED
    BY <1>0, <1>1, <1>2, <1>3, <2>1, <2>2, ChatStep
<1>4. CASE Open
  <2>1. job' = [pc |-> "show", rec |-> Nothing, new |-> Nothing, attempt |-> 0]
    BY <1>4 DEF Open, NoJob
  <2>2. job' \in Jobs /\ job'.pc = "show"
    BY <2>1, MyBookingsAssumption DEF Jobs
  <2>3. QED
    BY <1>3, <1>4, <2>2 DEF Open
<1>5. CASE Show
  <2>1. job.pc = "show" /\ job' = NoJob /\ UNCHANGED <<locks, card>>
    BY <1>5 DEF Show
  <2>2. job' \in Jobs /\ job'.pc = "idle"
    BY <2>1, MyBookingsAssumption DEF NoJob, Jobs
  <2>3. CASE UNCHANGED nav
    <3>1. UNCHANGED <<nav, locks, card>> /\ job.pc \in {"idle", "show"}
      BY <2>1, <2>3
    <3>2. job' \in Jobs /\ job'.pc \in {"idle", "show"}
      BY <2>2
    <3>3. QED
      BY <1>3, <3>1, <3>2
  <2>4. ASSUME NEW r \in Maybe(Records),
               nav' = [nav EXCEPT !.listed = live, !.selected = r,
                                  !.cancelling = Nothing, !.moving = FALSE]
        PROVE  IInv'
    <3>1. nav' = [listed |-> live, selected |-> r, cancelling |-> Nothing,
                  completed |-> nav.completed, source |-> nav.source, slot |-> nav.slot,
                  moving |-> FALSE, outcome |-> nav.outcome, movedOld |-> nav.movedOld]
      BY <1>2, <2>4 DEF Navs
    <3>2. nav' \in Navs
      BY <1>2, <3>1 DEF Navs
    <3>3. MovesAsShown'
      BY <2>1, <3>1 DEF IInv, MovesAsShown
    <3>4. FlagsInHand' /\ MadeInHand'
      BY <2>2, <3>1 DEF FlagsInHand, MadeInHand
    <3>5. LocksInHand'
      BY <1>1, <2>1 DEF IInv, LocksInHand
    <3>6. QED
      BY <1>0, <1>1, <1>2, <2>1, <2>2, <3>2, <3>3, <3>4, <3>5, ChatStep
  <2>5. QED
    BY <1>2, <1>5, <2>3, <2>4 DEF Show
<1>6. ASSUME job.pc = "idle", UNCHANGED job, nav' \in Navs, locks' \subseteq locks,
             card' \in Maybe(Records \X Slots),
             nav'.moving => nav.moving, nav'.cancelling \in {nav.cancelling, Nothing},
             MovesAsShown'
      PROVE  IInv'
  <2>1. FlagsInHand' /\ MadeInHand'
    BY <1>6 DEF IInv, FlagsInHand, MadeInHand
  <2>2. LocksInHand'
    BY <1>1, <1>6 DEF IInv, LocksInHand
  <2>3. QED
    BY <1>0, <1>1, <1>2, <1>6, <2>1, <2>2, ChatStep
<1>7. CASE Home
  <2>1. nav' = NoNav /\ job.pc = "idle" /\ UNCHANGED <<job, locks, card>>
    BY <1>7 DEF Home
  <2>2. nav' \in Navs /\ ~ nav'.moving /\ nav'.cancelling = Nothing /\ nav'.source = Nothing
    BY <2>1 DEF NoNav, Navs
  <2>3. QED
    BY <1>2, <1>6, <2>1, <2>2 DEF MovesAsShown
<1>8. CASE LockExpires \/ CancelStart
  <2>1. job.pc = "idle" /\ UNCHANGED <<job, nav, card>> /\ locks' \subseteq locks
    BY <1>8 DEF LockExpires, CancelStart
  <2>2. MovesAsShown'
    BY <2>1 DEF IInv, MovesAsShown
  <2>3. QED
    BY <1>2, <1>6, <2>1, <2>2
<1>9. CASE MoveStart
  <2> DEFINE clean == [nav EXCEPT !.outcome = Nothing, !.movedOld = Nothing]
  <2>1. job.pc = "idle" /\ UNCHANGED <<job, locks, card>>
    BY <1>9 DEF MoveStart
  <2>2. CASE nav' = clean
    <3>1. nav' = [listed |-> nav.listed, selected |-> nav.selected, cancelling |-> nav.cancelling,
                  completed |-> nav.completed, source |-> nav.source, slot |-> nav.slot,
                  moving |-> nav.moving, outcome |-> Nothing, movedOld |-> Nothing]
      BY <1>2, <2>2 DEF Navs
    <3>2. nav' \in Navs /\ nav'.moving = nav.moving /\ nav'.cancelling = nav.cancelling
      BY <1>2, <3>1 DEF Navs
    <3>3. MovesAsShown'
      BY <2>1, <3>1 DEF IInv, MovesAsShown
    <3>4. QED
      BY <1>2, <1>6, <2>1, <3>2, <3>3
  <2>3. CASE nav' = [clean EXCEPT !.source = nav.selected, !.slot = Nothing, !.moving = FALSE]
    <3>1. nav' = [listed |-> nav.listed, selected |-> nav.selected, cancelling |-> nav.cancelling,
                  completed |-> nav.completed, source |-> nav.selected, slot |-> Nothing,
                  moving |-> FALSE, outcome |-> Nothing, movedOld |-> Nothing]
      BY <1>2, <2>3 DEF Navs
    <3>2. /\ nav' \in Navs /\ ~ nav'.moving /\ nav'.cancelling = nav.cancelling
          /\ nav'.slot = Nothing
      BY <1>2, <3>1 DEF Navs
    <3>3. QED
      BY <1>2, <1>6, <2>1, <3>2 DEF MovesAsShown
  <2>4. QED
    BY <1>9, <2>2, <2>3 DEF MoveStart
<1>10. CASE PickDate \/ \E r \in Records : Details(r) \/ ShowActive(r)
  <2>1. job.pc = "idle" /\ UNCHANGED <<job, locks, card>>
    BY <1>10 DEF PickDate, Details, ShowActive
  <2>2. PICK sel \in Maybe(Records), sl \in {nav.slot, Nothing} :
           nav' = [listed |-> nav.listed, selected |-> sel, cancelling |-> nav.cancelling,
                   completed |-> nav.completed, source |-> nav.source, slot |-> sl,
                   moving |-> nav.moving, outcome |-> nav.outcome, movedOld |-> nav.movedOld]
    <3>1. CASE PickDate
      BY <1>2, <3>1 DEF PickDate, Navs
    <3>2. ASSUME NEW r \in Records, Details(r) \/ ShowActive(r)
          PROVE  nav' = [listed |-> nav.listed, selected |-> r, cancelling |-> nav.cancelling,
                   completed |-> nav.completed, source |-> nav.source, slot |-> nav.slot,
                   moving |-> nav.moving, outcome |-> nav.outcome, movedOld |-> nav.movedOld]
      BY <1>2, <3>2 DEF Details, ShowActive, Navs
    <3>3. QED
      BY <1>10, <3>1, <3>2
  <2>3. nav' \in Navs /\ nav'.moving = nav.moving /\ nav'.cancelling = nav.cancelling
    BY <1>2, <2>2 DEF Navs
  <2>4. MovesAsShown'
    BY <2>1, <2>2 DEF IInv, MovesAsShown
  <2>5. QED
    BY <1>2, <1>6, <2>1, <2>3, <2>4
<1>11. ASSUME NEW s \in Slots, PickSlot(s) PROVE IInv'
  <2>1. /\ job.pc = "idle" /\ UNCHANGED <<job, locks>> /\ nav.source # Nothing
        /\ card' = <<nav.source, s>>
    BY <1>11 DEF PickSlot
  <2>2. nav' = [listed |-> nav.listed, selected |-> nav.selected, cancelling |-> nav.cancelling,
                completed |-> nav.completed, source |-> nav.source, slot |-> s,
                moving |-> nav.moving, outcome |-> nav.outcome, movedOld |-> nav.movedOld]
    BY <1>2, <1>11 DEF PickSlot, Navs
  <2>3. nav' \in Navs /\ nav'.moving = nav.moving /\ nav'.cancelling = nav.cancelling
    BY <1>2, <2>2 DEF Navs
  <2>4. card' \in Maybe(Records \X Slots)
    BY <1>2, <2>1 DEF Navs
  <2>5. MovesAsShown'
    BY <2>1, <2>2 DEF MovesAsShown
  <2>6. QED
    BY <1>2, <1>6, <2>1, <2>3, <2>4, <2>5
<1>12. QED
  BY <1>4, <1>5, <1>7, <1>8, <1>9, <1>10, <1>11

-----------------------------------------------------------------------------
(* The bookings, as a handler changes them *)

\* Rows are added.
RowsKept ==
    /\ attributed \subseteq attributed' /\ attributed' \subseteq Records
    /\ unsaved \subseteq unsaved' /\ unsaved' \subseteq Records

\* No id comes back, and a booking is replaced before it goes.
WorldKept ==
    /\ live' \subseteq Records /\ fresh' \subseteq Records
    /\ live' \cup fresh' \subseteq live \cup fresh /\ Apart'
    /\ recovering' \subseteq Records
    /\ RowsKept
    /\ made \subseteq made' /\ made' \subseteq Records \X Records
    /\ moved' \subseteq Records /\ NeverBookless'

LEMMA LogKeeps ==
    ASSUME IInv, NEW first, NEW S \in SUBSET Records, Log(first, S)
    PROVE  RowsKept /\ S \subseteq attributed' \cup unsaved'
<1>1. PICK saved \in SUBSET S : /\ attributed' = attributed \cup saved
                               /\ unsaved' = unsaved \cup (S \ saved)
  BY DEF Log
<1>2. attributed \subseteq Records /\ unsaved \subseteq Records
  BY DEF IInv, TypeOK
<1>3. QED
  BY <1>1, <1>2 DEF RowsKept

LEMMA RowsUnchanged ==
    ASSUME IInv, UNCHANGED <<attributed, unsaved>> PROVE RowsKept
  BY DEF IInv, TypeOK, RowsKept

LEMMA WorldUnchanged ==
    ASSUME IInv, UNCHANGED <<live, fresh, attributed, unsaved, recovering, made, moved>>
    PROVE  WorldKept
  BY DEF IInv, TypeOK, Apart, NeverBookless, WorldKept, RowsKept

\* A record is deleted, for a cancellation or by the salon.
LEMMA WorldLess ==
    ASSUME IInv, NEW r \in Records, live' = live \ {r},
           recovering' \subseteq Records,
           RowsKept,
           UNCHANGED <<fresh, made, moved>>
    PROVE  WorldKept
  BY DEF IInv, TypeOK, Apart, NeverBookless, WorldKept, RowsKept

\* The old record of a move is deleted.
LEMMA WorldMoved ==
    ASSUME IInv, NEW r \in Records, job.pc = "deleteOld", job.rec = r, DeleteOld(r),
           RowsKept,
           UNCHANGED <<recovering, fresh, made>>
    PROVE  WorldKept
<1>1. job.new \in Records /\ <<r, job.new>> \in made
  BY DEF IInv, MadeInHand
<1>2. live' = live \ {r} /\ moved' = moved \cup {r}
  BY DEF DeleteOld
<1>3. NeverBookless'
  BY <1>1, <1>2 DEF IInv, NeverBookless
<1>4. QED
  BY <1>2, <1>3 DEF IInv, TypeOK, Apart, WorldKept

\* A record is made.
LEMMA WorldMade ==
    ASSUME IInv, NEW r \in Records, NEW n \in Records, Make(r, n),
           UNCHANGED <<recovering, attributed, unsaved, moved>>
    PROVE  WorldKept /\ <<r, n>> \in made'
<1>1. /\ n \in fresh /\ fresh' = fresh \ {n} /\ live' = live \cup {n}
      /\ made' = made \cup {<<r, n>>}
  BY DEF Make
<1>2. NeverBookless'
  BY <1>1 DEF IInv, NeverBookless
<1>3. QED
  BY <1>1, <1>2 DEF IInv, TypeOK, Apart, WorldKept, RowsKept

LEMMA StepIInv ==
    ASSUME IInv, WorldKept, nav' \in Navs, job' \in Jobs,
           locks' \subseteq {"cancel", "move"} \X Records,
           UNCHANGED <<asked, card>>,
           told' = told \/ (told' \in Tolds /\ AnswersAreTrue' /\ Gone'),
           MovesAsShown', FlagsInHand', LocksInHand', MadeInHand'
    PROVE  IInv'
<1>1. told' \in Tolds
  BY DEF IInv, TypeOK, Tolds
<1>2. asked' \in BOOLEAN /\ card' \in Maybe(Records \X Slots)
  BY DEF IInv, TypeOK
<1>3. TypeOK'
  BY <1>1, <1>2 DEF TypeOK, WorldKept, RowsKept, Tolds
<1>4. AnswersAreTrue' /\ Gone'
  <2>1. ASSUME told' = told PROVE AnswersAreTrue' /\ Gone'
    <3>1. Gone'
      BY <2>1 DEF IInv, Gone, WorldKept
    <3>2. AnswersAreTrue'
      BY <2>1 DEF IInv, AnswersAreTrue, Gone, WorldKept, RowsKept
    <3>3. QED
      BY <3>1, <3>2
  <2>2. QED
    BY <2>1
<1>5. QED
  BY <1>3, <1>4 DEF IInv, WorldKept

\* Another attempt: nothing but the number of attempts, and the bookings.
LEMMA AgainStep ==
    ASSUME IInv, WorldKept, Repeat, UNCHANGED <<nav, locks, told, asked, card>>
    PROVE  IInv'
<1>1. /\ nav \in Navs /\ job \in Jobs /\ locks \subseteq {"cancel", "move"} \X Records
  BY DEF IInv, TypeOK
<1>2. job' \in Jobs /\ job'.pc = job.pc /\ job'.rec = job.rec /\ job'.new = job.new
  BY <1>1, NextAttempt
<1>3. MovesAsShown' /\ FlagsInHand'
  BY <1>2 DEF IInv, MovesAsShown, FlagsInHand
<1>4. LocksInHand'
  BY <1>2 DEF IInv, LocksInHand, WorldKept
<1>5. MadeInHand'
  BY <1>2 DEF IInv, MadeInHand, WorldKept
<1>6. QED
  BY <1>1, <1>2, <1>3, <1>4, <1>5, StepIInv

LEMMA NoJobIsJob == NoJob \in Jobs /\ NoJob.pc = "idle"
  BY MyBookingsAssumption DEF NoJob, Jobs

\* The end of a failed cancellation gives back the flag and the lock.
LEMMA CancelFailedStep ==
    ASSUME IInv, WorldKept, NEW r \in Records, job.pc \in CancelPcs, job.rec = r,
           CancelFailed(r), UNCHANGED <<asked, card>>
    PROVE  IInv'
<1>1. /\ nav \in Navs /\ locks \subseteq {"cancel", "move"} \X Records
  BY DEF IInv, TypeOK
<1>2. /\ nav' = [nav EXCEPT !.cancelling = Nothing]
      /\ locks' = locks \ {<<"cancel", r>>}
      /\ job' = NoJob
      /\ told' = [answer |-> "not_cancelled", rec |-> r, new |-> Nothing]
  BY DEF CancelFailed, Ends
<1>3. /\ nav' \in Navs /\ nav'.cancelling = Nothing /\ nav'.moving = nav.moving
      /\ nav'.source = nav.source /\ nav'.slot = nav.slot
  BY <1>1, <1>2 DEF Navs
<1>4. job' \in Jobs /\ job'.pc = "idle"
  BY <1>2, NoJobIsJob
<1>5. told' \in Tolds /\ AnswersAreTrue' /\ Gone'
  BY <1>2 DEF Tolds, Answers, AnswersAreTrue, Gone
<1>6. MovesAsShown' /\ MadeInHand'
  BY <1>3, <1>4 DEF IInv, MovesAsShown, MadeInHand
<1>7. FlagsInHand'
  BY <1>3, <1>4 DEF IInv, FlagsInHand
<1>8. LocksInHand'
  BY <1>2 DEF IInv, LocksInHand, WorldKept
<1>9. QED
  BY <1>1, <1>2, <1>3, <1>4, <1>5, <1>6, <1>7, <1>8, StepIInv

\* The end of a failed move likewise; it may have an outcome to keep.
LEMMA MoveFailedStep ==
    ASSUME IInv, WorldKept, NEW r \in Records, job.pc \in MovePcs, job.rec = r,
           nav' \in Navs, ~ nav'.moving, nav'.cancelling = nav.cancelling,
           nav'.source = nav.source, nav'.slot \in {nav.slot, Nothing},
           locks' = locks \ {<<"move", r>>}, job' = NoJob,
           told' = told \/ (told' \in Tolds /\ AnswersAreTrue' /\ Gone'),
           UNCHANGED <<asked, card>>
    PROVE  IInv'
<1>1. locks \subseteq {"cancel", "move"} \X Records
  BY DEF IInv, TypeOK
<1>2. job' \in Jobs /\ job'.pc = "idle"
  BY NoJobIsJob
<1>3. MovesAsShown' /\ MadeInHand'
  BY <1>2 DEF IInv, MovesAsShown, MadeInHand
<1>4. FlagsInHand'
  BY <1>2 DEF IInv, FlagsInHand
<1>5. LocksInHand'
  BY DEF IInv, LocksInHand, WorldKept
<1>6. QED
  BY <1>1, <1>2, <1>3, <1>4, <1>5, StepIInv

\* A handler goes on, or begins: the bookings stay as they are.
LEMMA GoOnStep ==
    ASSUME IInv, UNCHANGED <<live, fresh, attributed, rest>>,
           nav' \in Navs, job' \in Jobs, told' = told \/ told' = Silence,
           locks' \subseteq {"cancel", "move"} \X Records,
           nav'.source = nav.source, nav'.slot = nav.slot,
           FlagsInHand', LocksInHand', job'.pc # "deleteOld"
    PROVE  IInv'
<1>1. asked' \in BOOLEAN /\ card' \in Maybe(Records \X Slots)
  BY DEF IInv, TypeOK
<1>2. MovesAsShown'
  BY DEF IInv, MovesAsShown
<1>3. MadeInHand'
  BY DEF MadeInHand
<1>4. QED
  BY <1>1, <1>2, <1>3, ChatStep

-----------------------------------------------------------------------------
(* Cancelling *)

LEMMA CancelConfirmStep == IInv /\ CancelConfirm => IInv'
<1> SUFFICES ASSUME IInv, CancelConfirm PROVE IInv'
  OBVIOUS
<1> DEFINE r == nav.selected
<1>1. /\ nav \in Navs /\ locks \subseteq {"cancel", "move"} \X Records
      /\ job.pc = "idle" /\ r # Nothing
      /\ nav' = [nav EXCEPT !.cancelling = r] /\ locks' = locks \cup {<<"cancel", r>>}
      /\ told' = Silence /\ UNCHANGED <<live, fresh, attributed, rest>>
  BY DEF IInv, TypeOK, CancelConfirm
<1>2. r \in Records
  BY <1>1 DEF Navs
<1>3. job' = [pc |-> "check", rec |-> r, new |-> Nothing, attempt |-> 0]
  BY DEF CancelConfirm, NoJob
<1>4. job' \in Jobs /\ job'.pc = "check" /\ job'.rec = r
  BY <1>2, <1>3, MyBookingsAssumption DEF Jobs
<1>5. /\ nav' \in Navs /\ nav'.moving = nav.moving /\ nav'.source = nav.source
      /\ nav'.slot = nav.slot
  BY <1>1, <1>2 DEF Navs
<1>6. FlagsInHand'
  BY <1>1, <1>4, <1>5 DEF IInv, FlagsInHand
<1>7. LocksInHand'
  BY <1>1, <1>4 DEF IInv, LocksInHand
<1>8. locks' \subseteq {"cancel", "move"} \X Records
  BY <1>1, <1>2
<1> HIDE DEF r
<1>9. QED
  BY <1>1, <1>4, <1>5, <1>6, <1>7, <1>8, GoOnStep

LEMMA CancelCheckStep ==
    ASSUME IInv, NEW r \in Records, CancelCheck(r) PROVE IInv'
<1>1. /\ job.pc = "check" /\ job.rec = r /\ nav \in Navs /\ job \in Jobs
      /\ locks \subseteq {"cancel", "move"} \X Records
      /\ UNCHANGED <<live, fresh, attributed, rest>>
  BY DEF IInv, TypeOK, CancelCheck
<1>2. WorldKept
  BY <1>1, WorldUnchanged
<1>3. CASE CancelFailed(r)
  BY <1>1, <1>2, <1>3, CancelFailedStep
<1>4. ASSUME job' = [job EXCEPT !.pc = "delete", !.attempt = 1], UNCHANGED <<nav, locks, told>>
      PROVE  IInv'
  <2>1. job' = [pc |-> "delete", rec |-> r, new |-> job.new, attempt |-> 1]
    BY <1>1, <1>4 DEF Jobs
  <2>2. job' \in Jobs /\ job'.pc = "delete" /\ job'.rec = r
    BY <1>1, <2>1, MyBookingsAssumption DEF Jobs
  <2>3. FlagsInHand'
    BY <1>1, <1>4, <2>2 DEF IInv, FlagsInHand
  <2>4. LocksInHand'
    BY <1>1, <1>4, <2>2 DEF IInv, LocksInHand
  <2>5. QED
    BY <1>1, <1>4, <2>2, <2>3, <2>4, GoOnStep
<1>5. QED
  BY <1>3, <1>4 DEF CancelCheck

LEMMA DeleteLostStep ==
    ASSUME IInv, NEW r \in Records, DeleteLost(r) PROVE IInv'
<1>1. /\ job.pc = "delete" /\ job.rec = r /\ live' = live \ {r}
      /\ UNCHANGED <<recovering, fresh, attributed, unsaved, asked, card, made, moved>>
  BY DEF DeleteLost
<1>2. recovering' \subseteq Records /\ RowsKept
  BY <1>1, RowsUnchanged DEF IInv, TypeOK
<1>3. WorldKept
  BY <1>1, <1>2, WorldLess
<1>4. CASE Repeat /\ UNCHANGED <<nav, locks, told>>
  BY <1>1, <1>3, <1>4, AgainStep
<1>5. CASE CancelFailed(r)
  BY <1>1, <1>3, <1>5, CancelFailedStep
<1>6. QED
  BY <1>4, <1>5 DEF DeleteLost

LEMMA DeleteFailsStep ==
    ASSUME IInv, NEW r \in Records, DeleteFails(r) PROVE IInv'
<1>1. /\ job.pc = "delete" /\ job.rec = r /\ UNCHANGED <<live, fresh, attributed, rest>>
  BY DEF DeleteFails
<1>2. WorldKept
  BY <1>1, WorldUnchanged
<1>3. CASE Repeat /\ UNCHANGED <<nav, locks, told>>
  BY <1>1, <1>2, <1>3, AgainStep
<1>4. CASE CancelFailed(r)
  BY <1>1, <1>2, <1>4, CancelFailedStep
<1>5. QED
  BY <1>3, <1>4 DEF DeleteFails

LEMMA DeletedStep ==
    ASSUME IInv, NEW r \in Records, Deleted(r) PROVE IInv'
<1>1. /\ job.pc = "delete" /\ job.rec = r /\ nav \in Navs
      /\ locks \subseteq {"cancel", "move"} \X Records
      /\ r \in live /\ live' = live \ {r} /\ Log(r, {r})
      /\ recovering' = recovering \cup {r}
      /\ UNCHANGED <<fresh, locks, asked, card, made, moved>>
  BY DEF IInv, TypeOK, Deleted
<1>2. recovering' \subseteq Records /\ RowsKept
  BY <1>1, LogKeeps DEF IInv, TypeOK
<1>3. WorldKept
  BY <1>1, <1>2, WorldLess
<1>4. r \notin live' \cup fresh'
  BY <1>1 DEF IInv, Apart
<1>5. told' = [answer |-> "cancelled", rec |-> r, new |-> Nothing]
  BY DEF Deleted
<1>6. told' \in Tolds /\ AnswersAreTrue' /\ Gone'
  BY <1>4, <1>5 DEF Tolds, Answers, AnswersAreTrue, Gone
<1>7. nav' = [listed |-> nav.listed, selected |-> Nothing, cancelling |-> Nothing,
              completed |-> nav.completed \cup {r}, source |-> nav.source, slot |-> nav.slot,
              moving |-> nav.moving, outcome |-> nav.outcome, movedOld |-> nav.movedOld]
  BY <1>1 DEF Deleted, Navs
<1>8. nav' \in Navs
  BY <1>1, <1>7 DEF Navs
<1>9. job' = [pc |-> "show", rec |-> Nothing, new |-> Nothing, attempt |-> 0]
  BY DEF Deleted, NoJob
<1>10. job' \in Jobs /\ job'.pc = "show"
  BY <1>9, MyBookingsAssumption DEF Jobs
<1>11. MovesAsShown' /\ MadeInHand'
  BY <1>1, <1>7, <1>10 DEF IInv, MovesAsShown, MadeInHand
<1>12. FlagsInHand'
  BY <1>1, <1>7, <1>10 DEF IInv, FlagsInHand
<1>13. LocksInHand'
  BY <1>1, <1>4, <1>10 DEF IInv, LocksInHand, WorldKept
<1>14. QED
  BY <1>1, <1>3, <1>6, <1>8, <1>10, <1>11, <1>12, <1>13, StepIInv

-----------------------------------------------------------------------------
(* Moving *)

LEMMA MoveConfirmStep == IInv /\ MoveConfirm => IInv'
<1> SUFFICES ASSUME IInv, MoveConfirm PROVE IInv'
  OBVIOUS
<1> DEFINE r == nav.source
<1>1. /\ nav \in Navs /\ locks \subseteq {"cancel", "move"} \X Records
      /\ job.pc = "idle" /\ r # Nothing /\ ~ MoveRefused(r)
      /\ locks' = locks \cup {<<"move", r>>}
      /\ told' = Silence /\ UNCHANGED <<live, fresh, attributed, nav, rest>>
  BY DEF IInv, TypeOK, MoveConfirm
<1>2. r \in Records
  BY <1>1 DEF Navs
<1>3. job' = [pc |-> "recheck", rec |-> r, new |-> Nothing, attempt |-> 0]
  BY DEF MoveConfirm, NoJob
<1>4. job' \in Jobs /\ job'.pc = "recheck" /\ job'.rec = r
  BY <1>2, <1>3, MyBookingsAssumption DEF Jobs
<1>5. nav.outcome = Nothing /\ ~ nav.moving
  BY <1>1 DEF MoveRefused
<1>6. FlagsInHand'
  BY <1>1, <1>4, <1>5 DEF IInv, FlagsInHand
<1>7. LocksInHand'
  BY <1>1, <1>4 DEF IInv, LocksInHand
<1>8. locks' \subseteq {"cancel", "move"} \X Records
  BY <1>1, <1>2
<1> HIDE DEF r
<1>9. QED
  BY <1>1, <1>4, <1>6, <1>7, <1>8, GoOnStep

LEMMA RecheckStep ==
    ASSUME IInv, NEW r \in Records, Recheck(r) PROVE IInv'
<1>1. /\ job.pc = "recheck" /\ job.rec = r /\ nav \in Navs /\ job \in Jobs
      /\ locks \subseteq {"cancel", "move"} \X Records
      /\ UNCHANGED <<live, fresh, attributed, rest, told>>
  BY DEF IInv, TypeOK, Recheck
<1>2. WorldKept
  BY <1>1, WorldUnchanged
<1>3. ASSUME NEW s \in {nav.slot, Nothing},
             nav' = [listed |-> nav.listed, selected |-> nav.selected,
                     cancelling |-> nav.cancelling, completed |-> nav.completed,
                     source |-> nav.source, slot |-> s, moving |-> FALSE,
                     outcome |-> nav.outcome, movedOld |-> nav.movedOld],
             locks' = locks \ {<<"move", r>>}, job' = NoJob
      PROVE  IInv'
  <2>1. nav' \in Navs
    BY <1>1, <1>3 DEF Navs
  <2>2. ~ nav'.moving
    BY <1>3, Zenon
  <2>3. nav'.cancelling = nav.cancelling /\ nav'.source = nav.source /\ nav'.slot = s
    BY <1>3
  <2>4. QED
    BY <1>1, <1>2, <1>3, <2>1, <2>2, <2>3, MoveFailedStep
<1>4. ASSUME nav' = [nav EXCEPT !.moving = TRUE],
             job' = [job EXCEPT !.pc = "create", !.attempt = 1], UNCHANGED locks
      PROVE  IInv'
  <2>1. job' = [pc |-> "create", rec |-> r, new |-> job.new, attempt |-> 1]
    BY <1>1, <1>4 DEF Jobs
  <2>2. job' \in Jobs /\ job'.pc = "create" /\ job'.rec = r
    BY <1>1, <2>1, MyBookingsAssumption DEF Jobs
  <2>3. /\ nav' \in Navs /\ nav'.cancelling = nav.cancelling /\ nav'.source = nav.source
        /\ nav'.slot = nav.slot /\ nav'.outcome = nav.outcome
    BY <1>1, <1>4 DEF Navs
  <2>4. FlagsInHand'
    BY <1>1, <2>2, <2>3 DEF IInv, FlagsInHand
  <2>5. LocksInHand'
    BY <1>1, <1>4, <2>2 DEF IInv, LocksInHand
  <2>6. QED
    BY <1>1, <1>4, <2>2, <2>3, <2>4, <2>5, GoOnStep
<1>5. CASE nav' \in {[nav EXCEPT !.moving = FALSE], [nav EXCEPT !.moving = FALSE, !.slot = Nothing]}
           /\ locks' = locks \ {<<"move", r>>} /\ job' = NoJob
  <2>1. PICK s \in {nav.slot, Nothing} :
           nav' = [listed |-> nav.listed, selected |-> nav.selected,
                   cancelling |-> nav.cancelling, completed |-> nav.completed,
                   source |-> nav.source, slot |-> s, moving |-> FALSE,
                   outcome |-> nav.outcome, movedOld |-> nav.movedOld]
    BY <1>1, <1>5 DEF Navs
  <2>2. QED
    BY <1>3, <1>5, <2>1
<1>6. QED
  BY <1>4, <1>5 DEF Recheck

\* The move ends without an answer to keep.
LEMMA NotMovedStep ==
    ASSUME IInv, WorldKept, NEW r \in Records, job.pc \in MovePcs, job.rec = r,
           MoveFailed(r), UNCHANGED <<asked, card>>
    PROVE  IInv'
<1>1. /\ nav' = [nav EXCEPT !.moving = FALSE] /\ locks' = locks \ {<<"move", r>>}
      /\ job' = NoJob /\ told' = [answer |-> "not_moved", rec |-> r, new |-> Nothing]
      /\ nav \in Navs
  BY DEF IInv, TypeOK, MoveFailed, Ends
<1>2. /\ nav' \in Navs /\ nav'.cancelling = nav.cancelling /\ nav'.source = nav.source
      /\ nav'.slot = nav.slot
  BY <1>1 DEF Navs
<1>3. ~ nav'.moving
  BY <1>1, Zenon DEF Navs
<1>4. told' \in Tolds /\ AnswersAreTrue' /\ Gone'
  BY <1>1 DEF Tolds, Answers, AnswersAreTrue, Gone
<1>5. QED
  BY <1>1, <1>2, <1>3, <1>4, MoveFailedStep

LEMMA CreateLostStep ==
    ASSUME IInv, NEW r \in Records, NEW n \in Records, CreateLost(r, n) PROVE IInv'
<1>1. /\ job.pc = "create" /\ job.rec = r /\ Make(r, n)
      /\ UNCHANGED <<recovering, attributed, unsaved, asked, card, moved>>
  BY DEF CreateLost
<1>2. WorldKept
  BY <1>1, WorldMade
<1>3. CASE Repeat /\ UNCHANGED <<nav, locks, told>>
  BY <1>1, <1>2, <1>3, AgainStep
<1>4. CASE MoveFailed(r)
  BY <1>1, <1>2, <1>4, NotMovedStep
<1>5. QED
  BY <1>3, <1>4 DEF CreateLost

LEMMA CreateFailsStep ==
    ASSUME IInv, NEW r \in Records, CreateFails(r) PROVE IInv'
<1>1. /\ job.pc = "create" /\ job.rec = r /\ UNCHANGED <<live, fresh, attributed, rest>>
  BY DEF CreateFails
<1>2. WorldKept
  BY <1>1, WorldUnchanged
<1>3. CASE Repeat /\ UNCHANGED <<nav, locks, told>>
  BY <1>1, <1>2, <1>3, AgainStep
<1>4. CASE MoveFailed(r)
  BY <1>1, <1>2, <1>4, NotMovedStep
<1>5. QED
  BY <1>3, <1>4 DEF CreateFails

LEMMA CreateAnsweredStep ==
    ASSUME IInv, NEW r \in Records, NEW n \in Records, CreateAnswered(r, n) PROVE IInv'
<1>1. /\ job.pc = "create" /\ job.rec = r /\ Make(r, n)
      /\ nav \in Navs /\ job \in Jobs /\ locks \subseteq {"cancel", "move"} \X Records
      /\ UNCHANGED <<recovering, attributed, unsaved, nav, locks, asked, card, moved, told>>
  BY DEF IInv, TypeOK, CreateAnswered
<1>2. WorldKept /\ <<r, n>> \in made'
  BY <1>1, WorldMade
<1>3. job' = [job EXCEPT !.pc = "deleteOld", !.attempt = 1, !.new = n]
  BY DEF CreateAnswered
<1>4. job' = [pc |-> "deleteOld", rec |-> r, new |-> n, attempt |-> 1]
  BY <1>1, <1>3 DEF Jobs
<1>5. job' \in Jobs /\ job'.pc = "deleteOld" /\ job'.rec = r /\ job'.new = n
  BY <1>4, MyBookingsAssumption DEF Jobs
<1>6. MovesAsShown' /\ FlagsInHand'
  BY <1>1, <1>5 DEF IInv, MovesAsShown, FlagsInHand
<1>7. LocksInHand'
  BY <1>1, <1>2, <1>5 DEF IInv, LocksInHand, WorldKept
<1>8. MadeInHand'
  BY <1>2, <1>5 DEF MadeInHand
<1>9. QED
  BY <1>1, <1>2, <1>5, <1>6, <1>7, <1>8, StepIInv

\* The old record's deletion fails; the record may be deleted all the same.
LEMMA DeleteOldFailedStep ==
    ASSUME IInv, WorldKept, NEW r \in Records, job.pc = "deleteOld", job.rec = r,
           DeleteOldFailed(r), UNCHANGED <<asked, card>>
    PROVE  IInv'
<1>1. /\ nav' = [nav EXCEPT !.moving = FALSE, !.movedOld = r, !.outcome = "partial"]
      /\ locks' = locks \ {<<"move", r>>} /\ job' = NoJob
      /\ told' = [answer |-> "partly_moved", rec |-> r, new |-> job.new]
      /\ nav \in Navs
  BY DEF IInv, TypeOK, DeleteOldFailed, Ends
<1>2. nav' = [listed |-> nav.listed, selected |-> nav.selected, cancelling |-> nav.cancelling,
              completed |-> nav.completed, source |-> nav.source, slot |-> nav.slot,
              moving |-> FALSE, outcome |-> "partial", movedOld |-> r]
  BY <1>1 DEF Navs
<1>3. nav' \in Navs
  BY <1>1, <1>2 DEF Navs
<1>4. ~ nav'.moving
  BY <1>2, Zenon
<1>5. nav'.cancelling = nav.cancelling /\ nav'.source = nav.source /\ nav'.slot = nav.slot
  BY <1>2
<1>6. job.new \in Records /\ <<r, job.new>> \in made'
  BY DEF IInv, MadeInHand, WorldKept
<1>7. told' \in Tolds /\ AnswersAreTrue' /\ Gone'
  BY <1>1, <1>6 DEF Tolds, Answers, AnswersAreTrue, Gone
<1>8. QED
  BY <1>1, <1>3, <1>4, <1>5, <1>7, MoveFailedStep

LEMMA DeleteOldLostStep ==
    ASSUME IInv, NEW r \in Records, DeleteOldLost(r) PROVE IInv'
<1>1. /\ job.pc = "deleteOld" /\ job.rec = r /\ DeleteOld(r)
      /\ UNCHANGED <<recovering, fresh, attributed, unsaved, asked, card, made>>
  BY DEF DeleteOldLost
<1>2. RowsKept
  BY <1>1, RowsUnchanged
<1>3. WorldKept
  BY <1>1, <1>2, WorldMoved
<1>4. CASE Repeat /\ UNCHANGED <<nav, locks, told>>
  BY <1>1, <1>3, <1>4, AgainStep
<1>5. CASE DeleteOldFailed(r)
  BY <1>1, <1>3, <1>5, DeleteOldFailedStep
<1>6. QED
  BY <1>4, <1>5 DEF DeleteOldLost

LEMMA DeleteOldFailsStep ==
    ASSUME IInv, NEW r \in Records, DeleteOldFails(r) PROVE IInv'
<1>1. /\ job.pc = "deleteOld" /\ job.rec = r /\ UNCHANGED <<live, fresh, attributed, rest>>
  BY DEF DeleteOldFails
<1>2. WorldKept
  BY <1>1, WorldUnchanged
<1>3. CASE Repeat /\ UNCHANGED <<nav, locks, told>>
  BY <1>1, <1>2, <1>3, AgainStep
<1>4. CASE DeleteOldFailed(r)
  BY <1>1, <1>2, <1>4, DeleteOldFailedStep
<1>5. QED
  BY <1>3, <1>4 DEF DeleteOldFails

LEMMA OldDeletedStep ==
    ASSUME IInv, NEW r \in Records, OldDeleted(r) PROVE IInv'
<1>1. /\ job.pc = "deleteOld" /\ job.rec = r /\ nav \in Navs /\ job \in Jobs
      /\ locks \subseteq {"cancel", "move"} \X Records
      /\ DeleteOld(r) /\ Log(job.new, {job.new, r})
      /\ locks' = locks \ {<<"move", r>>} /\ job' = NoJob
      /\ told' = [answer |-> "moved", rec |-> r, new |-> job.new]
      /\ UNCHANGED <<recovering, fresh, asked, card, made>>
  BY DEF IInv, TypeOK, OldDeleted, Attributed, Ends
<1>2. job.new \in Records /\ <<r, job.new>> \in made'
  BY <1>1 DEF IInv, MadeInHand
<1>3. RowsKept /\ job.new \in attributed' \cup unsaved'
  BY <1>1, <1>2, LogKeeps
<1>4. WorldKept
  BY <1>1, <1>3, WorldMoved
<1>5. r \notin live' \cup fresh'
  BY <1>1 DEF IInv, Apart, DeleteOld
<1>7. told' \in Tolds
  BY <1>1, <1>2 DEF Tolds, Answers
<1>8. AnswersAreTrue' /\ Gone'
  BY <1>1, <1>2, <1>3, <1>5 DEF AnswersAreTrue, Gone
<1>9. nav' = [listed |-> nav.listed, selected |-> Nothing, cancelling |-> nav.cancelling,
              completed |-> nav.completed, source |-> Nothing, slot |-> Nothing,
              moving |-> FALSE, outcome |-> "success", movedOld |-> r]
  BY <1>1 DEF OldDeleted, Navs
<1>10. nav' \in Navs
  BY <1>1, <1>9 DEF Navs
<1>11. job' \in Jobs /\ job'.pc = "idle"
  BY <1>1, NoJobIsJob
<1>12. MovesAsShown' /\ MadeInHand'
  BY <1>9, <1>11 DEF MovesAsShown, MadeInHand
<1>13. FlagsInHand'
  <2>1. ~ nav'.moving
    BY <1>9, Zenon
  <2>2. nav'.cancelling = Nothing
    BY <1>1, <1>9 DEF IInv, FlagsInHand
  <2>3. QED
    BY <1>11, <2>1, <2>2 DEF FlagsInHand
<1>14. LocksInHand'
  BY <1>1, <1>4 DEF IInv, LocksInHand, WorldKept
<1>15. locks' \subseteq {"cancel", "move"} \X Records
  BY <1>1
<1>16. QED
  BY <1>1, <1>4, <1>7, <1>8, <1>10, <1>11, <1>12, <1>13, <1>14, <1>15, StepIInv

-----------------------------------------------------------------------------
(* The salon, and the death of the process *)

\* Bookings change under a chat that does not notice.
LEMMA UnseenStep ==
    ASSUME IInv, WorldKept, UNCHANGED <<nav, locks, job, asked, card, told>>
    PROVE  IInv'
<1>1. nav' \in Navs /\ job' \in Jobs /\ locks' \subseteq {"cancel", "move"} \X Records
  BY DEF IInv, TypeOK
<1>2. MovesAsShown' /\ FlagsInHand'
  BY DEF IInv, MovesAsShown, FlagsInHand
<1>3. LocksInHand'
  BY DEF IInv, LocksInHand, WorldKept
<1>4. MadeInHand'
  BY DEF IInv, MadeInHand, WorldKept
<1>5. QED
  BY <1>1, <1>2, <1>3, <1>4, StepIInv

LEMMA ElsewhereStep ==
    ASSUME IInv, NEW r \in Records, Elsewhere(r) PROVE IInv'
<1>1. /\ live' = live \ {r}
      /\ UNCHANGED <<fresh, attributed, nav, locks, job, rest, told>>
  BY DEF Elsewhere
<1>2. recovering' \subseteq Records /\ RowsKept
  BY <1>1, RowsUnchanged DEF IInv, TypeOK
<1>3. WorldKept
  BY <1>1, <1>2, WorldLess
<1>4. QED
  BY <1>1, <1>3, UnseenStep

LEMMA BookedStep ==
    ASSUME IInv, NEW n \in Records, Booked(n) PROVE IInv'
<1>1. /\ n \in fresh /\ fresh' = fresh \ {n} /\ live' = live \cup {n}
      /\ UNCHANGED <<attributed, nav, locks, job, rest, told>>
  BY DEF Booked
<1>2. WorldKept
  BY <1>1 DEF IInv, TypeOK, Apart, NeverBookless, WorldKept, RowsKept
<1>3. QED
  BY <1>1, <1>2, UnseenStep

LEMMA CrashStep == IInv /\ Crash => IInv'
<1> SUFFICES ASSUME IInv, Crash PROVE IInv'
  OBVIOUS
<1>1. /\ nav' = NoNav /\ locks' = {} /\ job' = NoJob /\ told' = Silence
      /\ UNCHANGED <<live, fresh, attributed, rest>>
  BY DEF Crash
<1>2. nav' \in Navs /\ ~ nav'.moving /\ nav'.cancelling = Nothing /\ nav'.source = Nothing
  BY <1>1 DEF NoNav, Navs
<1>3. job' \in Jobs /\ job'.pc = "idle"
  BY <1>1, NoJobIsJob
<1>4. asked' \in BOOLEAN /\ card' \in Maybe(Records \X Slots)
  BY <1>1 DEF IInv, TypeOK
<1>5. MovesAsShown' /\ FlagsInHand' /\ LocksInHand' /\ MadeInHand'
  BY <1>1, <1>2, <1>3 DEF MovesAsShown, FlagsInHand, LocksInHand, MadeInHand
<1>6. QED
  BY <1>1, <1>2, <1>3, <1>4, <1>5, ChatStep

-----------------------------------------------------------------------------
(* The theorems *)

LEMMA NextIInv == IInv /\ [Next]_vars => IInv'
<1> SUFFICES ASSUME IInv, [Next]_vars PROVE IInv'
  OBVIOUS
<1>1. CASE Screens
  BY <1>1, ScreenStep, CancelConfirmStep, MoveConfirmStep DEF Screens
<1>2. CASE Show
  BY <1>2, ScreenStep
<1>3. CASE Cancelling
  BY <1>3, CancelCheckStep, DeleteLostStep, DeleteFailsStep, DeletedStep DEF Cancelling
<1>4. CASE Moving
  BY <1>4, RecheckStep, CreateLostStep, CreateFailsStep, CreateAnsweredStep, DeleteOldLostStep,
     DeleteOldFailsStep, OldDeletedStep DEF Moving
<1>5. CASE Crash
  BY <1>5, CrashStep
<1>6. CASE \E r \in Records : Elsewhere(r) \/ Booked(r)
  BY <1>6, ElsewhereStep, BookedStep
<1>7. CASE UNCHANGED vars
  <2>1. UNCHANGED <<live, fresh, attributed, nav, locks, job, rest, told>>
    BY <1>7 DEF vars
  <2>2. WorldKept
    BY <2>1, WorldUnchanged
  <2>3. QED
    BY <2>1, <2>2, UnseenStep
<1>8. QED
  BY <1>1, <1>2, <1>3, <1>4, <1>5, <1>6, <1>7 DEF Next

\* The strengthened invariant holds of every reachable state.
THEOREM Invariance == Spec => []IInv
  BY InitIInv, NextIInv, PTL DEF Spec

\* The state keeps its shape, for any records, slots and number of attempts.
THEOREM TypeCorrect == Spec => []TypeOK
<1>1. IInv => TypeOK
  BY DEF IInv
<1>2. QED
  BY <1>1, Invariance, PTL

\* No answer lost and no button pressed again makes a move delete a booking
\* that nothing was made to replace.
THEOREM NeverBooklessAlways == Spec => []NeverBookless
<1>1. IInv => NeverBookless
  BY DEF IInv
<1>2. QED
  BY <1>1, Invariance, PTL

\* What the client was told last of a cancellation or a move stays true, and the
\* new record has its row unless the database refused it.
THEOREM AnswersAreTrueAlways == Spec => []AnswersAreTrue
<1>1. IInv => AnswersAreTrue
  BY DEF IInv
<1>2. QED
  BY <1>1, Invariance, PTL

\* Every way out of a handler gives back its flags, and the locks of bookings
\* that still exist.
THEOREM NothingLeftLockedAlways == Spec => []NothingLeftLocked
<1>1. IInv => NothingLeftLocked
  <2> SUFFICES ASSUME IInv, job.pc = "idle"
               PROVE  /\ ~ nav.moving /\ nav.cancelling = Nothing
                      /\ \A a \in {"cancel", "move"}, r \in live : <<a, r>> \notin locks
    BY DEF NothingLeftLocked
  <2>1. ~ nav.moving /\ nav.cancelling = Nothing
    BY DEF IInv, FlagsInHand
  <2>2. \A r \in live : r \in Records
    BY DEF IInv, TypeOK
  <2>3. \A r \in live : <<"cancel", r>> \notin locks /\ <<"move", r>> \notin locks
    BY <2>2 DEF IInv, LocksInHand
  <2>4. QED
    BY <2>1, <2>3
<1>2. QED
  BY <1>1, Invariance, PTL

\* What a confirmation would move is what the last card of a move shows.
THEOREM MovesAsShownAlways == Spec => []MovesAsShown
<1>1. IInv => MovesAsShown
  BY DEF IInv
<1>2. QED
  BY <1>1, Invariance, PTL

\* After the end of a move no record is made for it.
THEOREM EndedMovesMakeNothingAlways == Spec => EndedMovesMakeNothing
<1>1. IInv /\ [Next]_vars => [nav.outcome # Nothing => made' = made]_vars
  <2> SUFFICES ASSUME IInv, Next, nav.outcome # Nothing PROVE made' = made
    BY DEF vars
  <2>1. job.pc \notin MovePcs
    BY DEF IInv, FlagsInHand
  <2>2. ~ Moving
    BY <2>1 DEF Moving, Recheck, CreateFails, DeleteOldLost, DeleteOldFails, OldDeleted,
       CreateLost, CreateAnswered
  <2>3. CASE Screens
    BY <2>3 DEF Screens, Open, Home, LockExpires, CancelStart, CancelConfirm, MoveStart,
       PickDate, MoveConfirm, Details, ShowActive, PickSlot
  <2>4. CASE Show \/ Crash
    BY <2>4 DEF Show, Crash
  <2>5. CASE Cancelling
    BY <2>5 DEF Cancelling, CancelCheck, DeleteLost, DeleteFails, Deleted
  <2>6. CASE \E r \in Records : Elsewhere(r) \/ Booked(r)
    BY <2>6 DEF Elsewhere, Booked
  <2>7. QED
    BY <2>2, <2>3, <2>4, <2>5, <2>6 DEF Next
<1>2. QED
  BY <1>1, Invariance, PTL DEF Spec, EndedMovesMakeNothing

\* MyBookings implements ClientBookings: an event for recovery arises exactly in
\* the step in which the client's own cancellation removes a booking.
THEOREM LedgerRefined == Spec => LedgerSpec
<1>1. Init => Bookings!LedgerInit
  BY MyBookingsAssumption DEF Init, Bookings!LedgerInit
<1>2. [Next]_vars => [Bookings!LedgerNext]_(Bookings!ledger)
  <2> SUFFICES ASSUME [Next]_vars
               PROVE  Bookings!LedgerNext \/ UNCHANGED <<live, fresh, recovering>>
    BY DEF Bookings!ledger
  <2>1. CASE Screens
    BY <2>1 DEF Screens, Open, Home, LockExpires, CancelStart, CancelConfirm, MoveStart,
       PickDate, MoveConfirm, Details, ShowActive, PickSlot
  <2>2. CASE Show \/ Crash
    BY <2>2 DEF Show, Crash
  <2>3. CASE Cancelling
    <3>1. ASSUME NEW r \in Records, DeleteLost(r) PROVE Bookings!Remove(r)
      BY <3>1 DEF DeleteLost, Bookings!Remove
    <3>2. ASSUME NEW r \in Records, Deleted(r) PROVE Bookings!Cancel(r)
      BY <3>2 DEF Deleted, Bookings!Cancel
    <3>3. ASSUME NEW r \in Records, CancelCheck(r) \/ DeleteFails(r)
          PROVE  UNCHANGED <<live, fresh, recovering>>
      BY <3>3 DEF CancelCheck, DeleteFails
    <3>4. QED
      BY <2>3, <3>1, <3>2, <3>3 DEF Cancelling, Bookings!LedgerNext
  <2>4. CASE Moving
    <3>1. ASSUME NEW r \in Records, NEW n \in Records, CreateLost(r, n) \/ CreateAnswered(r, n)
          PROVE  Bookings!Add(n)
      BY <3>1 DEF CreateLost, CreateAnswered, Make, Bookings!Add
    <3>2. ASSUME NEW r \in Records, DeleteOldLost(r) \/ OldDeleted(r) PROVE Bookings!Remove(r)
      BY <3>2 DEF DeleteOldLost, OldDeleted, DeleteOld, Bookings!Remove
    <3>3. ASSUME NEW r \in Records, Recheck(r) \/ CreateFails(r) \/ DeleteOldFails(r)
          PROVE  UNCHANGED <<live, fresh, recovering>>
      BY <3>3 DEF Recheck, CreateFails, DeleteOldFails
    <3>4. QED
      BY <2>4, <3>1, <3>2, <3>3 DEF Moving, Bookings!LedgerNext
  <2>5. ASSUME NEW r \in Records, Elsewhere(r) \/ Booked(r)
        PROVE  Bookings!Remove(r) \/ Bookings!Add(r)
    BY <2>5 DEF Elsewhere, Booked, Bookings!Remove, Bookings!Add
  <2>6. CASE UNCHANGED vars
    BY <2>6 DEF vars
  <2>7. QED
    BY <2>1, <2>2, <2>3, <2>4, <2>5, <2>6 DEF Next, Bookings!LedgerNext
<1>3. QED
  BY <1>1, <1>2, PTL DEF Spec, LedgerSpec, Bookings!LedgerSpec
=============================================================================
