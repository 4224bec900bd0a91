--------------------------- MODULE YClientsProofs ---------------------------
(***************************************************************************)
(* The safety properties of the two modules that make requests to          *)
(* YClients.  Part 1, the confirmation of BookingFlow, for any dates,      *)
(* times, places and number of attempts: a confirmation in progress keeps  *)
(* the screen, the slot and the open draft it began with, and the screen   *)
(* of the confirmation goes with the slot on its card.  Part 2, the        *)
(* requests of YClientsClient, for any tasks, endpoints and settings:      *)
(* between two cooldowns only requests already under way can fail.         *)
(***************************************************************************)
EXTENDS BookingFlow, YClientsClient, FiniteSetTheorems, TLAPS

-----------------------------------------------------------------------------
(* Part 1: BookingFlow *)

\* An answered record completes the draft until another slot is chosen.
AckedOnce ==
    /\ acked <= 1
    /\ nav.slot # None /\ nav.completed = None => acked = 0

\* Whatever leads to the confirmation's screen leads there with its slot's card.
CardOnScreen == nav.screen = "confirmation" => card \in {nav.slot, None}

\* The confirmation in progress
InHand ==
    /\ confirm.pc \in {"recheck", "post"} =>
          nav.screen = "confirmation" /\ nav.slot # None /\ nav.completed = None
    /\ confirm.pc = "post" => confirm.checked \in Slots
    /\ confirm.pc = "success" => /\ record # None /\ record.slot = nav.slot
                                 /\ record.row # "none"
    /\ confirm.pc # "idle" => told = Silence

FlagAtSuccess == confirm.pc = "success" => ~ nav.busy

\* The inductive invariant.
IInv ==
    /\ TypeOK /\ EveryWayOutUnlocks /\ SuccessIsTrue /\ LatestCardIsBooked
    /\ AckedOnce /\ CardOnScreen /\ InHand /\ FlagAtSuccess

-----------------------------------------------------------------------------
(* Lemmas of the data *)

LEMMA Numbers == Capacity \in Nat /\ Attempts \in Nat /\ Attempts > 0
  BY BookingAssumption

LEMMA NoDraftIsDraft ==
    /\ NoDraft \in Drafts /\ NoDraft.slot = None /\ NoDraft.screen = "main" /\ ~ NoDraft.busy
    /\ [NoDraft EXCEPT !.screen = "dates"] \in Drafts
    /\ [NoDraft EXCEPT !.screen = "dates"].slot = None
    /\ [NoDraft EXCEPT !.screen = "dates"].screen = "dates"
    /\ ~ [NoDraft EXCEPT !.screen = "dates"].busy
  BY DEF NoDraft, Drafts, Screens

LEMMA InitIInv == Init => IInv
<1> SUFFICES ASSUME Init PROVE IInv
  OBVIOUS
<1>1. Idle \in Confirms
  BY Numbers DEF Idle, Confirms
<1>2. free \in [Slots -> 0 .. Capacity]
  BY Numbers DEF Init
<1>3. TypeOK
  BY <1>1, <1>2, NoDraftIsDraft DEF Init, TypeOK, Silence, Answers
<1>4. EveryWayOutUnlocks /\ SuccessIsTrue /\ LatestCardIsBooked
  BY NoDraftIsDraft DEF Init, EveryWayOutUnlocks, SuccessIsTrue, Silence, LatestCardIsBooked
<1>5. AckedOnce /\ CardOnScreen /\ InHand /\ FlagAtSuccess
  BY NoDraftIsDraft DEF Init, AckedOnce, CardOnScreen, InHand, FlagAtSuccess, Idle
<1>6. QED
  BY <1>3, <1>4, <1>5 DEF IInv

\* Showing slots or dates loses the slot at most.
LEMMA OpenSlotsKeeps ==
    ASSUME NEW n \in Drafts, NEW m \in OpenSlots(n)
    PROVE  /\ m \in Drafts /\ m.slot \in {n.slot, None} /\ m.completed = n.completed
           /\ m.busy = n.busy /\ m.screen \in {"slots", "dates"}
<1>1. Available(n.date) \subseteq Slots
  BY DEF Available
<1>2. PICK sc \in {"slots", "dates"}, sl \in {n.slot, None}, S \in SUBSET Slots :
         m = [screen |-> sc, date |-> n.date, slot |-> sl, slots |-> S, phone |-> n.phone,
              busy |-> n.busy, completed |-> n.completed]
  <2>1. CASE m = [n EXCEPT !.screen = "slots"]
    <3>1. m = [screen |-> "slots", date |-> n.date, slot |-> n.slot, slots |-> n.slots,
               phone |-> n.phone, busy |-> n.busy, completed |-> n.completed]
      BY <2>1 DEF Drafts
    <3>2. n.slots \in SUBSET Slots
      BY DEF Drafts
    <3>3. QED
      BY <3>1, <3>2
  <2>2. CASE m = [n EXCEPT !.screen = "dates", !.slots = {}, !.slot = None]
    <3>1. m = [screen |-> "dates", date |-> n.date, slot |-> None, slots |-> {},
               phone |-> n.phone, busy |-> n.busy, completed |-> n.completed]
      BY <2>2 DEF Drafts
    <3>2. QED
      BY <3>1
  <2>3. CASE m = [n EXCEPT !.screen = "slots", !.slots = Available(n.date)]
    <3>1. m = [screen |-> "slots", date |-> n.date, slot |-> n.slot,
               slots |-> Available(n.date), phone |-> n.phone, busy |-> n.busy,
               completed |-> n.completed]
      BY <2>3 DEF Drafts
    <3>2. QED
      BY <1>1, <3>1
  <2>4. QED
    BY <2>1, <2>2, <2>3 DEF OpenSlots
<1>3. m \in Drafts
  BY <1>2 DEF Drafts, Screens
<1>4. QED
  BY <1>2, <1>3

-----------------------------------------------------------------------------
(* The screens *)

\* A handler between confirmations.  Either the draft's flag stays, or it is
\* cleared, and then an exception leaves at most the lock.
LEMMA HandlerStep ==
    ASSUME IInv, Handler(nav'), nav' \in Drafts,
           card' \in Slots \cup {None}, acked' \in {acked, 0}, raised' \in BOOLEAN,
           nav'.screen = "confirmation" => card' \in {nav'.slot, None},
           acked' = acked => \/ nav'.slot = None
                             \/ nav'.slot = nav.slot /\ nav'.completed = nav.completed,
           \/ raised' = raised /\ nav'.busy = nav.busy
           \/ ~ nav'.busy /\ (raised /\ locked => raised')
    PROVE  IInv'
<1>1. confirm.pc = "idle" /\ UNCHANGED <<free, record, locked, confirm, told>>
  BY DEF Handler
<1>2. acked' \in Nat
  BY DEF IInv, TypeOK
<1>3. TypeOK'
  BY <1>1, <1>2 DEF IInv, TypeOK
<1>4. EveryWayOutUnlocks'
  <2>1. CASE raised' = raised /\ nav'.busy = nav.busy
    BY <1>1, <2>1 DEF IInv, EveryWayOutUnlocks
  <2>2. CASE ~ nav'.busy /\ (raised /\ locked => raised')
    BY <1>1, <2>2 DEF IInv, EveryWayOutUnlocks
  <2>3. QED
    BY <2>1, <2>2
<1>5. SuccessIsTrue' /\ LatestCardIsBooked'
  BY <1>1 DEF IInv, SuccessIsTrue, LatestCardIsBooked
<1>6. AckedOnce'
  <2>1. CASE acked' = 0
    BY <2>1 DEF AckedOnce
  <2>2. CASE acked' = acked
    BY <2>2 DEF IInv, AckedOnce
  <2>3. QED
    BY <2>1, <2>2
<1>7. CardOnScreen' /\ InHand' /\ FlagAtSuccess'
  BY <1>1 DEF CardOnScreen, InHand, FlagAtSuccess
<1>8. QED
  BY <1>3, <1>4, <1>5, <1>6, <1>7 DEF IInv

\* The draft is forgotten, or begun anew.
LEMMA AnewStep ==
    ASSUME IInv, NEW n \in Drafts, Handler(n), Clean(n), n.slot = None,
           n.screen # "confirmation", ~ n.busy, UNCHANGED <<card, acked>>
    PROVE  IInv'
<1>1. nav' = n /\ Handler(nav')
  BY DEF Handler
<1>2. raised' = (raised /\ (n.busy \/ locked))
  BY DEF Clean
<1>3. raised' \in BOOLEAN /\ (raised /\ locked => raised')
  BY <1>2, Zenon
<1>4. card' \in Slots \cup {None}
  BY DEF IInv, TypeOK
<1>5. QED
  BY <1>1, <1>3, <1>4, HandlerStep

\* Other screens, with the same draft or without its slot
LEMMA SameDraftStep ==
    ASSUME IInv, NEW n \in Drafts, Handler(n),
           n.slot \in {nav.slot, None}, n.completed = nav.completed, n.busy = nav.busy,
           card' \in Slots \cup {None}, UNCHANGED <<acked, raised>>,
           n.screen = "confirmation" => card' \in {n.slot, None}
    PROVE  IInv'
<1>1. nav' = n /\ Handler(nav')
  BY DEF Handler
<1>2. raised' \in BOOLEAN
  BY DEF IInv, TypeOK
<1>3. QED
  BY <1>1, <1>2, HandlerStep

\* A change of the screen alone
LEMMA ScreenSet ==
    ASSUME NEW n \in Drafts, NEW s \in Screens
    PROVE  /\ [n EXCEPT !.screen = s] \in Drafts
           /\ [n EXCEPT !.screen = s].slot = n.slot
           /\ [n EXCEPT !.screen = s].completed = n.completed
           /\ [n EXCEPT !.screen = s].busy = n.busy
           /\ [n EXCEPT !.screen = s].screen = s
  BY DEF Drafts

LEMMA LeaveStart == IInv /\ (Leave \/ Start) => IInv'
<1>1. CASE IInv /\ Leave
  BY <1>1, NoDraftIsDraft, AnewStep DEF Leave
<1>2. CASE IInv /\ Start
  <2> DEFINE n == [NoDraft EXCEPT !.screen = "dates"]
  <2>1. Handler(n) /\ Clean(n) /\ UNCHANGED <<card, acked>>
    BY <1>2 DEF Start
  <2>2. n \in Drafts /\ n.slot = None /\ n.screen # "confirmation" /\ ~ n.busy
    BY NoDraftIsDraft
  <2> HIDE DEF n
  <2>3. QED
    BY <1>2, <2>1, <2>2, AnewStep
<1>3. QED
  BY <1>1, <1>2

\* The screens that change neither the slot nor the card, but may lose the slot
LEMMA ListStep ==
    ASSUME IInv,
           \/ PickMaster \/ ShowDates \/ ShowSlots \/ Back
           \/ \E d \in Dates : PickDate(d)
    PROVE  IInv'
<1>1. nav \in Drafts /\ card \in Slots \cup {None}
  BY DEF IInv, TypeOK
<1>2. UNCHANGED <<card, acked, raised>>
  BY DEF PickMaster, ShowDates, ShowSlots, Back, PickDate
<1>3. CASE PickMaster
  <2>1. nav' = [nav EXCEPT !.screen = "dates", !.date = None, !.slot = None] /\ Handler(nav')
    BY <1>3 DEF PickMaster, Handler
  <2>2. nav' = [screen |-> "dates", date |-> None, slot |-> None, slots |-> nav.slots,
                phone |-> nav.phone, busy |-> nav.busy, completed |-> nav.completed]
    BY <1>1, <2>1 DEF Drafts
  <2>3. /\ nav' \in Drafts /\ nav'.slot = None /\ nav'.completed = nav.completed
        /\ nav'.busy = nav.busy /\ nav'.screen = "dates"
    BY <1>1, <2>2 DEF Drafts, Screens
  <2>4. QED
    BY <1>1, <1>2, <2>1, <2>3, SameDraftStep
<1>4. ASSUME NEW s \in Screens \ {"confirmation"}, Handler([nav EXCEPT !.screen = s])
      PROVE  IInv'
  <2> DEFINE n == [nav EXCEPT !.screen = s]
  <2>1. /\ n \in Drafts /\ n.slot = nav.slot /\ n.completed = nav.completed
        /\ n.busy = nav.busy /\ n.screen = s
    BY <1>1, ScreenSet
  <2>2. Handler(n)
    BY <1>4
  <2> HIDE DEF n
  <2>3. QED
    BY <1>1, <1>2, <2>1, <2>2, SameDraftStep
<1>5. ASSUME NEW n \in Drafts, n.slot = nav.slot, n.completed = nav.completed,
             n.busy = nav.busy, NEW m \in OpenSlots(n), Handler(m)
      PROVE  IInv'
  <2>1. /\ m \in Drafts /\ m.slot \in {nav.slot, None} /\ m.completed = nav.completed
        /\ m.busy = nav.busy /\ m.screen # "confirmation"
    BY <1>5, OpenSlotsKeeps
  <2>2. QED
    BY <1>1, <1>2, <1>5, <2>1, SameDraftStep
<1>6. CASE ShowDates \/ Back
  <2>1. {"dates", "phone", "main"} \subseteq Screens \ {"confirmation"}
    BY DEF Screens
  <2>2. QED
    BY <1>4, <1>6, <2>1 DEF ShowDates, Back
<1>7. CASE ShowSlots
  <2>1. "slots" \in Screens \ {"confirmation"}
    BY DEF Screens
  <2>2. CASE Handler([nav EXCEPT !.screen = "slots"])
    BY <1>4, <2>1, <2>2
  <2>3. ASSUME NEW m \in OpenSlots(nav), Handler(m) PROVE IInv'
    BY <1>1, <1>5, <2>3
  <2>4. QED
    BY <1>7, <2>2, <2>3 DEF ShowSlots
<1>8. ASSUME NEW d \in Dates, PickDate(d) PROVE IInv'
  <2> DEFINE n == [nav EXCEPT !.date = d]
  <2>1. /\ n \in Drafts /\ n.slot = nav.slot /\ n.completed = nav.completed
        /\ n.busy = nav.busy
    BY <1>1 DEF Drafts
  <2>2. PICK m \in OpenSlots(n) : Handler(m)
    BY <1>8 DEF PickDate
  <2> HIDE DEF n
  <2>3. QED
    BY <1>5, <2>1, <2>2
<1>9. QED
  BY <1>3, <1>6, <1>7, <1>8

\* A slot is chosen: what was answered before is of another choice.
LEMMA PickSlotStep ==
    ASSUME IInv, NEW s \in Slots, PickSlot(s) PROVE IInv'
<1>1. /\ nav \in Drafts /\ card \in Slots \cup {None} /\ acked' = 0
  BY DEF IInv, TypeOK, PickSlot
<1>2. PICK sc \in {nav.screen, "phone"} :
         /\ nav' = [SlotChosen(s) EXCEPT !.screen = sc]
         /\ Handler(nav') /\ Clean(nav')
         /\ \/ sc = "phone" /\ card' = card
            \/ card' = None
  <2> DEFINE n == SlotChosen(s)
  <2>1. n = [n EXCEPT !.screen = nav.screen]
    BY <1>1 DEF SlotChosen, Drafts
  <2>2. CASE Handler([n EXCEPT !.screen = "phone"]) /\ Clean(n) /\ UNCHANGED card
    <3>1. nav' = [n EXCEPT !.screen = "phone"] /\ Handler(nav')
      BY <2>2 DEF Handler
    <3>2. nav'.busy = n.busy
      BY <1>1, <3>1 DEF SlotChosen, Drafts
    <3>3. Clean(nav')
      BY <2>2, <3>2 DEF Clean
    <3>4. QED
      BY <2>2, <3>1, <3>3
  <2>3. CASE Handler(n) /\ Clean(n) /\ card' = None
    <3>1. nav' = n /\ Handler(nav') /\ Clean(nav')
      BY <2>3 DEF Handler
    <3>2. QED
      BY <2>1, <2>3, <3>1
  <2>4. QED
    BY <2>2, <2>3 DEF PickSlot
<1>3. nav' = [screen |-> sc, date |-> nav.date, slot |-> s, slots |-> nav.slots,
              phone |-> FALSE, busy |-> FALSE, completed |-> None]
  BY <1>1, <1>2 DEF SlotChosen, Drafts
<1>4. nav' \in Drafts
  BY <1>1, <1>3 DEF Drafts, Screens
<1>5. ~ nav'.busy
  BY <1>3, Zenon
<1>6. raised' \in BOOLEAN /\ (raised /\ locked => raised')
  BY <1>2, Zenon DEF Clean
<1>7. nav'.screen = "confirmation" => card' \in {nav'.slot, None}
  BY <1>2, <1>3
<1>8. confirm.pc = "idle" /\ UNCHANGED <<free, record, locked, confirm, told>>
  BY <1>2 DEF Handler
<1>9. TypeOK'
  BY <1>1, <1>2, <1>4, <1>6, <1>8 DEF IInv, TypeOK
<1>10. EveryWayOutUnlocks'
  BY <1>5, <1>6, <1>8 DEF IInv, EveryWayOutUnlocks
<1>11. SuccessIsTrue' /\ LatestCardIsBooked'
  BY <1>8 DEF IInv, SuccessIsTrue, LatestCardIsBooked
<1>12. AckedOnce' /\ CardOnScreen' /\ InHand' /\ FlagAtSuccess'
  BY <1>1, <1>7, <1>8 DEF AckedOnce, CardOnScreen, InHand, FlagAtSuccess
<1>13. QED
  BY <1>9, <1>10, <1>11, <1>12 DEF IInv

LEMMA GivePhoneStep == IInv /\ GivePhone => IInv'
<1> SUFFICES ASSUME IInv, GivePhone PROVE IInv'
  OBVIOUS
<1> DEFINE n == [nav EXCEPT !.phone = TRUE]
<1>1. nav \in Drafts /\ card \in Slots \cup {None} /\ UNCHANGED <<acked, raised>>
  BY DEF IInv, TypeOK, GivePhone
<1>2. /\ n \in Drafts /\ n.slot = nav.slot /\ n.completed = nav.completed
      /\ n.busy = nav.busy /\ n.screen = nav.screen
  BY <1>1 DEF Drafts
<1>3. \/ Handler([n EXCEPT !.screen = "dates"]) /\ UNCHANGED card
      \/ Handler(n) /\ UNCHANGED card
      \/ (\E m \in OpenSlots(n) : Handler(m)) /\ UNCHANGED card
      \/ /\ n.slot # None
         /\ Handler([n EXCEPT !.screen = "confirmation"]) /\ card' = CardSlot(n)
  BY DEF GivePhone
<1> HIDE DEF n
<1>4. {"dates", "confirmation"} \subseteq Screens
  BY DEF Screens
<1>5. CASE Handler([n EXCEPT !.screen = "dates"]) /\ UNCHANGED card
  <2> DEFINE m == [n EXCEPT !.screen = "dates"]
  <2>1. /\ m \in Drafts /\ m.slot = n.slot /\ m.completed = n.completed /\ m.busy = n.busy
        /\ m.screen = "dates"
    BY <1>2, <1>4, ScreenSet
  <2>2. Handler(m) /\ UNCHANGED card
    BY <1>5
  <2> HIDE DEF m
  <2>3. QED
    BY <1>1, <1>2, <2>1, <2>2, SameDraftStep
<1>6. CASE Handler(n) /\ UNCHANGED card
  <2>1. n.screen = "confirmation" => card' \in {n.slot, None}
    BY <1>2, <1>6 DEF IInv, CardOnScreen
  <2>2. QED
    BY <1>1, <1>2, <1>6, <2>1, SameDraftStep
<1>7. CASE (\E m \in OpenSlots(n) : Handler(m)) /\ UNCHANGED card
  <2>1. PICK m \in OpenSlots(n) : Handler(m)
    BY <1>7
  <2>2. /\ m \in Drafts /\ m.slot \in {nav.slot, None} /\ m.completed = nav.completed
        /\ m.busy = nav.busy /\ m.screen # "confirmation"
    BY <1>2, OpenSlotsKeeps
  <2>3. QED
    BY <1>1, <1>7, <2>1, <2>2, SameDraftStep
<1>8. CASE n.slot # None /\ Handler([n EXCEPT !.screen = "confirmation"]) /\ card' = CardSlot(n)
  <2> DEFINE m == [n EXCEPT !.screen = "confirmation"]
  <2>1. /\ m \in Drafts /\ m.slot = n.slot /\ m.completed = n.completed /\ m.busy = n.busy
    BY <1>2, <1>4, ScreenSet
  <2>2. Handler(m) /\ card' = n.slot
    BY <1>8 DEF CardSlot
  <2>3. n.slot \in Slots \cup {None}
    BY <1>2 DEF Drafts
  <2> HIDE DEF m
  <2>4. QED
    BY <1>1, <1>2, <2>1, <2>2, <2>3, SameDraftStep
<1>9. QED
  BY <1>3, <1>5, <1>6, <1>7, <1>8

-----------------------------------------------------------------------------
(* The confirmation *)

\* A place of the slot goes with the record: at the draft's slot, and the card's.
Record(row) == [slot |-> nav.slot, card |-> card, checked |-> confirm.checked, row |-> row]

LEMMA CreatedStep ==
    ASSUME IInv, confirm.pc = "post",
           NEW row \in {"none", "saved", "lost"}, CreatedWith(row)
    PROVE  /\ free' \in [Slots -> 0 .. Capacity]
           /\ record' \in RecordOf
           /\ LatestCardIsBooked'
           /\ record' # None /\ record'.slot = nav.slot /\ record'.row = row
<1>1. /\ free \in [Slots -> 0 .. Capacity] /\ card \in Slots \cup {None} /\ nav \in Drafts
  BY DEF IInv, TypeOK
<1>2. nav.slot \in Slots /\ card \in {nav.slot, None} /\ confirm.checked \in Slots
  BY <1>1 DEF IInv, InHand, CardOnScreen, Drafts
<1>3. /\ free[nav.slot] > 0 /\ record' = Record(row)
      /\ free' = [free EXCEPT ![nav.slot] = free[nav.slot] - 1]
  BY DEF CreatedWith, Record
<1>4. free[nav.slot] - 1 \in 0 .. Capacity
  BY <1>1, <1>2, <1>3, Numbers
<1>5. free' \in [Slots -> 0 .. Capacity]
  BY <1>1, <1>3, <1>4
<1>6. /\ record' \in RecordOf /\ record'.slot = nav.slot /\ record'.card = card
      /\ record'.row = row
  BY <1>1, <1>2, <1>3 DEF Record, RecordOf
<1>7. record' # None
  BY <1>6, BookingAssumption
<1>8. LatestCardIsBooked'
  BY <1>2, <1>6 DEF LatestCardIsBooked
<1>9. QED
  BY <1>5, <1>6, <1>7, <1>8

\* ... and the answer is lost, or names no record.
LEMMA UnknownStep ==
    ASSUME IInv, confirm.pc = "post", Created \/ NotCreated
    PROVE  /\ free' \in [Slots -> 0 .. Capacity]
           /\ record' \in RecordOf \cup {None}
           /\ LatestCardIsBooked'
<1>1. CASE Created
  BY <1>1, CreatedStep DEF Created
<1>2. CASE NotCreated
  BY <1>2 DEF NotCreated, IInv, TypeOK, LatestCardIsBooked
<1>3. QED
  BY <1>1, <1>2

\* An exit with an answer that claims nothing
LEMMA ExitStep ==
    ASSUME IInv, NEW n \in Drafts, NEW answer \in Answers \ {"booked"}, Exit(n, answer),
           n.slot \in {nav.slot, None}, n.completed = nav.completed,
           n.screen = "confirmation" => n.slot = nav.slot /\ nav.screen = "confirmation",
           free' \in [Slots -> 0 .. Capacity], record' \in RecordOf \cup {None},
           LatestCardIsBooked', UNCHANGED <<card, acked, raised>>
    PROVE  IInv'
<1>1. /\ nav' = [n EXCEPT !.busy = FALSE] /\ ~ locked' /\ locked' \in BOOLEAN
      /\ confirm' = [confirm EXCEPT !.pc = "idle"]
      /\ told' = [answer |-> answer, slot |-> None] /\ confirm \in Confirms
  BY DEF Exit, IInv, TypeOK
<1>2. nav' = [screen |-> n.screen, date |-> n.date, slot |-> n.slot, slots |-> n.slots,
              phone |-> n.phone, busy |-> FALSE, completed |-> n.completed]
  BY <1>1 DEF Drafts
<1>3. nav' \in Drafts
  BY <1>2 DEF Drafts
<1>4. ~ nav'.busy
  BY <1>2, Zenon
<1>5. confirm' \in Confirms /\ confirm'.pc = "idle"
  BY <1>1 DEF Confirms
<1>6. told' \in [answer : Answers, slot : Slots \cup {None}] /\ told'.answer # "booked"
  BY <1>1
<1>7. TypeOK'
  BY <1>1, <1>3, <1>5, <1>6 DEF IInv, TypeOK
<1>8. EveryWayOutUnlocks' /\ SuccessIsTrue'
  BY <1>1, <1>4, <1>6 DEF EveryWayOutUnlocks, SuccessIsTrue
<1>9. AckedOnce'
  BY <1>2 DEF IInv, AckedOnce
<1>10. CardOnScreen'
  BY <1>2 DEF IInv, CardOnScreen
<1>11. InHand' /\ FlagAtSuccess'
  BY <1>5 DEF InHand, FlagAtSuccess
<1>12. QED
  BY <1>7, <1>8, <1>9, <1>10, <1>11 DEF IInv

LEMMA ConfirmRefusedStep == IInv /\ ConfirmRefused => IInv'
<1> SUFFICES ASSUME IInv, ConfirmRefused PROVE IInv'
  OBVIOUS
<1>1. PICK answer \in {"busy", "nothing"} : told' = [answer |-> answer, slot |-> None]
  BY DEF ConfirmRefused
<1>2. /\ confirm.pc = "idle"
      /\ UNCHANGED <<free, record, nav, locked, card, confirm, acked, raised>>
  BY DEF ConfirmRefused
<1>3. told' \in [answer : Answers, slot : Slots \cup {None}] /\ told'.answer # "booked"
  BY <1>1 DEF Answers
<1>4. TypeOK'
  BY <1>2, <1>3 DEF IInv, TypeOK
<1>5. EveryWayOutUnlocks' /\ SuccessIsTrue' /\ LatestCardIsBooked'
  BY <1>2, <1>3 DEF IInv, EveryWayOutUnlocks, SuccessIsTrue, LatestCardIsBooked
<1>6. AckedOnce' /\ CardOnScreen' /\ InHand' /\ FlagAtSuccess'
  BY <1>2 DEF IInv, AckedOnce, CardOnScreen, InHand, FlagAtSuccess
<1>7. QED
  BY <1>4, <1>5, <1>6 DEF IInv

LEMMA ConfirmBeginStep == IInv /\ ConfirmBegin => IInv'
<1> SUFFICES ASSUME IInv, ConfirmBegin PROVE IInv'
  OBVIOUS
<1>1. /\ confirm.pc = "idle" /\ nav.screen = "confirmation" /\ nav \in Drafts
      /\ confirm \in Confirms /\ told \in [answer : Answers, slot : Slots \cup {None}]
      /\ UNCHANGED <<free, record, card, acked>>
  BY DEF ConfirmBegin, IInv, TypeOK
<1>2. ~ nav.busy /\ nav.completed = None /\ ~ locked
  BY DEF ConfirmBegin, Refused
<1>3. Silence \in [answer : Answers, slot : Slots \cup {None}] /\ Silence.answer # "booked"
  BY DEF Silence, Answers
<1>4. LatestCardIsBooked'
  BY <1>1 DEF IInv, LatestCardIsBooked
<1>5. SuccessIsTrue' \/ ~ (told' = told \/ told' = Silence)
  BY <1>1, <1>3 DEF IInv, SuccessIsTrue
<1>6. CASE nav' = [nav EXCEPT !.busy = TRUE] /\ locked' = TRUE /\ raised' = TRUE
           /\ UNCHANGED <<confirm, told>>
  <2>1. /\ nav' \in Drafts /\ nav'.slot = nav.slot /\ nav'.completed = nav.completed
        /\ nav'.screen = nav.screen
    BY <1>1, <1>6 DEF Drafts
  <2>2. TypeOK'
    BY <1>1, <1>6, <2>1 DEF IInv, TypeOK
  <2>3. EveryWayOutUnlocks' /\ InHand' /\ FlagAtSuccess'
    BY <1>1, <1>6 DEF EveryWayOutUnlocks, InHand, FlagAtSuccess
  <2>4. AckedOnce' /\ CardOnScreen'
    BY <1>1, <2>1 DEF IInv, AckedOnce, CardOnScreen
  <2>5. QED
    BY <1>4, <1>5, <1>6, <2>2, <2>3, <2>4 DEF IInv
<1>7. CASE /\ nav' = IF nav.phone THEN nav ELSE [nav EXCEPT !.screen = "phone"]
           /\ told' = Silence /\ UNCHANGED <<locked, confirm, raised>>
  <2>1. "phone" \in Screens
    BY DEF Screens
  <2>2. /\ nav' \in Drafts /\ nav'.slot = nav.slot /\ nav'.completed = nav.completed
        /\ nav'.busy = nav.busy /\ nav'.screen \in {nav.screen, "phone"}
    BY <1>1, <1>7, <2>1, ScreenSet
  <2>3. TypeOK'
    BY <1>1, <1>3, <1>7, <2>2 DEF IInv, TypeOK
  <2>4. EveryWayOutUnlocks' /\ InHand' /\ FlagAtSuccess'
    BY <1>1, <1>2, <1>7, <2>2 DEF EveryWayOutUnlocks, InHand, FlagAtSuccess
  <2>5. AckedOnce' /\ CardOnScreen'
    BY <1>1, <2>2 DEF IInv, AckedOnce, CardOnScreen
  <2>6. QED
    BY <1>4, <1>5, <1>7, <2>3, <2>4, <2>5 DEF IInv
<1>8. CASE /\ nav.slot # None /\ nav' = [nav EXCEPT !.busy = TRUE] /\ locked' = TRUE
           /\ confirm' = [pc |-> "recheck", checked |-> None, attempt |-> 0]
           /\ told' = Silence /\ UNCHANGED raised
  <2>1. /\ nav' \in Drafts /\ nav'.slot = nav.slot /\ nav'.completed = nav.completed
        /\ nav'.screen = nav.screen
    BY <1>1, <1>8 DEF Drafts
  <2>2. confirm' \in Confirms /\ confirm'.pc = "recheck"
    BY <1>8, Numbers DEF Confirms
  <2>3. TypeOK'
    BY <1>1, <1>3, <1>8, <2>1, <2>2 DEF IInv, TypeOK
  <2>4. EveryWayOutUnlocks' /\ FlagAtSuccess'
    BY <2>2 DEF EveryWayOutUnlocks, FlagAtSuccess
  <2>5. InHand'
    BY <1>1, <1>2, <1>8, <2>1, <2>2 DEF InHand
  <2>6. AckedOnce' /\ CardOnScreen'
    BY <1>1, <2>1 DEF IInv, AckedOnce, CardOnScreen
  <2>7. QED
    BY <1>4, <1>5, <1>8, <2>3, <2>4, <2>5, <2>6 DEF IInv
<1>9. QED
  BY <1>6, <1>7, <1>8 DEF ConfirmBegin

LEMMA RecheckStep == IInv /\ Recheck => IInv'
<1> SUFFICES ASSUME IInv, Recheck PROVE IInv'
  OBVIOUS
<1>1. /\ confirm.pc = "recheck" /\ nav \in Drafts /\ confirm \in Confirms
      /\ UNCHANGED <<free, record, card, acked, raised>>
  BY DEF Recheck, IInv, TypeOK
<1>2. nav.screen = "confirmation" /\ nav.slot # None /\ nav.completed = None /\ told = Silence
  BY <1>1 DEF IInv, InHand
<1>3. /\ free' \in [Slots -> 0 .. Capacity] /\ record' \in RecordOf \cup {None}
      /\ LatestCardIsBooked'
  BY <1>1 DEF IInv, TypeOK, LatestCardIsBooked
<1>4. CASE Exit(nav, "unavailable")
  <2>1. "unavailable" \in Answers \ {"booked"}
    BY DEF Answers
  <2>2. QED
    BY <1>1, <1>2, <1>3, <1>4, <2>1, ExitStep
<1>5. ASSUME NEW n \in OpenSlots(nav), RecheckExit(n, "taken") PROVE IInv'
  <2>1. "taken" \in Answers \ {"booked"}
    BY DEF Answers
  <2>2. /\ n \in Drafts /\ n.slot \in {nav.slot, None} /\ n.completed = nav.completed
        /\ n.screen # "confirmation"
    BY <1>1, OpenSlotsKeeps
  <2>3. QED
    BY <1>1, <1>3, <1>5, <2>1, <2>2, ExitStep DEF RecheckExit
<1>6. CASE /\ Asked \in Available(nav.date)
           /\ confirm' = [confirm EXCEPT !.pc = "post", !.checked = Asked, !.attempt = 1]
           /\ UNCHANGED <<nav, locked, told>>
  <2>1. Asked \in Slots
    BY <1>6 DEF Available
  <2>2. confirm' = [pc |-> "post", checked |-> Asked, attempt |-> 1]
    BY <1>1, <1>6 DEF Confirms
  <2>3. confirm' \in Confirms /\ confirm'.pc = "post" /\ confirm'.checked \in Slots
    BY <2>1, <2>2, Numbers DEF Confirms
  <2>4. TypeOK'
    BY <1>1, <1>6, <2>3 DEF IInv, TypeOK
  <2>5. EveryWayOutUnlocks' /\ FlagAtSuccess'
    BY <2>3 DEF EveryWayOutUnlocks, FlagAtSuccess
  <2>6. InHand'
    BY <1>2, <1>6, <2>3 DEF InHand
  <2>7. SuccessIsTrue' /\ AckedOnce' /\ CardOnScreen'
    BY <1>1, <1>6 DEF IInv, SuccessIsTrue, AckedOnce, CardOnScreen
  <2>8. QED
    BY <1>3, <2>4, <2>5, <2>6, <2>7 DEF IInv
<1>7. QED
  BY <1>4, <1>5, <1>6 DEF Recheck

LEMMA PostLostStep == IInv /\ PostLost => IInv'
<1> SUFFICES ASSUME IInv, PostLost PROVE IInv'
  OBVIOUS
<1>1. /\ confirm.pc = "post" /\ confirm \in Confirms /\ confirm.attempt < Attempts
      /\ confirm' = [confirm EXCEPT !.attempt = confirm.attempt + 1]
      /\ Created \/ NotCreated
      /\ UNCHANGED <<nav, locked, card, told, acked, raised>>
  BY DEF PostLost, MayRetry, NextAttempt, IInv, TypeOK
<1>2. told = Silence
  BY <1>1 DEF IInv, InHand
<1>3. /\ free' \in [Slots -> 0 .. Capacity] /\ record' \in RecordOf \cup {None}
      /\ LatestCardIsBooked'
  BY <1>1, UnknownStep
<1>4. confirm.attempt + 1 \in 0 .. Attempts
  BY <1>1, Numbers DEF Confirms
<1>5. confirm' = [pc |-> "post", checked |-> confirm.checked, attempt |-> confirm.attempt + 1]
  BY <1>1 DEF Confirms
<1>6. confirm' \in Confirms /\ confirm'.pc = "post" /\ confirm'.checked = confirm.checked
  BY <1>1, <1>4, <1>5 DEF Confirms
<1>7. TypeOK'
  BY <1>1, <1>3, <1>6 DEF IInv, TypeOK
<1>8. EveryWayOutUnlocks' /\ FlagAtSuccess'
  BY <1>6 DEF EveryWayOutUnlocks, FlagAtSuccess
<1>9. InHand'
  BY <1>1, <1>6 DEF IInv, InHand
<1>10. SuccessIsTrue' /\ AckedOnce' /\ CardOnScreen'
  BY <1>1, <1>2 DEF IInv, SuccessIsTrue, Silence, AckedOnce, CardOnScreen
<1>11. QED
  BY <1>3, <1>7, <1>8, <1>9, <1>10 DEF IInv

LEMMA PostRefusedStep == IInv /\ PostRefused => IInv'
<1> SUFFICES ASSUME IInv, PostRefused PROVE IInv'
  OBVIOUS
<1>1. confirm.pc = "post"
  BY DEF PostRefused
<1>2. nav \in Drafts
  BY DEF IInv, TypeOK
<1>3. nav.screen = "confirmation"
  BY <1>1 DEF IInv, InHand
<1>4. Created \/ NotCreated
  BY DEF PostRefused
<1>5. /\ free' \in [Slots -> 0 .. Capacity] /\ record' \in RecordOf \cup {None}
      /\ LatestCardIsBooked'
  BY <1>1, <1>4, UnknownStep
<1>6. UNCHANGED <<card, acked, raised>>
  BY DEF PostRefused
<1>7. {"unavailable", "not_created"} \subseteq Answers \ {"booked"}
  BY DEF Answers
<1>8. PICK answer \in {"unavailable", "not_created"} : Exit(nav, answer)
  BY Zenon DEF PostRefused
<1>9. answer \in Answers \ {"booked"}
  BY <1>7
<1>10. QED
  BY <1>2, <1>3, <1>5, <1>6, <1>8, <1>9, ExitStep

LEMMA PostAnsweredStep == IInv /\ PostAnswered => IInv'
<1> SUFFICES ASSUME IInv, PostAnswered PROVE IInv'
  OBVIOUS
<1>1. /\ confirm.pc = "post" /\ nav \in Drafts /\ confirm \in Confirms /\ acked \in Nat
      /\ acked' = acked + 1 /\ UNCHANGED <<locked, card, told>>
  BY DEF PostAnswered, IInv, TypeOK
<1>2. /\ nav.screen = "confirmation" /\ nav.slot \in Slots /\ nav.completed = None
      /\ nav.slot # None /\ acked = 0 /\ told = Silence
  BY <1>1 DEF IInv, InHand, AckedOnce, Drafts
<1>3. PICK sc \in {"confirmation", "success"}, pc \in {"idle", "success"},
           row \in {"none", "saved", "lost"} :
         /\ nav' = [Completed EXCEPT !.screen = sc]
         /\ confirm' = [confirm EXCEPT !.pc = pc]
         /\ CreatedWith(row)
         /\ \/ pc = "idle" /\ raised' = TRUE
            \/ pc = "success" /\ row # "none" /\ raised' = raised
  <2>1. Completed = [Completed EXCEPT !.screen = "confirmation"]
    BY <1>1, <1>2 DEF Completed, Drafts
  <2>2. Attributed \subseteq {"saved", "lost"}
    BY DEF Attributed
  <2>3. QED
    BY <2>1, <2>2 DEF PostAnswered
<1>4. /\ free' \in [Slots -> 0 .. Capacity] /\ record' \in RecordOf \cup {None}
      /\ LatestCardIsBooked' /\ record' # None /\ record'.slot = nav.slot
      /\ record'.row = row
  BY <1>1, <1>3, CreatedStep
<1>5. nav' = [screen |-> sc, date |-> nav.date, slot |-> nav.slot, slots |-> nav.slots,
              phone |-> nav.phone, busy |-> FALSE, completed |-> nav.slot]
  BY <1>1, <1>3 DEF Completed, Drafts
<1>6. nav' \in Drafts
  BY <1>1, <1>2, <1>5 DEF Drafts, Screens
<1>7. ~ nav'.busy
  BY <1>5, Zenon
<1>8. confirm' \in Confirms /\ confirm'.pc = pc
  BY <1>1, <1>3 DEF Confirms
<1>9. pc = "success" => record'.row # "none"
  BY <1>3, <1>4
<1>10. raised' \in BOOLEAN
  <2>1. raised \in BOOLEAN /\ (raised' = TRUE \/ raised' = raised)
    BY <1>3 DEF IInv, TypeOK
  <2>2. QED
    BY <2>1, Zenon
<1>11. TypeOK'
  BY <1>1, <1>4, <1>6, <1>8, <1>10 DEF IInv, TypeOK
<1>12. EveryWayOutUnlocks'
  BY <1>3, <1>8 DEF EveryWayOutUnlocks
<1>13. SuccessIsTrue'
  BY <1>1, <1>2 DEF SuccessIsTrue, Silence
<1>14. AckedOnce' /\ CardOnScreen'
  BY <1>1, <1>2, <1>5 DEF IInv, AckedOnce, CardOnScreen
<1>15. InHand'
  BY <1>1, <1>2, <1>4, <1>5, <1>8, <1>9 DEF InHand
<1>16. FlagAtSuccess'
  BY <1>7 DEF FlagAtSuccess
<1>17. QED
  BY <1>4, <1>11, <1>12, <1>13, <1>14, <1>15, <1>16 DEF IInv

LEMMA SuccessStep == IInv /\ Success => IInv'
<1> SUFFICES ASSUME IInv, Success PROVE IInv'
  OBVIOUS
<1>1. /\ confirm.pc = "success" /\ nav \in Drafts /\ confirm \in Confirms
      /\ locked' = FALSE /\ confirm' = [confirm EXCEPT !.pc = "idle"]
      /\ told' = [answer |-> "booked", slot |-> nav.slot]
      /\ UNCHANGED <<free, record, nav, card, acked, raised>>
  BY DEF Success, IInv, TypeOK
<1>2. /\ record # None /\ record.slot = nav.slot /\ record.row # "none" /\ ~ nav.busy
  BY <1>1 DEF IInv, InHand, FlagAtSuccess
<1>3. confirm' \in Confirms /\ confirm'.pc = "idle"
  BY <1>1 DEF Confirms
<1>4. told' \in [answer : Answers, slot : Slots \cup {None}]
  BY <1>1 DEF Answers, Drafts
<1>5. TypeOK'
  BY <1>1, <1>3, <1>4 DEF IInv, TypeOK
<1>6. EveryWayOutUnlocks' /\ SuccessIsTrue' /\ LatestCardIsBooked'
  BY <1>1, <1>2 DEF IInv, EveryWayOutUnlocks, SuccessIsTrue, LatestCardIsBooked
<1>7. AckedOnce' /\ CardOnScreen' /\ InHand' /\ FlagAtSuccess'
  BY <1>1, <1>3 DEF IInv, AckedOnce, CardOnScreen, InHand, FlagAtSuccess
<1>8. QED
  BY <1>5, <1>6, <1>7 DEF IInv

-----------------------------------------------------------------------------
(* The surroundings *)

LEMMA LockExpiresStep == IInv /\ LockExpires => IInv'
<1> SUFFICES ASSUME IInv, LockExpires PROVE IInv'
  OBVIOUS
<1>1. /\ confirm.pc = "idle" /\ ~ locked' /\ locked' \in BOOLEAN /\ raised' = nav.busy
      /\ nav \in Drafts
      /\ UNCHANGED <<free, record, nav, card, confirm, told, acked>>
  BY DEF LockExpires, IInv, TypeOK
<1>2. raised' \in BOOLEAN
  BY <1>1 DEF Drafts
<1>3. TypeOK'
  BY <1>1, <1>2 DEF IInv, TypeOK
<1>4. EveryWayOutUnlocks'
  BY <1>1 DEF EveryWayOutUnlocks
<1>5. SuccessIsTrue' /\ LatestCardIsBooked'
  BY <1>1 DEF IInv, SuccessIsTrue, LatestCardIsBooked
<1>6. AckedOnce' /\ CardOnScreen' /\ InHand' /\ FlagAtSuccess'
  BY <1>1 DEF IInv, AckedOnce, CardOnScreen, InHand, FlagAtSuccess
<1>7. QED
  BY <1>3, <1>4, <1>5, <1>6 DEF IInv

LEMMA RestartStep == IInv /\ Restart => IInv'
<1> SUFFICES ASSUME IInv, Restart PROVE IInv'
  OBVIOUS
<1>1. /\ nav' = NoDraft /\ ~ locked' /\ locked' \in BOOLEAN /\ raised' \in BOOLEAN
      /\ confirm' = Idle /\ told' = Silence
      /\ UNCHANGED <<free, record, card, acked>>
  BY DEF Restart
<1>2. Idle \in Confirms /\ Idle.pc = "idle"
  BY Numbers DEF Idle, Confirms
<1>3. Silence \in [answer : Answers, slot : Slots \cup {None}] /\ Silence.answer # "booked"
  BY DEF Silence, Answers
<1>4. TypeOK'
  BY <1>1, <1>2, <1>3, NoDraftIsDraft DEF IInv, TypeOK
<1>5. EveryWayOutUnlocks' /\ SuccessIsTrue' /\ LatestCardIsBooked'
  BY <1>1, <1>3, NoDraftIsDraft DEF IInv, EveryWayOutUnlocks, SuccessIsTrue,
     LatestCardIsBooked
<1>6. AckedOnce' /\ CardOnScreen' /\ InHand' /\ FlagAtSuccess'
  BY <1>1, <1>2, NoDraftIsDraft DEF IInv, AckedOnce, CardOnScreen, InHand, FlagAtSuccess
<1>7. QED
  BY <1>4, <1>5, <1>6 DEF IInv

LEMMA PlacesStep ==
    ASSUME IInv, free' \in [Slots -> 0 .. Capacity],
           UNCHANGED <<record, nav, locked, card, confirm, told, acked, raised>>
    PROVE  IInv'
<1>1. TypeOK'
  BY DEF IInv, TypeOK
<1>2. EveryWayOutUnlocks' /\ SuccessIsTrue' /\ LatestCardIsBooked'
  BY DEF IInv, EveryWayOutUnlocks, SuccessIsTrue, LatestCardIsBooked
<1>3. AckedOnce' /\ CardOnScreen' /\ InHand' /\ FlagAtSuccess'
  BY DEF IInv, AckedOnce, CardOnScreen, InHand, FlagAtSuccess
<1>4. QED
  BY <1>1, <1>2, <1>3 DEF IInv

LEMMA OthersStep ==
    ASSUME IInv, NEW s \in Slots, Taken(s) \/ Freed(s) PROVE IInv'
<1>1. PICK k \in {free[s] - 1, free[s] + 1} : k \in 0 .. Capacity /\ free' = [free EXCEPT ![s] = k]
  <2>1. free[s] \in 0 .. Capacity
    BY DEF IInv, TypeOK
  <2>2. CASE Taken(s)
    BY <2>1, <2>2, Numbers DEF Taken
  <2>3. CASE Freed(s)
    BY <2>1, <2>3, Numbers DEF Freed
  <2>4. QED
    BY <2>2, <2>3
<1>2. free' \in [Slots -> 0 .. Capacity]
  BY <1>1 DEF IInv, TypeOK
<1>3. UNCHANGED <<record, nav, locked, card, confirm, told, acked, raised>>
  BY DEF Taken, Freed
<1>4. QED
  BY <1>2, <1>3, PlacesStep

-----------------------------------------------------------------------------
(* The theorems *)

LEMMA NextIInv == IInv /\ [Next]_vars => IInv'
<1> SUFFICES ASSUME IInv, [Next]_vars PROVE IInv'
  OBVIOUS
<1>1. CASE Leave \/ Start
  BY <1>1, LeaveStart
<1>2. CASE PickMaster \/ ShowDates \/ ShowSlots \/ Back \/ \E d \in Dates : PickDate(d)
  BY <1>2, ListStep
<1>3. CASE GivePhone
  BY <1>3, GivePhoneStep
<1>4. CASE \E s \in Slots : PickSlot(s) \/ Taken(s) \/ Freed(s)
  BY <1>4, PickSlotStep, OthersStep
<1>5. CASE ConfirmRefused \/ ConfirmBegin
  BY <1>5, ConfirmRefusedStep, ConfirmBeginStep
<1>6. CASE Confirming
  BY <1>6, RecheckStep, PostLostStep, PostRefusedStep, PostAnsweredStep, SuccessStep
     DEF Confirming
<1>7. CASE LockExpires \/ Restart
  BY <1>7, LockExpiresStep, RestartStep
<1>8. CASE UNCHANGED vars
  <2>1. free' \in [Slots -> 0 .. Capacity]
    BY <1>8 DEF IInv, TypeOK, vars
  <2>2. QED
    BY <1>8, <2>1, PlacesStep DEF vars
<1>9. QED
  BY <1>1, <1>2, <1>3, <1>4, <1>5, <1>6, <1>7, <1>8 DEF Next

\* The strengthened invariant holds of every reachable state.
THEOREM Invariance == Spec => []IInv
  BY InitIInv, NextIInv, PTL DEF Spec

\* The state keeps its shape, for any dates, times, places and attempts.
THEOREM TypeCorrect == Spec => []TypeOK
<1>1. IInv => TypeOK
  BY DEF IInv
<1>2. QED
  BY <1>1, Invariance, PTL

\* What is booked is what the latest confirmation card shows, whichever card's
\* button was used.
THEOREM LatestCardIsBookedAlways == Spec => []LatestCardIsBooked
<1>1. IInv => LatestCardIsBooked
  BY DEF IInv
<1>2. QED
  BY <1>1, Invariance, PTL

\* One choice of a slot yields at most one record the bot knows of.
THEOREM OneKnownRecordAlways == Spec => []OneKnownRecordPerChoice
<1>1. IInv => OneKnownRecordPerChoice
  BY DEF IInv, AckedOnce, OneKnownRecordPerChoice
<1>2. QED
  BY <1>1, Invariance, PTL

\* Every way out of a confirmation but an exception gives back flag and lock.
THEOREM EveryWayOutUnlocksAlways == Spec => []EveryWayOutUnlocks
<1>1. IInv => EveryWayOutUnlocks
  BY DEF IInv
<1>2. QED
  BY <1>1, Invariance, PTL

\* The success message names the record made, after its row was saved or refused by
\* the database.
THEOREM SuccessIsTrueAlways == Spec => []SuccessIsTrue
<1>1. IInv => SuccessIsTrue
  BY DEF IInv
<1>2. QED
  BY <1>1, Invariance, PTL

-----------------------------------------------------------------------------
(* Part 2: YClientsClient *)

Calling(t) == task[t].pc # "idle"

\* The attempts of a request are counted from one, and a backoff comes before
\* the last.
Counted ==
    \A t \in Tasks : /\ Calling(t) => task[t].attempt >= 1
                     /\ task[t].pc = "backoff" => task[t].attempt < RequestAttempts

Sorted == \A i, j \in DOMAIN failures : i < j => failures[i] >= failures[j]

\* Attempts which the requests under way may still lose, and the most there may be.
Chances ==
    {c \in Tasks \X (1 .. RequestAttempts) :
        \/ task[c[1]].pc = "waiting" /\ c[2] >= task[c[1]].attempt
        \/ task[c[1]].pc = "backoff" /\ c[2] > task[c[1]].attempt}

Crowd == Cardinality(Tasks) * RequestAttempts

\* Requests under way add to the window while the cooldown keeps others off.
Coming == IF cooldown > 0 THEN Cardinality(Chances) ELSE 0

\* The failures since one that is in the window: less than a threshold, and a
\* crowd for every cooldown since; so are those to come before the next cooldown.
Paced ==
    \A i \in DOMAIN failures : \A m \in Nat :
        failures[i] <= Window /\ failures[i] + cooldown <= m * Cooldown =>
            Len(failures) - i + 1 + Coming < Threshold + m * Crowd

Bounded ==
    \A m \in Nat : Window + Cooldown <= m * Cooldown => Len(failures) < Threshold + m * Crowd

\* The window holds no failure from before the last success.
SinceSuccess == since < Threshold => Len(failures) <= since

ClientIInv == ClientTypeOK /\ Counted /\ Sorted /\ Paced /\ Bounded /\ SinceSuccess

LEMMA ClientNumbers ==
    /\ RequestAttempts \in Nat /\ RequestAttempts >= 1
    /\ Threshold \in Nat /\ Threshold >= 1
    /\ Window \in Nat /\ Window >= 1 /\ Cooldown \in Nat /\ Cooldown >= 1
    /\ IsFiniteSet(Tasks) /\ Cardinality(Tasks) \in Nat
    /\ \A time \in Limits : time \in Nat
  BY YClientsAssumption, FS_CardinalityType

\* Arithmetic
LEMMA MoreTimes ==
    ASSUME NEW n \in Nat, NEW m \in Nat
    PROVE  /\ m * n \in Nat
           /\ m >= 1 => m * n = (m - 1) * n + n /\ m * n >= n /\ m - 1 \in Nat
  OBVIOUS

LEMMA OneCooldownLess ==
    ASSUME NEW c \in Nat, c >= 1, NEW m \in Nat, NEW x \in Nat, x + c <= m * c
    PROVE  m >= 1 /\ m - 1 \in Nat /\ x <= (m - 1) * c
<1>1. CASE m = 0
  BY <1>1
<1>2. CASE m >= 1
  BY <1>2, MoreTimes
<1>3. QED
  BY <1>1, <1>2

LEMMA RoundedUp ==
    ASSUME NEW w \in Nat, NEW c \in Nat, c >= 1
    PROVE  /\ (w + c - 1) \div c \in Nat
           /\ w + c <= ((w + c - 1) \div c + 1) * c
  OBVIOUS

\* A set of numbers that holds with each number the smaller ones is an interval.
LEMMA LeadingPart ==
    ASSUME NEW len \in Nat, NEW S \in SUBSET (1 .. len),
           \A i \in S : \A j \in 1 .. i : j \in S
    PROVE  Cardinality(S) \in 0 .. len /\ S = 1 .. Cardinality(S)
<1>1. IsFiniteSet(1 .. len) /\ Cardinality(1 .. len) = len
  BY FS_Interval
<1>2. IsFiniteSet(S) /\ Cardinality(S) <= len
  BY <1>1, FS_Subset
<1>3. Cardinality(S) \in 0 .. len
  BY <1>2, FS_CardinalityType
<1>4. PICK n \in Nat : n = Cardinality(S)
  BY <1>3
<1>5. IsFiniteSet(1 .. n) /\ Cardinality(1 .. n) = n
  BY FS_Interval
<1>6. S \subseteq 1 .. n
  <2> SUFFICES ASSUME NEW i \in S, i > n PROVE FALSE
    OBVIOUS
  <2>1. 1 .. i \subseteq S
    OBVIOUS
  <2>2. Cardinality(1 .. i) = i
    BY FS_Interval
  <2>3. Cardinality(1 .. i) <= Cardinality(S)
    BY <1>2, <2>1, FS_Subset
  <2>4. QED
    BY <1>4, <2>2, <2>3
<1>7. S = 1 .. n
  BY <1>4, <1>5, <1>6, FS_Subset
<1>8. QED
  BY <1>3, <1>4, <1>7

\* Trimming drops a part from the left which leaves nothing old in a window in
\* order whose last failure is not old.
LEMMA KeptFacts ==
    ASSUME NEW s \in Seq(Ages), Len(s) >= 1, s[Len(s)] <= Window,
           \A i, j \in DOMAIN s : i < j => s[i] >= s[j]
    PROVE  \E n \in Nat :
              /\ n < Len(s) /\ Kept(s) \in Seq(Ages) /\ Len(Kept(s)) = Len(s) - n
              /\ \A i \in 1 .. Len(s) - n : Kept(s)[i] = s[i + n] /\ s[i + n] <= Window
<1> DEFINE old == {i \in DOMAIN s : \A j \in 1 .. i : s[j] > Window}
<1>1. Len(s) \in Nat /\ DOMAIN s = 1 .. Len(s) /\ \A i \in 1 .. Len(s) : s[i] \in Nat
  BY ClientNumbers DEF Ages
<1>2. old \in SUBSET (1 .. Len(s)) /\ \A i \in old : \A j \in 1 .. i : j \in old
  BY <1>1
<1>3. Cardinality(old) \in 0 .. Len(s) /\ old = 1 .. Cardinality(old)
  BY <1>1, <1>2, LeadingPart
<1>4. PICK n \in Nat : n <= Len(s) /\ n = Cardinality(old) /\ old = 1 .. n
  <2> HIDE DEF old
  <2>1. Cardinality(old) \in Nat /\ Cardinality(old) <= Len(s)
    BY <1>1, <1>3
  <2>2. QED
    BY <1>3, <2>1
<1>5. n < Len(s)
  <2>1. Len(s) \notin old
    BY <1>1, ClientNumbers
  <2>2. QED
    BY <1>1, <1>4, <2>1
<1>6. s[n + 1] <= Window
  <2>1. n + 1 \in 1 .. Len(s) /\ n + 1 \notin 1 .. n
    BY <1>1, <1>4, <1>5
  <2>2. \A j \in 1 .. n : s[j] > Window
    <3>1. \A j \in 1 .. n : j \in old
      BY <1>4
    <3>2. \A j \in old : j \in 1 .. j /\ s[j] > Window
      BY <1>1
    <3>3. QED
      BY <3>1, <3>2
  <2>3. PICK j \in 1 .. n + 1 : ~ (s[j] > Window)
    BY <1>1, <1>4, <2>1
  <2>4. j = n + 1 \/ j \in 1 .. n
    BY <1>4
  <2>5. ~ (s[n + 1] > Window)
    BY <2>2, <2>3, <2>4
  <2>6. QED
    BY <1>1, <2>1, <2>5, ClientNumbers
<1>7. ASSUME NEW i \in 1 .. Len(s) - n PROVE s[i + n] <= Window
  <2>1. i + n \in 1 .. Len(s) /\ n + 1 \in 1 .. Len(s) /\ (i + n = n + 1 \/ n + 1 < i + n)
    BY <1>1, <1>4, <1>5
  <2>2. s[n + 1] >= s[i + n]
    BY <1>1, <2>1
  <2>3. QED
    BY <1>1, <1>6, <2>1, <2>2, ClientNumbers
<1>8. Kept(s) = SubSeq(s, n + 1, Len(s))
  BY <1>4 DEF Kept
<1>9. /\ SubSeq(s, n + 1, Len(s)) \in Seq(Ages)
      /\ Len(SubSeq(s, n + 1, Len(s))) = Len(s) - n
      /\ \A i \in 1 .. Len(s) - n : SubSeq(s, n + 1, Len(s))[i] = s[i + n]
  <2>1. Len(s) - n \in Nat /\ 1 + Len(s) - (n + 1) = Len(s) - n /\ n + 1 \in Nat /\ n + 1 <= Len(s)
    BY <1>1, <1>4, <1>5
  <2>2. \A i \in 1 .. Len(s) - n : i + (n + 1) - 1 = i + n /\ i + n \in 1 .. Len(s)
    BY <1>1, <1>4
  <2>3. SubSeq(s, n + 1, Len(s)) = [i \in 1 .. Len(s) - n |-> s[i + n]]
    BY <1>1, <2>1, <2>2
  <2>4. QED
    BY <1>1, <2>1, <2>2, <2>3
<1>10. QED
  BY <1>1, <1>4, <1>5, <1>7, <1>8, <1>9

\* A failure enters at the right end of the window, and old ones leave it.
LEMMA RecordFacts ==
    ASSUME ClientTypeOK, Sorted, RecordFailure
    PROVE  /\ failures' \in Seq(Ages) /\ cooldown' \in 0 .. Cooldown /\ since' \in 0 .. Threshold
           /\ \E n \in Nat :
                 /\ n <= Len(failures) /\ Len(failures') = Len(failures) + 1 - n
                 /\ \A i \in 1 .. Len(failures') :
                       /\ failures'[i] <= Window
                       /\ failures'[i] = IF i = Len(failures') THEN 0 ELSE failures[i + n]
           /\ cooldown' = IF Len(failures') >= Threshold /\ cooldown = 0 THEN Cooldown ELSE cooldown
           /\ since' = IF since < Threshold THEN since + 1 ELSE since
<1> DEFINE s == Append(failures, 0)
<1>1. failures \in Seq(Ages) /\ 0 \in Ages /\ Len(failures) \in Nat
  BY ClientNumbers DEF ClientTypeOK, Ages
<1>2. /\ s \in Seq(Ages) /\ Len(s) = Len(failures) + 1 /\ s[Len(s)] = 0
      /\ \A i \in 1 .. Len(failures) : s[i] = failures[i]
  BY <1>1
<1>3. \A i \in 1 .. Len(failures) : failures[i] \in Nat
  BY <1>1, ClientNumbers DEF Ages
<1>4. \A i, j \in DOMAIN s : i < j => s[i] >= s[j]
  <2> SUFFICES ASSUME NEW i \in 1 .. Len(failures) + 1, NEW j \in 1 .. Len(failures) + 1, i < j
               PROVE  s[i] >= s[j]
    BY <1>2
  <2>1. i \in 1 .. Len(failures)
    BY <1>1
  <2>2. CASE j = Len(failures) + 1
    BY <1>2, <1>3, <2>1, <2>2
  <2>3. CASE j \in 1 .. Len(failures)
    BY <1>2, <2>1, <2>3 DEF Sorted
  <2>4. QED
    BY <1>1, <2>2, <2>3
<1>5. PICK n \in Nat :
          /\ n < Len(s) /\ Kept(s) \in Seq(Ages) /\ Len(Kept(s)) = Len(s) - n
          /\ \A i \in 1 .. Len(s) - n : Kept(s)[i] = s[i + n] /\ s[i + n] <= Window
  <2>1. Len(s) >= 1 /\ s[Len(s)] <= Window
    BY <1>1, <1>2, ClientNumbers
  <2>2. QED
    BY <1>2, <1>4, <2>1, KeptFacts
<1>6. failures' = Kept(s)
  BY DEF RecordFailure
<1>7. n <= Len(failures) /\ Len(failures') = Len(failures) + 1 - n /\ failures' \in Seq(Ages)
  BY <1>1, <1>2, <1>5, <1>6
<1>8. ASSUME NEW i \in 1 .. Len(failures')
      PROVE  /\ failures'[i] <= Window
             /\ failures'[i] = IF i = Len(failures') THEN 0 ELSE failures[i + n]
  <2>1. i \in 1 .. Len(s) - n /\ failures'[i] = s[i + n] /\ s[i + n] <= Window
    BY <1>2, <1>5, <1>6, <1>7
  <2>2. CASE i = Len(failures')
    BY <1>1, <1>2, <1>7, <2>1, <2>2
  <2>3. CASE i # Len(failures')
    <3>1. i + n \in 1 .. Len(failures)
      BY <1>1, <1>7, <2>3
    <3>2. QED
      BY <1>2, <2>1, <2>3, <3>1
  <2>4. QED
    BY <2>1, <2>2, <2>3
<1>9. cooldown' = IF Len(failures') >= Threshold /\ cooldown = 0 THEN Cooldown ELSE cooldown
  BY DEF RecordFailure, Opens
<1>10. since' = IF since < Threshold THEN since + 1 ELSE since
  BY DEF RecordFailure
<1>11. cooldown' \in 0 .. Cooldown
  BY <1>9, ClientNumbers DEF ClientTypeOK
<1>12. since' \in 0 .. Threshold
  BY <1>10, ClientNumbers DEF ClientTypeOK
<1>13. QED
  BY <1>7, <1>8, <1>9, <1>10, <1>11, <1>12

\* The chances are no more than the crowd.
LEMMA ChancesCounted ==
    /\ IsFiniteSet(Chances) /\ Cardinality(Chances) \in Nat /\ Crowd \in Nat
    /\ Cardinality(Chances) <= Crowd
<1>1. IsFiniteSet(1 .. RequestAttempts) /\ Cardinality(1 .. RequestAttempts) = RequestAttempts
  BY ClientNumbers, FS_Interval
<1>2. /\ IsFiniteSet(Tasks \X (1 .. RequestAttempts))
      /\ Cardinality(Tasks \X (1 .. RequestAttempts)) = Crowd
  BY <1>1, ClientNumbers, FS_Product DEF Crowd
<1>3. Chances \in SUBSET (Tasks \X (1 .. RequestAttempts))
  BY DEF Chances
<1>4. IsFiniteSet(Chances) /\ Cardinality(Chances) <= Crowd
  BY <1>2, <1>3, FS_Subset
<1>5. Cardinality(Chances) \in Nat /\ Crowd \in Nat
  BY <1>2, <1>4, FS_CardinalityType
<1>6. QED
  BY <1>4, <1>5

\* The steps that lose an attempt, and those that lose none.
Loses(t) == Failed(t) \/ Fails(t) \/ \E time \in Limits : Limited(t, time)
Spares(t) == Answered(t) \/ Rejected(t) \/ Retry(t) \/ Cancelled(t)

LEMMA TaskTypes ==
    ASSUME ClientTypeOK, NEW t \in Tasks
    PROVE  /\ task[t] \in [pc : {"idle", "waiting", "backoff"},
                           endpoint : Endpoints \cup {"none"}, attempt : 0 .. RequestAttempts]
           /\ task[t].attempt \in Nat /\ task[t].attempt <= RequestAttempts
<1>1. task[t] \in [pc : {"idle", "waiting", "backoff"},
                   endpoint : Endpoints \cup {"none"}, attempt : 0 .. RequestAttempts]
  BY DEF ClientTypeOK
<1>2. task[t].attempt \in 0 .. RequestAttempts
  BY <1>1
<1>3. QED
  BY <1>1, <1>2, ClientNumbers

\* A request that ends, fails or is tried again has as many chances as before,
\* less the attempt it has lost.
LEMMA ChancesStep ==
    ASSUME ClientTypeOK, Counted, NEW t \in Tasks
    PROVE  /\ Spares(t) => Chances' \subseteq Chances
           /\ Loses(t) => /\ <<t, task[t].attempt>> \in Chances
                          /\ Chances' \subseteq Chances \ {<<t, task[t].attempt>>}
<1>1. /\ task[t].attempt \in Nat /\ task[t].attempt <= RequestAttempts
      /\ task[t].pc # "idle" => task[t].attempt >= 1
      /\ task[t].pc = "backoff" => task[t].attempt < RequestAttempts
  BY TaskTypes DEF Counted, Calling
<1>2. ASSUME Ended(t)
      PROVE  /\ \A u \in Tasks : u # t => task'[u] = task[u]
             /\ task'[t].pc = "idle"
  BY <1>2 DEF Ended, ClientTypeOK, NoRequest
<1>3. ASSUME \A u \in Tasks : u # t => task'[u] = task[u], task'[t].pc = "idle"
      PROVE  Chances' \subseteq {c \in Chances : c[1] # t}
  BY <1>3 DEF Chances
<1>4. ASSUME Retry(t) PROVE Chances' \subseteq Chances
  <2>1. /\ \A u \in Tasks : u # t => task'[u] = task[u]
        /\ task[t].pc = "backoff" /\ task'[t].pc = "waiting"
        /\ task'[t].attempt = task[t].attempt + 1
    BY <1>4, TaskTypes DEF Retry, Attempt, ClientTypeOK
  <2> SUFFICES ASSUME NEW c \in Chances' PROVE c \in Chances
    OBVIOUS
  <2>2. CASE c[1] # t
    BY <2>1, <2>2 DEF Chances
  <2>3. CASE c[1] = t
    <3>1. c \in Tasks \X (1 .. RequestAttempts) /\ c[2] >= task[t].attempt + 1
      BY <2>1, <2>3 DEF Chances
    <3>2. c[2] > task[t].attempt
      BY <1>1, <3>1, ClientNumbers
    <3>3. QED
      BY <2>1, <2>3, <3>1, <3>2 DEF Chances
  <2>4. QED
    BY <2>2, <2>3
<1>5. ASSUME Waiting(t) PROVE <<t, task[t].attempt>> \in Chances
  <2>1. task[t].attempt \in 1 .. RequestAttempts /\ task[t].pc = "waiting"
    BY <1>1, <1>5, ClientNumbers DEF Waiting
  <2>2. QED
    BY <2>1 DEF Chances
<1>6. ASSUME Fails(t) PROVE Chances' \subseteq Chances \ {<<t, task[t].attempt>>}
  <2>1. /\ \A u \in Tasks : u # t => task'[u] = task[u]
        /\ task[t].pc = "waiting" /\ task'[t].pc = "backoff"
        /\ task'[t].attempt = task[t].attempt
    BY <1>6, TaskTypes DEF Fails, Waiting, ClientTypeOK
  <2> SUFFICES ASSUME NEW c \in Chances' PROVE c \in Chances /\ c # <<t, task[t].attempt>>
    OBVIOUS
  <2>2. CASE c[1] # t
    BY <2>1, <2>2 DEF Chances
  <2>3. CASE c[1] = t
    <3>1. c \in Tasks \X (1 .. RequestAttempts) /\ c[2] > task[t].attempt
      BY <2>1, <2>3 DEF Chances
    <3>2. c[2] >= task[t].attempt /\ c[2] # task[t].attempt
      BY <1>1, <3>1, ClientNumbers
    <3>3. QED
      BY <2>1, <2>3, <3>1, <3>2 DEF Chances
  <2>4. QED
    BY <2>2, <2>3
<1>7. ASSUME Spares(t) PROVE Chances' \subseteq Chances
  BY <1>2, <1>3, <1>4, <1>7 DEF Spares, Answered, Rejected, Cancelled
<1>8. ASSUME Loses(t)
      PROVE  /\ <<t, task[t].attempt>> \in Chances
             /\ Chances' \subseteq Chances \ {<<t, task[t].attempt>>}
  BY <1>2, <1>3, <1>5, <1>6, <1>8 DEF Loses, Failed, Fails, Limited
<1>9. QED
  BY <1>7, <1>8

LEMMA FewerChances ==
    ASSUME ClientTypeOK, Counted, NEW t \in Tasks
    PROVE  /\ Spares(t) => /\ Cardinality(Chances') \in Nat
                           /\ Cardinality(Chances') <= Cardinality(Chances)
           /\ Loses(t) => /\ Cardinality(Chances') \in Nat
                          /\ Cardinality(Chances') + 1 <= Cardinality(Chances)
<1>1. IsFiniteSet(Chances) /\ Cardinality(Chances) \in Nat
  BY ChancesCounted
<1>2. ASSUME NEW S \in SUBSET Chances
      PROVE  Cardinality(S) \in Nat /\ Cardinality(S) <= Cardinality(Chances)
  BY <1>1, FS_Subset, FS_CardinalityType
<1>3. ASSUME NEW x \in Chances, NEW S \in SUBSET (Chances \ {x})
      PROVE  Cardinality(S) \in Nat /\ Cardinality(S) + 1 <= Cardinality(Chances)
  <2>1. IsFiniteSet(Chances \ {x}) /\ Cardinality(Chances \ {x}) = Cardinality(Chances) - 1
    BY <1>1, FS_RemoveElement
  <2>2. Cardinality(S) \in Nat /\ Cardinality(S) <= Cardinality(Chances \ {x})
    BY <2>1, FS_Subset, FS_CardinalityType
  <2>3. QED
    BY <1>1, <2>1, <2>2
<1>4. QED
  BY <1>2, <1>3, ChancesStep

\* The window is a list of numbers.
LEMMA WindowTypes ==
    ASSUME ClientTypeOK
    PROVE  /\ Len(failures) \in Nat /\ DOMAIN failures = 1 .. Len(failures)
           /\ \A i \in 1 .. Len(failures) : failures[i] \in Nat
           /\ cooldown \in Nat /\ cooldown <= Cooldown /\ since \in Nat /\ since <= Threshold
<1>1. failures \in Seq(Ages)
  BY DEF ClientTypeOK
<1>2. Len(failures) \in Nat /\ DOMAIN failures = 1 .. Len(failures)
  BY <1>1
<1>3. \A i \in 1 .. Len(failures) : failures[i] \in Ages
  BY <1>1
<1>4. \A i \in 1 .. Len(failures) : failures[i] \in Nat
  BY <1>3, ClientNumbers DEF Ages
<1>5. cooldown \in Nat /\ cooldown <= Cooldown /\ since \in Nat /\ since <= Threshold
  BY ClientNumbers DEF ClientTypeOK
<1>6. QED
  BY <1>2, <1>4, <1>5

LEMMA WindowTypesAfter ==
    ASSUME ClientTypeOK'
    PROVE  /\ Len(failures') \in Nat /\ DOMAIN failures' = 1 .. Len(failures')
           /\ \A i \in 1 .. Len(failures') : failures'[i] \in Nat
           /\ cooldown' \in Nat /\ cooldown' <= Cooldown
<1>1. failures' \in Seq(Ages)
  BY DEF ClientTypeOK
<1>2. Len(failures') \in Nat /\ DOMAIN failures' = 1 .. Len(failures')
  BY <1>1
<1>3. \A i \in 1 .. Len(failures') : failures'[i] \in Ages
  BY <1>1
<1>4. \A i \in 1 .. Len(failures') : failures'[i] \in Nat
  BY <1>3, ClientNumbers DEF Ages
<1>5. cooldown' \in Nat /\ cooldown' <= Cooldown
  BY ClientNumbers DEF ClientTypeOK
<1>6. QED
  BY <1>2, <1>4, <1>5

\* A failure uses up a chance of those that may still fail.
LEMMA FailureIsPaced ==
    ASSUME ClientIInv, ClientTypeOK', RecordFailure,
           NEW less \in Nat, less = Cardinality(Chances'), less + 1 <= Cardinality(Chances)
    PROVE  Paced'
<1>1. ClientTypeOK /\ Sorted /\ Paced
  BY DEF ClientIInv
<1>2. PICK left \in Nat : left = Cardinality(Chances)
  BY ChancesCounted
<1>3. less + 1 <= left /\ left <= Crowd /\ Crowd \in Nat
  BY <1>2, ChancesCounted
<1>4. PICK n \in Nat :
          /\ n <= Len(failures) /\ Len(failures') = Len(failures) + 1 - n
          /\ \A i \in 1 .. Len(failures') :
                /\ failures'[i] <= Window
                /\ failures'[i] = IF i = Len(failures') THEN 0 ELSE failures[i + n]
  BY <1>1, RecordFacts
<1>5. cooldown' = IF Len(failures') >= Threshold /\ cooldown = 0 THEN Cooldown ELSE cooldown
  BY <1>1, RecordFacts
<1>6. PICK len \in Nat : len = Len(failures) /\ DOMAIN failures = 1 .. len
  BY <1>1, WindowTypes
<1>7. PICK len2 \in Nat : len2 = Len(failures') /\ DOMAIN failures' = 1 .. len2 /\ len2 = len + 1 - n
  BY <1>4, <1>6, WindowTypesAfter
<1>8. cooldown \in Nat /\ cooldown' \in Nat
  BY <1>1, WindowTypes, WindowTypesAfter
<1> SUFFICES ASSUME NEW i \in 1 .. len2, NEW m \in Nat, failures'[i] + cooldown' <= m * Cooldown
             PROVE  len2 - i + 1 + Coming' < Threshold + m * Crowd
  BY <1>7 DEF Paced
<1>9. PICK age \in Nat : age = failures'[i] /\ age <= Window
                         /\ age = IF i = len2 THEN 0 ELSE failures[i + n]
  BY <1>4, <1>7, WindowTypesAfter
<1>10. i # len2 => i + n \in 1 .. len
  BY <1>4, <1>6, <1>7
<1>11. PICK top \in Nat : top = Threshold + m * Crowd
  BY <1>3, ClientNumbers, MoreTimes
<1>12. m >= 1 => m - 1 \in Nat /\ Threshold + (m - 1) * Crowd = top - Crowd /\ Crowd < top
  <2>1. m >= 1 => /\ m - 1 \in Nat /\ m * Crowd = (m - 1) * Crowd + Crowd
                  /\ (m - 1) * Crowd \in Nat
    BY <1>3, MoreTimes
  <2>2. QED
    BY <1>3, <1>11, <2>1, ClientNumbers
<1>13. top >= Threshold
  <2>1. m * Crowd \in Nat
    BY <1>3, MoreTimes
  <2>2. QED
    BY <1>11, <2>1, ClientNumbers
<1>14. ASSUME i # len2, NEW p \in Nat, age + cooldown <= p * Cooldown
       PROVE  len - (i + n) + 1 + Coming < Threshold + p * Crowd
  BY <1>1, <1>6, <1>9, <1>10, <1>14 DEF Paced
<1>15. CASE cooldown = 0 /\ len2 < Threshold
  <2>1. Coming' = 0
    BY <1>5, <1>7, <1>15, ClientNumbers DEF Coming
  <2>2. len2 - i + 1 <= len2 /\ len2 - i + 1 \in Int
    OBVIOUS
  <2>3. QED
    BY <1>11, <1>13, <1>15, <2>1, <2>2, ClientNumbers
<1>16. CASE cooldown = 0 /\ len2 >= Threshold
  <2>1. cooldown' = Cooldown /\ Coming' = less /\ Coming = 0
    BY <1>5, <1>7, <1>16, ClientNumbers DEF Coming
  <2>2. m >= 1 /\ m - 1 \in Nat /\ age <= (m - 1) * Cooldown
    BY <1>9, <2>1, OneCooldownLess, ClientNumbers
  <2>3. CASE i = len2
    BY <1>3, <1>11, <1>12, <2>1, <2>2, <2>3
  <2>4. CASE i # len2
    <3>1. age + cooldown <= (m - 1) * Cooldown
      BY <1>9, <1>16, <2>2
    <3>2. len - (i + n) + 1 + 0 < top - Crowd
      BY <1>12, <1>14, <2>1, <2>2, <2>4, <3>1
    <3>3. PICK before \in Int : before = len - (i + n) + 1 /\ len2 - i + 1 = before + 1
      BY <1>7
    <3>4. QED
      BY <1>3, <1>11, <2>1, <3>2, <3>3
  <2>5. QED
    BY <2>3, <2>4
<1>17. CASE cooldown > 0
  <2>1. cooldown' = cooldown /\ Coming = left /\ Coming' = less
    BY <1>2, <1>5, <1>8, <1>17 DEF Coming
  <2>2. CASE i = len2
    <3>1. m # 0
      <4>1. CASE m = 0
        <5>1. m * Cooldown = 0
          BY <4>1, ClientNumbers
        <5>2. QED
          BY <1>8, <1>9, <1>17, <2>1, <5>1
      <4>2. QED
        BY <4>1
    <3>2. QED
      BY <1>3, <1>11, <1>12, <2>1, <2>2, <3>1
  <2>3. CASE i # len2
    <3>1. len - (i + n) + 1 + left < top
      BY <1>9, <1>11, <1>14, <2>1, <2>3
    <3>2. PICK before \in Int : before = len - (i + n) + 1 /\ len2 - i + 1 = before + 1
      BY <1>7
    <3>3. QED
      BY <1>3, <1>11, <2>1, <3>1, <3>2
  <2>4. QED
    BY <2>2, <2>3
<1>18. cooldown = 0 \/ cooldown > 0
  BY <1>8
<1>19. len2 < Threshold \/ len2 >= Threshold
  BY ClientNumbers
<1>20. QED
  BY <1>15, <1>16, <1>17, <1>18, <1>19

\* The other things a failure may not do: put the window out of order, make it
\* longer than it may become, or fill it with failures from before a success.
LEMMA FailureStep ==
    ASSUME ClientIInv, ClientTypeOK', RecordFailure,
           NEW less \in Nat, less = Cardinality(Chances'), less + 1 <= Cardinality(Chances)
    PROVE  Sorted' /\ Paced' /\ Bounded' /\ SinceSuccess'
<1>1. ClientTypeOK /\ Sorted /\ SinceSuccess /\ Paced'
  BY FailureIsPaced DEF ClientIInv
<1>2. PICK n \in Nat :
          /\ n <= Len(failures) /\ Len(failures') = Len(failures) + 1 - n
          /\ \A i \in 1 .. Len(failures') :
                /\ failures'[i] <= Window
                /\ failures'[i] = IF i = Len(failures') THEN 0 ELSE failures[i + n]
  BY <1>1, RecordFacts
<1>3. since' = IF since < Threshold THEN since + 1 ELSE since
  BY <1>1, RecordFacts
<1>4. PICK len \in Nat : len = Len(failures) /\ DOMAIN failures = 1 .. len
  BY <1>1, WindowTypes
<1>5. PICK len2 \in Nat : len2 = Len(failures') /\ DOMAIN failures' = 1 .. len2 /\ len2 = len + 1 - n
  BY <1>2, <1>4, WindowTypesAfter
<1>6. len2 >= 1 /\ len2 <= len + 1
  BY <1>2, <1>4, <1>5
<1>7. Sorted'
  <2> SUFFICES ASSUME NEW i \in 1 .. len2, NEW j \in 1 .. len2, i < j
               PROVE  failures'[i] >= failures'[j]
    BY <1>5 DEF Sorted
  <2>1. CASE j = len2
    <3>1. failures'[j] = 0 /\ failures'[i] \in Nat
      BY <1>2, <1>5, <2>1, WindowTypesAfter
    <3>2. QED
      BY <3>1
  <2>2. CASE j # len2
    <3>1. i + n \in 1 .. len /\ j + n \in 1 .. len /\ i + n < j + n /\ i # len2
      BY <1>5, <2>2
    <3>2. failures'[i] = failures[i + n] /\ failures'[j] = failures[j + n]
      BY <1>2, <1>5, <2>2, <3>1
    <3>3. failures[i + n] >= failures[j + n]
      BY <1>1, <1>4, <3>1 DEF Sorted
    <3>4. QED
      BY <3>2, <3>3
  <2>3. QED
    BY <2>1, <2>2
<1>8. Bounded'
  <2> SUFFICES ASSUME NEW m \in Nat, Window + Cooldown <= m * Cooldown
               PROVE  len2 < Threshold + m * Crowd
    BY <1>5 DEF Bounded
  <2>1. 1 \in 1 .. len2
    BY <1>6
  <2>2. /\ failures'[1] <= Window /\ failures'[1] \in Nat
        /\ cooldown' \in Nat /\ cooldown' <= Cooldown
    BY <1>2, <1>5, <2>1, WindowTypesAfter
  <2>3. m * Cooldown \in Nat
    BY MoreTimes, ClientNumbers
  <2>4. failures'[1] + cooldown' <= m * Cooldown
    BY <2>2, <2>3, ClientNumbers
  <2>5. len2 - 1 + 1 + Coming' < Threshold + m * Crowd
    BY <1>1, <1>5, <2>1, <2>2, <2>4 DEF Paced
  <2>6. Coming' \in Nat
    BY DEF Coming
  <2>7. m * Crowd \in Nat
    BY MoreTimes, ChancesCounted
  <2>8. PICK top \in Nat : top = Threshold + m * Crowd
    BY <2>7, ClientNumbers
  <2>9. QED
    BY <2>5, <2>6, <2>8
<1>9. SinceSuccess'
  <2>1. since \in Nat
    BY <1>1, WindowTypes
  <2>2. QED
    BY <1>1, <1>3, <1>4, <1>5, <1>6, <2>1, ClientNumbers DEF SinceSuccess
<1>10. QED
  BY <1>1, <1>7, <1>8, <1>9

\* A step that records nothing leaves the window alone.
LEMMA SparedStep ==
    ASSUME ClientIInv, UNCHANGED <<failures, cooldown, since>>,
           NEW less \in Nat, less = Cardinality(Chances'),
           cooldown > 0 => less <= Cardinality(Chances)
    PROVE  Sorted' /\ Paced' /\ Bounded' /\ SinceSuccess'
<1>1. ClientTypeOK /\ Sorted /\ Paced /\ Bounded /\ SinceSuccess
  BY DEF ClientIInv
<1>2. Sorted' /\ Bounded' /\ SinceSuccess'
  BY <1>1 DEF Sorted, Bounded, SinceSuccess
<1>3. PICK left \in Nat : left = Cardinality(Chances)
  BY ChancesCounted
<1>4. Paced'
  <2> SUFFICES ASSUME NEW i \in DOMAIN failures, NEW m \in Nat,
                      failures[i] <= Window, failures[i] + cooldown <= m * Cooldown
               PROVE  Len(failures) - i + 1 + Coming' < Threshold + m * Crowd
    BY DEF Paced
  <2>1. Len(failures) - i + 1 + Coming < Threshold + m * Crowd
    BY <1>1 DEF Paced
  <2>2. PICK after \in Int : after = Len(failures) - i + 1
    BY <1>1, WindowTypes
  <2>3. PICK top \in Nat : top = Threshold + m * Crowd
    BY MoreTimes, ChancesCounted, ClientNumbers
  <2>4. Coming' \in Nat /\ Coming \in Nat /\ Coming' <= Coming
    BY <1>3 DEF Coming
  <2>5. QED
    BY <2>1, <2>2, <2>3, <2>4
<1>5. QED
  BY <1>2, <1>4

\* A success empties the window.
LEMMA AnsweredStep ==
    ASSUME ClientTypeOK, RecordSuccess
    PROVE  Sorted' /\ Paced' /\ Bounded' /\ SinceSuccess'
<1>1. failures' = <<>> /\ Len(failures') = 0 /\ DOMAIN failures' = {} /\ since' = 0
  BY DEF RecordSuccess
<1>2. Sorted' /\ Paced' /\ SinceSuccess'
  BY <1>1 DEF Sorted, Paced, SinceSuccess
<1>3. Bounded'
  <2> SUFFICES ASSUME NEW m \in Nat PROVE 0 < Threshold + m * Crowd
    BY <1>1 DEF Bounded
  <2>1. m * Crowd \in Nat
    BY MoreTimes, ChancesCounted
  <2>2. QED
    BY <2>1, ClientNumbers
<1>4. QED
  BY <1>2, <1>3

\* A tick makes the failures older by as much as it brings the end of the
\* cooldown nearer.
LEMMA TickStep ==
    ASSUME ClientIInv, ClientTypeOK', Tick
    PROVE  Sorted' /\ Paced' /\ Bounded' /\ SinceSuccess'
<1>1. ClientTypeOK /\ Sorted /\ Paced /\ Bounded /\ SinceSuccess
  BY DEF ClientIInv
<1>2. PICK len \in Nat : len = Len(failures) /\ DOMAIN failures = 1 .. len
  BY <1>1, WindowTypes
<1>3. /\ DOMAIN failures' = 1 .. len
      /\ \A i \in 1 .. len : /\ failures[i] \in Nat
                             /\ failures'[i] = IF failures[i] > Window THEN failures[i]
                                                                       ELSE failures[i] + 1
  BY <1>1, <1>2, WindowTypes DEF Tick
<1>4. Len(failures') = len
  BY <1>2, <1>3, WindowTypesAfter
<1>5. UNCHANGED <<task, since>> /\ Chances' = Chances
  BY DEF Tick, Chances
<1>6. cooldown \in Nat /\ cooldown' = IF cooldown = 0 THEN 0 ELSE cooldown - 1
  BY <1>1, WindowTypes DEF Tick, Less
<1>7. Sorted'
  <2> SUFFICES ASSUME NEW i \in 1 .. len, NEW j \in 1 .. len, i < j
               PROVE  failures'[i] >= failures'[j]
    BY <1>3 DEF Sorted
  <2>1. failures[i] >= failures[j]
    BY <1>1, <1>2 DEF Sorted
  <2>2. QED
    BY <1>3, <2>1, ClientNumbers
<1>8. Bounded' /\ SinceSuccess'
  BY <1>1, <1>2, <1>4, <1>5 DEF Bounded, SinceSuccess
<1>9. Paced'
  <2> SUFFICES ASSUME NEW i \in 1 .. len, NEW m \in Nat,
                      failures'[i] <= Window, failures'[i] + cooldown' <= m * Cooldown
               PROVE  len - i + 1 + Coming' < Threshold + m * Crowd
    BY <1>3, <1>4 DEF Paced
  <2>1. failures[i] \in Nat /\ failures[i] <= Window /\ failures'[i] = failures[i] + 1
    BY <1>3, ClientNumbers
  <2>2. PICK limits \in Nat : limits = m * Cooldown
    BY MoreTimes, ClientNumbers
  <2>3. failures[i] + cooldown <= m * Cooldown
    BY <1>6, <2>1, <2>2
  <2>4. len - i + 1 + Coming < Threshold + m * Crowd
    BY <1>1, <1>2, <2>1, <2>3 DEF Paced
  <2>5. PICK top \in Nat : top = Threshold + m * Crowd
    BY MoreTimes, ChancesCounted, ClientNumbers
  <2>6. PICK left \in Nat : left = Cardinality(Chances)
    BY ChancesCounted
  <2>7. Coming' \in Nat /\ Coming \in Nat /\ Coming' <= Coming
    BY <1>5, <1>6, <2>6 DEF Coming
  <2>8. QED
    BY <2>4, <2>5, <2>7
<1>10. QED
  BY <1>7, <1>8, <1>9

\* Requests are counted well, and the types kept, by every step.
Tasked == [pc : {"idle", "waiting", "backoff"}, endpoint : Endpoints \cup {"none"},
           attempt : 0 .. RequestAttempts]

LEMMA TasksStep ==
    ASSUME ClientTypeOK, Counted, [ClientNext]_clientVars
    PROVE  task' \in [Tasks -> Tasked] /\ Counted'
<1>1. task \in [Tasks -> Tasked]
  BY DEF ClientTypeOK, Tasked
<1>2. ASSUME NEW t \in Tasks, NEW request \in Tasked, task' = [task EXCEPT ![t] = request],
             request.pc # "idle" => request.attempt >= 1,
             request.pc = "backoff" => request.attempt < RequestAttempts
      PROVE  task' \in [Tasks -> Tasked] /\ Counted'
  <2>1. task' \in [Tasks -> Tasked]
    BY <1>1, <1>2
  <2>2. \A u \in Tasks : task'[u] = task[u] \/ task'[u] = request
    BY <1>1, <1>2
  <2>3. Counted'
    BY <1>2, <2>2 DEF Counted, Calling
  <2>4. QED
    BY <2>1, <2>3
<1>3. ASSUME NEW t \in Tasks, Ended(t) PROVE task' \in [Tasks -> Tasked] /\ Counted'
  <2>1. NoRequest \in Tasked /\ NoRequest.pc = "idle"
    <3>1. 0 \in 0 .. RequestAttempts
      BY ClientNumbers
    <3>2. QED
      BY <3>1 DEF NoRequest, Tasked
  <2>2. QED
    BY <1>2, <1>3, <2>1 DEF Ended
<1>4. ASSUME NEW t \in Tasks, NEW e \in Endpoints, Begin(t, e)
      PROVE  task' \in [Tasks -> Tasked] /\ Counted'
  <2> DEFINE request == [pc |-> "waiting", endpoint |-> e, attempt |-> 1]
  <2>1. request \in Tasked /\ request.pc = "waiting" /\ request.attempt >= 1
    <3>1. 1 \in 0 .. RequestAttempts
      BY ClientNumbers
    <3>2. QED
      BY <3>1 DEF Tasked
  <2>2. QED
    BY <1>2, <1>4, <2>1 DEF Begin, Attempt
<1>5. ASSUME NEW t \in Tasks, Fails(t) PROVE task' \in [Tasks -> Tasked] /\ Counted'
  <2>1. PICK request \in Tasked : request = [task[t] EXCEPT !.pc = "backoff"]
    BY <1>1 DEF Tasked
  <2>2. request.pc = "backoff" /\ request.attempt = task[t].attempt
    BY <1>1, <2>1 DEF Tasked
  <2>3. task[t].attempt >= 1 /\ task[t].attempt < RequestAttempts
    BY <1>5 DEF Fails, Waiting, Counted, Calling
  <2>4. task' = [task EXCEPT ![t] = request]
    BY <1>1, <1>5, <2>1 DEF Fails
  <2>5. QED
    BY <1>2, <2>2, <2>3, <2>4
<1>6. ASSUME NEW t \in Tasks, Retry(t) PROVE task' \in [Tasks -> Tasked] /\ Counted'
  <2>1. task[t].attempt \in Nat /\ task[t].attempt + 1 \in 1 .. RequestAttempts
    BY <1>6, TaskTypes, ClientNumbers DEF Retry, Counted, Calling
  <2> DEFINE request == [pc |-> "waiting", endpoint |-> task[t].endpoint,
                         attempt |-> task[t].attempt + 1]
  <2>2. request \in Tasked /\ request.pc = "waiting" /\ request.attempt >= 1
    <3>1. task[t].endpoint \in Endpoints \cup {"none"} /\ task[t].attempt + 1 \in 0 .. RequestAttempts
      BY <1>1, <2>1 DEF Tasked
    <3>2. QED
      BY <2>1, <3>1 DEF Tasked
  <2>3. task' = [task EXCEPT ![t] = request]
    BY <1>6 DEF Retry, Attempt
  <2>4. QED
    BY <1>2, <2>2, <2>3
<1>7. CASE UNCHANGED task
  BY <1>1, <1>7 DEF Counted, Calling
<1>8. ASSUME NEW t \in Tasks, Step(t) PROVE task' \in [Tasks -> Tasked] /\ Counted'
  BY <1>3, <1>5, <1>6, <1>8 DEF Step, Answered, Rejected, Failed, Cancelled, Limited
<1>9. QED
  BY <1>4, <1>7, <1>8 DEF ClientNext, Tick, clientVars

LEMMA ClientTypeStep ==
    ASSUME ClientTypeOK, Counted, Sorted, [ClientNext]_clientVars
    PROVE  ClientTypeOK'
<1>1. task' \in [Tasks -> [pc : {"idle", "waiting", "backoff"}, endpoint : Endpoints \cup {"none"},
                           attempt : 0 .. RequestAttempts]]
  BY TasksStep DEF Tasked
<1>2. limit \in [Endpoints -> Nat] /\ failures \in Seq(Ages)
      /\ cooldown \in 0 .. Cooldown /\ since \in 0 .. Threshold
  BY DEF ClientTypeOK
<1>3. ASSUME RecordFailure, limit' \in [Endpoints -> Nat] PROVE ClientTypeOK'
  BY <1>1, <1>3, RecordFacts DEF ClientTypeOK
<1>4. ASSUME UNCHANGED <<failures, cooldown, limit, since>> PROVE ClientTypeOK'
  BY <1>1, <1>2, <1>4 DEF ClientTypeOK
<1>5. ASSUME NEW t \in Tasks, Step(t) PROVE ClientTypeOK'
  <2>1. CASE Answered(t)
    <3>1. failures' = <<>> /\ since' = 0 /\ UNCHANGED <<cooldown, limit>>
      BY <2>1 DEF Answered, RecordSuccess
    <3>2. 0 \in 0 .. Threshold
      BY ClientNumbers
    <3>3. QED
      BY <1>1, <1>2, <3>1, <3>2 DEF ClientTypeOK
  <2>2. CASE Failed(t) \/ Fails(t)
    BY <1>2, <1>3, <2>2 DEF Failed, Fails
  <2>3. ASSUME NEW time \in Limits, Limited(t, time) PROVE ClientTypeOK'
    BY <1>2, <1>3, <2>3, ClientNumbers DEF Limited
  <2>4. CASE Rejected(t) \/ Retry(t) \/ Cancelled(t)
    BY <1>4, <2>4 DEF Rejected, Retry, Cancelled, shared
  <2>5. QED
    BY <1>5, <2>1, <2>2, <2>3, <2>4 DEF Step
<1>6. ASSUME NEW t \in Tasks, NEW e \in Endpoints, Begin(t, e) PROVE ClientTypeOK'
  BY <1>4, <1>6 DEF Begin, shared
<1>7. CASE Tick
  <2>1. failures' \in Seq(Ages)
    <3>1. \A i \in DOMAIN failures : failures[i] \in Ages
      BY <1>2
    <3>2. \A a \in Ages : (IF a > Window THEN a ELSE a + 1) \in Ages
      BY ClientNumbers DEF Ages
    <3>3. failures' = [i \in 1 .. Len(failures) |->
                          IF failures[i] > Window THEN failures[i] ELSE failures[i] + 1]
      BY <1>2, <1>7 DEF Tick
    <3>4. QED
      BY <1>2, <3>1, <3>2, <3>3
  <2>2. cooldown' \in 0 .. Cooldown
    BY <1>2, <1>7, ClientNumbers DEF Tick, Less
  <2>3. limit' \in [Endpoints -> Nat]
    BY <1>2, <1>7 DEF Tick, Less
  <2>4. UNCHANGED since
    BY <1>7 DEF Tick
  <2>5. QED
    BY <1>1, <1>2, <2>1, <2>2, <2>3, <2>4 DEF ClientTypeOK
<1>8. CASE UNCHANGED clientVars
  BY <1>4, <1>8 DEF clientVars, shared
<1>9. QED
  BY <1>5, <1>6, <1>7, <1>8 DEF ClientNext

\* Every step keeps the invariant of the client.
LEMMA ClientIInvStep ==
    ASSUME ClientIInv, [ClientNext]_clientVars
    PROVE  ClientIInv'
<1>1. ClientTypeOK /\ Counted /\ Sorted
  BY DEF ClientIInv
<1>2. ClientTypeOK' /\ Counted'
  BY <1>1, ClientTypeStep, TasksStep
<1> SUFFICES Sorted' /\ Paced' /\ Bounded' /\ SinceSuccess'
  BY <1>2 DEF ClientIInv
<1>3. ASSUME NEW t \in Tasks, Loses(t) PROVE Sorted' /\ Paced' /\ Bounded' /\ SinceSuccess'
  <2>1. RecordFailure
    BY <1>3 DEF Loses, Failed, Fails, Limited
  <2>2. PICK less \in Nat : less = Cardinality(Chances') /\ less + 1 <= Cardinality(Chances)
    BY <1>1, <1>3, FewerChances
  <2>3. QED
    BY <1>2, <2>1, <2>2, FailureStep
<1>4. ASSUME NEW t \in Tasks, Spares(t) PROVE Sorted' /\ Paced' /\ Bounded' /\ SinceSuccess'
  <2>1. CASE Answered(t)
    BY <1>1, <2>1, AnsweredStep DEF Answered
  <2>2. CASE Rejected(t) \/ Retry(t) \/ Cancelled(t)
    <3>1. UNCHANGED <<failures, cooldown, since>>
      BY <2>2 DEF Rejected, Retry, Cancelled, shared
    <3>2. PICK less \in Nat : less = Cardinality(Chances') /\ less <= Cardinality(Chances)
      BY <1>1, <1>4, FewerChances
    <3>3. QED
      BY <3>1, <3>2, SparedStep
  <2>3. QED
    BY <1>4, <2>1, <2>2 DEF Spares
<1>5. ASSUME NEW t \in Tasks, NEW e \in Endpoints, Begin(t, e)
      PROVE  Sorted' /\ Paced' /\ Bounded' /\ SinceSuccess'
  <2>1. UNCHANGED <<failures, cooldown, since>> /\ cooldown = 0
    BY <1>5 DEF Begin, Allowed, shared
  <2>2. PICK less \in Nat : less = Cardinality(Chances')
    <3>1. IsFiniteSet(Tasks \X (1 .. RequestAttempts))
      <4>1. IsFiniteSet(1 .. RequestAttempts)
        BY ClientNumbers, FS_Interval
      <4>2. QED
        BY <4>1, ClientNumbers, FS_Product
    <3>2. Chances' \in SUBSET (Tasks \X (1 .. RequestAttempts))
      BY DEF Chances
    <3>3. IsFiniteSet(Chances')
      BY <3>1, <3>2, FS_Subset
    <3>4. Cardinality(Chances') \in Nat
      BY <3>3, FS_CardinalityType
    <3>5. QED
      BY <3>4
  <2>3. QED
    BY <2>1, <2>2, SparedStep
<1>6. CASE Tick
  BY <1>2, <1>6, TickStep
<1>7. CASE UNCHANGED clientVars
  <2>1. UNCHANGED <<failures, cooldown, since>> /\ Chances' = Chances
    BY <1>7 DEF clientVars, shared, Chances
  <2>2. PICK left \in Nat : left = Cardinality(Chances)
    BY ChancesCounted
  <2>3. QED
    BY <2>1, <2>2, SparedStep
<1>8. \A t \in Tasks : Step(t) => Loses(t) \/ Spares(t)
  BY DEF Step, Loses, Spares
<1>9. QED
  BY <1>3, <1>4, <1>5, <1>6, <1>7, <1>8 DEF ClientNext

LEMMA ClientInitIInv == ClientInit => ClientIInv
<1> SUFFICES ASSUME ClientInit PROVE ClientIInv
  OBVIOUS
<1>1. /\ failures = <<>> /\ Len(failures) = 0 /\ DOMAIN failures = {} /\ cooldown = 0 /\ since = 0
      /\ task = [t \in Tasks |-> NoRequest] /\ limit = [e \in Endpoints |-> 0]
  BY DEF ClientInit
<1>2. 0 \in 0 .. RequestAttempts /\ 0 \in 0 .. Cooldown /\ 0 \in 0 .. Threshold
  BY ClientNumbers
<1>3. ClientTypeOK
  BY <1>1, <1>2 DEF ClientTypeOK, NoRequest
<1>4. Counted
  BY <1>1 DEF Counted, Calling, NoRequest
<1>5. Sorted /\ Paced /\ SinceSuccess
  BY <1>1 DEF Sorted, Paced, SinceSuccess
<1>6. Bounded
  <2> SUFFICES ASSUME NEW m \in Nat PROVE 0 < Threshold + m * Crowd
    BY <1>1 DEF Bounded
  <2>1. m * Crowd \in Nat
    BY MoreTimes, ChancesCounted
  <2>2. QED
    BY <2>1, ClientNumbers
<1>7. QED
  BY <1>3, <1>4, <1>5, <1>6 DEF ClientIInv

\* The invariant of the client holds in every reachable state.
THEOREM ClientInvariance == ClientSpec => []ClientIInv
<1>1. ClientIInv /\ [ClientNext]_clientVars => ClientIInv'
  BY ClientIInvStep
<1>2. QED
  BY <1>1, ClientInitIInv, PTL DEF ClientSpec

\* The types of the shared state and of the requests.
THEOREM ClientTypeCorrect == ClientSpec => []ClientTypeOK
<1>1. ClientIInv => ClientTypeOK
  BY DEF ClientIInv
<1>2. QED
  BY <1>1, ClientInvariance, PTL

\* The window of failures stays in order and bounded, whatever the numbers of
\* tasks and attempts, the threshold, the window and the cooldown are
\* (_record_failure trims it from the left; _ensure_available keeps new requests
\* off while a cooldown is on).
THEOREM WindowIsBoundedAlways == ClientSpec => []WindowIsBounded
<1>1. ClientIInv => WindowIsBounded
  <2> SUFFICES ASSUME ClientIInv PROVE WindowIsBounded
    OBVIOUS
  <2>1. PICK bursts \in Nat : /\ bursts = (Window + Cooldown - 1) \div Cooldown + 1
                              /\ Window + Cooldown <= bursts * Cooldown
    <3>1. /\ (Window + Cooldown - 1) \div Cooldown \in Nat
          /\ Window + Cooldown <= ((Window + Cooldown - 1) \div Cooldown + 1) * Cooldown
      BY RoundedUp, ClientNumbers
    <3>2. PICK quotient \in Nat : quotient = (Window + Cooldown - 1) \div Cooldown
      BY <3>1
    <3>3. quotient + 1 \in Nat
      BY <3>2
    <3>4. QED
      BY <3>1, <3>2, <3>3
  <2>2. Len(failures) < Threshold + bursts * Crowd
    BY <2>1 DEF ClientIInv, Bounded
  <2>3. QED
    BY <2>1, <2>2 DEF ClientIInv, Sorted, WindowIsBounded, Crowd
<1>2. QED
  BY <1>1, ClientInvariance, PTL

\* A cooldown begins after Threshold failures in a row and no sooner than the last
\* one has ended (the test of _record_failure, and the clear of _record_success).
THEOREM CooldownsAreEarnedAlways == ClientSpec => CooldownsAreEarned
<1>1. ClientIInv /\ [ClientNext]_clientVars =>
          [cooldown' > cooldown => cooldown = 0 /\ since' = Threshold]_clientVars
  <2> SUFFICES ASSUME ClientIInv, ClientNext, cooldown' > cooldown
               PROVE  cooldown = 0 /\ since' = Threshold
    OBVIOUS
  <2>1. /\ ClientTypeOK /\ Sorted /\ SinceSuccess
        /\ cooldown \in Nat /\ since \in Nat /\ since <= Threshold /\ Len(failures) \in Nat
    BY WindowTypes DEF ClientIInv
  <2>2. cooldown' # cooldown
    BY <2>1
  <2>3. ~ Tick
    BY <2>1 DEF Tick, Less
  <2>4. RecordFailure
    BY <2>2, <2>3 DEF ClientNext, Step, Begin, Answered, Rejected, Failed, Fails, Retry,
                      Cancelled, Limited, shared
  <2>5. /\ cooldown' = IF Len(failures') >= Threshold /\ cooldown = 0 THEN Cooldown ELSE cooldown
        /\ since' = IF since < Threshold THEN since + 1 ELSE since
        /\ \E n \in Nat : n <= Len(failures) /\ Len(failures') = Len(failures) + 1 - n
    BY <2>1, <2>4, RecordFacts
  <2>6. Len(failures') >= Threshold /\ cooldown = 0
    BY <2>2, <2>5
  <2>7. since' = Threshold
    BY <2>1, <2>5, <2>6, ClientNumbers DEF SinceSuccess
  <2>8. QED
    BY <2>6, <2>7
<1>2. QED
  BY <1>1, ClientInvariance, PTL DEF ClientSpec, CooldownsAreEarned

=============================================================================
