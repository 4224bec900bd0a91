------------------------- MODULE ReminderLoopProofs -------------------------
(***************************************************************************)
(* The safety properties of ReminderLoop for every number of users, of     *)
(* bookings and of examined attributions, and for every window, pause and  *)
(* duration of a scan.                                                     *)
(*                                                                         *)
(* OneScanPerReminder and StaleOnlyWithinScan follow the items a scan has  *)
(* collected: a record is fetched once, and only while its row is free.    *)
(* SoonDecidedInTime and ConfirmationAt6h need two facts about time: what  *)
(* the running scan still has to do for the records it could see, and what *)
(* the scan before it has done.                                            *)
(***************************************************************************)
EXTENDS ReminderLoop, FiniteSetTheorems, TLAPS

Row(r, k) == history[Owner[r]][<<r, k>>]

SameKey(i, j) == i.record = j.record /\ i.kind = j.kind

\* What a scan has collected: one item for each row, which nobody has claimed
\* but the item that is being sent.
Collected ==
    /\ ~ Scanning => loop.due = {}
    /\ loop.pc \in {"sending", "awaiting"} => loop.todo = {}
    /\ \A i \in loop.due :
          /\ i.record \notin loop.todo
          /\ Row(i.record, i.kind) = NoRow \/ InFlight(i)
    /\ \A i \in loop.due : \A j \in loop.due :
          SameKey(i, j) \/ (InFlight(i) /\ InFlight(j)) => i = j

\* A reminder that arrived has its row; if the item is still there, it is the
\* one that arrived.
Logged ==
    \A e \in log :
        /\ Row(e.item.record, e.item.kind) # NoRow
        /\ \A i \in loop.due : SameKey(e.item, i) => e.item = i /\ e.asOf = loop.asOf

\* An item is about the booking in YClients, or that one changed meanwhile.
Current ==
    \A i \in loop.due :
        record[i.record] = [active |-> TRUE, at |-> i.at] \/ i.record \in changed

\* The inductive invariant of the items.
ItemsInv == Collected /\ Logged /\ Current /\ OneScanPerReminder

\* A scan takes MaxScan at most, and the loop wakes in time.
Clock ==
    /\ Scanning => loop.asOf <= now /\ now <= loop.asOf + MaxScan
    /\ loop.pc = "sleeping" => now <= loop.wake /\ loop.wake <= now + Interval

\* No peace without a loop or a booking.
Quiet == \A r \in Records : loop.pc = "off" \/ ~ record[r].active => calm[r] = 0

\* A record's rows belong to its owner.
OwnersOnly == \A u \in Users : \A k \in Keys : history[u][k] # NoRow => u = Owner[k[1]]

\* The latest instant at which a kind becomes due.
Opening(r, k) == record[r].at - (IF k = "soon" THEN Soon ELSE Fallback)

\* The loop may have looked at r at every instant from t on.
Seen(r, t) ==
    /\ r \in Latest(attributions, Limit)
    /\ record[r].active
    /\ calm[r] > now - t

\* The scan that ended last began at this instant or after it.
Base ==
    IF loop.pc = "sleeping" THEN loop.wake - Interval - MaxScan
                            ELSE loop.asOf - Interval - MaxScan

\* What the scan that ended last has done.
Swept ==
    loop.pc # "off" =>
        \A r \in Records : \A k \in Kinds :
            Seen(r, Base) /\ Opening(r, k) <= Base => Decided(r, k)

\* What the running scan still has in hand.
InScan ==
    Scanning =>
        \A r \in Records : \A k \in Kinds :
            Seen(r, loop.asOf) /\ Opening(r, k) <= loop.asOf =>
                \/ r \in loop.todo \/ Decided(r, k)
                \/ \E i \in loop.due : i.record = r /\ i.kind = k

\* The inductive invariant of the schedule.
TimeInv == Clock /\ Quiet /\ OwnersOnly /\ Swept /\ InScan

\* The inductive invariant.
IInv == TypeOK /\ ItemsInv /\ TimeInv

-----------------------------------------------------------------------------
(* Types *)

\* The constants are numbers, in the order of the windows.
LEMMA Numbers ==
    /\ Soon \in Nat /\ Fallback \in Nat /\ Confirm \in Nat /\ Interval \in Nat
    /\ Limit \in Nat /\ Horizon \in Nat /\ MaxScan \in Nat
    /\ 0 < Soon /\ Soon < Fallback /\ Fallback < Confirm
    /\ \A t \in Times : t \in 1 .. Horizon
    /\ \A r \in Records : Owner[r] \in Users
    /\ Patience \in Nat
  BY ReminderAssumption DEF Patience

\* The statements of the store keep the table a table and touch one row.
LEMMA InsertRow ==
    ASSUME NEW h \in Tables, NEW u \in Users, NEW key \in Keys, NEW status \in Statuses
    PROVE  /\ InsertOrIgnore(h, u, key, status) \in Tables
           /\ \A v \in Users : \A k \in Keys :
                 InsertOrIgnore(h, u, key, status)[v][k] =
                     IF v = u /\ k = key /\ h[v][k] = NoRow THEN status ELSE h[v][k]
<1>1. h \in [Users -> [Keys -> Statuses]]
  BY DEF Tables
<1>2. CASE h[u][key] = NoRow
  <2>1. InsertOrIgnore(h, u, key, status) = [h EXCEPT ![u][key] = status]
    BY <1>2 DEF InsertOrIgnore
  <2>2. QED
    BY <1>1, <1>2, <2>1 DEF Tables
<1>3. CASE h[u][key] # NoRow
  BY <1>3 DEF InsertOrIgnore
<1>4. QED
  BY <1>2, <1>3

LEMMA UpdateRow ==
    ASSUME NEW h \in Tables, NEW u \in Users, NEW key \in Keys, NEW status \in Statuses
    PROVE  /\ MarkResult(h, u, key, status) \in Tables
           /\ \A v \in Users : \A k \in Keys :
                 MarkResult(h, u, key, status)[v][k] =
                     IF v = u /\ k = key THEN status ELSE h[v][k]
  BY DEF Tables, MarkResult

\* Skipping a record touches the free ones of its two rows.
LEMMA SkipRows ==
    ASSUME history \in Tables, NEW r \in Records
    PROVE  /\ SkipBoth(r) \in Tables
           /\ \A v \in Users : \A k \in Keys :
                 SkipBoth(r)[v][k] =
                     IF v = Owner[r] /\ k[1] = r /\ history[v][k] = NoRow
                       THEN "skipped" ELSE history[v][k]
<1>1. /\ Owner[r] \in Users /\ "skipped" \in Statuses /\ "skipped" # NoRow
      /\ <<r, "confirmation">> \in Keys /\ <<r, "soon">> \in Keys
  BY Numbers DEF Statuses, Keys, Kinds, NoRow
<1>2. PICK first \in Tables :
          /\ first = InsertOrIgnore(history, Owner[r], <<r, "confirmation">>, "skipped")
          /\ \A v \in Users : \A k \in Keys :
                first[v][k] = IF v = Owner[r] /\ k = <<r, "confirmation">> /\ history[v][k] = NoRow
                                THEN "skipped" ELSE history[v][k]
  BY <1>1, InsertRow
<1>3. PICK second \in Tables :
          /\ second = InsertOrIgnore(first, Owner[r], <<r, "soon">>, "skipped")
          /\ \A v \in Users : \A k \in Keys :
                second[v][k] = IF v = Owner[r] /\ k = <<r, "soon">> /\ first[v][k] = NoRow
                                 THEN "skipped" ELSE first[v][k]
  BY <1>1, InsertRow
<1>4. SkipBoth(r) = second
  BY <1>2, <1>3 DEF SkipBoth, MarkSkipped
<1>5. \A k \in Keys : k[1] = r <=> k = <<r, "confirmation">> \/ k = <<r, "soon">>
  BY DEF Keys, Kinds
<1>6. ASSUME NEW v \in Users, NEW k \in Keys
      PROVE  second[v][k] = IF v = Owner[r] /\ k[1] = r /\ history[v][k] = NoRow
                              THEN "skipped" ELSE history[v][k]
  <2>1. first[v][k] = IF v = Owner[r] /\ k = <<r, "confirmation">> /\ history[v][k] = NoRow
                        THEN "skipped" ELSE history[v][k]
    BY <1>2
  <2>2. second[v][k] = IF v = Owner[r] /\ k = <<r, "soon">> /\ first[v][k] = NoRow
                         THEN "skipped" ELSE first[v][k]
    BY <1>3
  <2>3. k[1] = r <=> k = <<r, "confirmation">> \/ k = <<r, "soon">>
    BY <1>5
  <2>4. QED
    BY <1>1, <2>1, <2>2, <2>3
<1>7. QED
  BY <1>3, <1>4, <1>6

\* The latest attributions are records.
LEMMA LatestType ==
    ASSUME TypeOK
    PROVE  Latest(attributions, Limit) \subseteq Records
  BY DEF TypeOK, Latest

\* The steps that begin or end a scan leave a loop that has collected nothing.
LEMMA EmptiedType ==
    ASSUME TypeOK, BeginScan \/ ScanFails \/ ScanDone \/ Stop
    PROVE  loop' \in Loops
<1>1. now \in 0 .. Horizon /\ Latest(attributions, Limit) \in SUBSET Records
  BY LatestType DEF TypeOK
<1>2. CASE BeginScan
  <2>1. loop' = [pc |-> "fetching", asOf |-> now, todo |-> Latest(attributions, Limit),
                 due |-> {}, wake |-> 0]
    BY <1>2 DEF BeginScan, Off
  <2>2. QED
    BY <1>1, <2>1 DEF Loops
<1>3. CASE ScanFails \/ ScanDone
  <2>1. loop' = [pc |-> "sleeping", asOf |-> 0, todo |-> {}, due |-> {}, wake |-> now + Interval]
    BY <1>3 DEF ScanFails, ScanDone, Off
  <2>2. now + Interval \in Nat /\ 0 \in 0 .. Horizon
    BY <1>1, Numbers
  <2>3. QED
    BY <2>1, <2>2 DEF Loops
<1>4. CASE Stop
  <2>1. 0 \in 0 .. Horizon
    BY Numbers
  <2>2. QED
    BY <1>4, <2>1 DEF Stop, Off, Loops
<1>5. QED
  BY <1>2, <1>3, <1>4

\* A disturbance keeps the counters in their bounds.
LEMMA DisturbedType ==
    ASSUME TypeOK, NEW rs, Disturbed(rs)
    PROVE  calm' \in [Records -> 0 .. Patience]
<1>1. 0 \in 0 .. Patience
  BY Numbers
<1>2. QED
  BY <1>1 DEF Disturbed, TypeOK

\* A fetch adds items and takes its record off the list.
LEMMA FetchedType ==
    ASSUME TypeOK, NEW r \in Records, NEW items \in SUBSET Items, NEW table \in Tables,
           Fetched(r, items, table)
    PROVE  loop' \in Loops /\ history' \in Tables
  BY DEF Fetched, TypeOK, Loops

\* The items of an active booking.
Collects(r) ==
    {[record |-> r, kind |-> k, at |-> record[r].at] :
        k \in {x \in DueKinds(record[r].at, loop.asOf) : Row(r, x) = NoRow}}

LEMMA FetchActiveFacts ==
    ASSUME TypeOK, NEW r \in Records, FetchActive(r)
    PROVE  /\ Fetched(r, Collects(r), history)
           /\ Collects(r) \in SUBSET Items
           /\ loop.pc = "fetching" /\ r \in loop.todo
           /\ record[r] = [active |-> TRUE, at |-> record[r].at]
           /\ record[r].at > loop.asOf
           /\ UNCHANGED calm
<1>1. record[r].active /\ record[r] \in Bookings \cup {NoBooking}
  BY DEF FetchActive, TypeOK
<1>2. record[r] \in Bookings
  BY <1>1 DEF NoBooking
<1>3. record[r].at \in Times /\ record[r] = [active |-> TRUE, at |-> record[r].at]
  BY <1>1, <1>2 DEF Bookings
<1>4. Collects(r) \in SUBSET Items
  BY <1>3 DEF Collects, Items, DueKinds
<1>5. Fetched(r, Collects(r), history)
  BY DEF FetchActive, Collects, Row
<1>6. QED
  BY <1>3, <1>4, <1>5 DEF FetchActive

\* A send ends with a row that says how.
LEMMA SendDoneFacts ==
    ASSUME TypeOK, NEW i \in loop.due, NEW outcome \in EndOutcomes, SendDone(i, outcome)
    PROVE  /\ i \in Items /\ InFlight(i) /\ loop.pc = "awaiting"
           /\ history' \in Tables
           /\ \A v \in Users : \A k \in Keys :
                 history'[v][k] = IF v = Owner[i.record] /\ k = <<i.record, i.kind>>
                                    THEN outcome ELSE history[v][k]
           /\ outcome # NoRow
           /\ loop' = [loop EXCEPT !.pc = "sending", !.due = @ \ {i}]
           /\ UNCHANGED <<now, record, attributions, log, changed, calm>>
<1>1. i \in Items /\ i.record \in Records /\ i.kind \in Kinds
  BY DEF TypeOK, Loops, Items
<1>2. Owner[i.record] \in Users /\ <<i.record, i.kind>> \in Keys
  BY <1>1, Numbers DEF Keys
<1>3. outcome \in Statuses /\ outcome # NoRow
  BY DEF EndOutcomes, Statuses, Outcomes, NoRow
<1>4. history' = MarkResult(history, Owner[i.record], <<i.record, i.kind>>, outcome)
  BY DEF SendDone
<1>5. history \in Tables
  BY DEF TypeOK
<1>6. QED
  BY <1>1, <1>2, <1>3, <1>4, <1>5, UpdateRow DEF SendDone, InFlight

\* A reservation makes one free row pending; a refused one leaves an item less.
LEMMA SendItemFacts ==
    ASSUME TypeOK, NEW i \in loop.due, SendItem(i)
    PROVE  /\ i \in Items /\ loop.pc = "sending"
           /\ history' \in Tables
           /\ UNCHANGED <<now, record, attributions, notifyOn, log, changed, calm>>
           /\ \/ /\ CanReserve(history, <<i.record, i.kind>>)
                 /\ loop' = [loop EXCEPT !.pc = "awaiting"]
                 /\ \A v \in Users : \A k \in Keys :
                       history'[v][k] = IF v = Owner[i.record] /\ k = <<i.record, i.kind>>
                                          THEN "pending" ELSE history[v][k]
              \/ /\ ~ CanReserve(history, <<i.record, i.kind>>)
                 /\ loop' = [loop EXCEPT !.due = @ \ {i}]
                 /\ history' = history
<1>1. i \in Items /\ i.record \in Records /\ i.kind \in Kinds
  BY DEF TypeOK, Loops, Items
<1>2. Owner[i.record] \in Users /\ <<i.record, i.kind>> \in Keys
  BY <1>1, Numbers DEF Keys
<1>3. history \in Tables
  BY DEF TypeOK
<1>4. CASE CanReserve(history, <<i.record, i.kind>>)
  <2>1. history[Owner[i.record]][<<i.record, i.kind>>] = NoRow
    BY <1>2, <1>4 DEF CanReserve, HasRowForKey
  <2>2. "pending" \in Statuses
    BY DEF Statuses
  <2>3. history' = InsertOrIgnore(history, Owner[i.record], <<i.record, i.kind>>, "pending")
    BY <1>4 DEF SendItem, Reserve
  <2>4. /\ history' \in Tables
        /\ \A v \in Users : \A k \in Keys :
              history'[v][k] = IF v = Owner[i.record] /\ k = <<i.record, i.kind>>
                                  /\ history[v][k] = NoRow THEN "pending" ELSE history[v][k]
    BY <1>2, <1>3, <2>2, <2>3, InsertRow
  <2>5. QED
    BY <1>1, <1>4, <2>1, <2>4 DEF SendItem
<1>5. CASE ~ CanReserve(history, <<i.record, i.kind>>)
  BY <1>1, <1>3, <1>5 DEF SendItem
<1>6. QED
  BY <1>4, <1>5

\* Every step keeps every value in its type.
LEMMA TypeStep == TypeOK /\ [Next]_vars => TypeOK'
<1> SUFFICES ASSUME TypeOK, [Next]_vars PROVE TypeOK'
  OBVIOUS
<1>1. CASE Start \/ Wake \/ ScanDone
  <2>1. loop' \in Loops
    BY <1>1, EmptiedType DEF Start, Wake
  <2>2. /\ UNCHANGED <<now, record, attributions, notifyOn, history, log, calm>>
        /\ changed' = {}
    BY <1>1 DEF Start, Wake, ScanDone, BeginScan
  <2>3. QED
    BY <2>1, <2>2 DEF TypeOK
<1>2. CASE ScanFails \/ Stop
  <2>1. loop' \in Loops
    BY <1>2, EmptiedType
  <2>2. calm' \in [Records -> 0 .. Patience]
    BY <1>2, DisturbedType DEF ScanFails, Stop
  <2>3. UNCHANGED <<now, record, attributions, notifyOn, history, log>> /\ changed' = {}
    BY <1>2 DEF ScanFails, Stop
  <2>4. QED
    BY <2>1, <2>2, <2>3 DEF TypeOK
<1>3. ASSUME NEW r \in Records, PassOver(r) PROVE TypeOK'
  <2>1. history \in Tables /\ Fetched(r, {}, history)
    BY <1>3 DEF TypeOK, PassOver
  <2>2. loop' \in Loops /\ history' \in Tables
    BY <2>1, FetchedType
  <2>3. calm' \in [Records -> 0 .. Patience]
    BY <1>3, DisturbedType DEF PassOver
  <2>4. QED
    BY <2>1, <2>2, <2>3 DEF TypeOK, Fetched
<1>4. ASSUME NEW r \in Records, FetchOver(r) PROVE TypeOK'
  <2>1. SkipBoth(r) \in Tables
    BY SkipRows DEF TypeOK
  <2>2. Fetched(r, {}, SkipBoth(r)) /\ UNCHANGED calm
    BY <1>4 DEF FetchOver
  <2>3. loop' \in Loops /\ history' \in Tables
    BY <2>1, <2>2, FetchedType
  <2>4. QED
    BY <2>2, <2>3 DEF TypeOK, Fetched
<1>5. ASSUME NEW r \in Records, FetchActive(r) PROVE TypeOK'
  <2>1. Fetched(r, Collects(r), history) /\ Collects(r) \in SUBSET Items /\ UNCHANGED calm
    BY <1>5, FetchActiveFacts
  <2>2. loop' \in Loops /\ history' \in Tables
    BY <2>1, FetchedType DEF TypeOK
  <2>3. QED
    BY <2>1, <2>2 DEF TypeOK, Fetched
<1>6. CASE FetchesDone
  BY <1>6 DEF FetchesDone, TypeOK, Loops
<1>7. ASSUME NEW i \in loop.due, SendItem(i) PROVE TypeOK'
  <2>1. loop' \in Loops
    <3>1. loop' = [loop EXCEPT !.pc = "awaiting"] \/ loop' = [loop EXCEPT !.due = @ \ {i}]
      BY <1>7, SendItemFacts
    <3>2. QED
      BY <3>1 DEF TypeOK, Loops
  <2>2. history' \in Tables /\ UNCHANGED <<now, record, attributions, notifyOn, log, changed, calm>>
    BY <1>7, SendItemFacts
  <2>3. QED
    BY <2>1, <2>2 DEF TypeOK
<1>8. ASSUME NEW i \in loop.due, Arrives(i) PROVE TypeOK'
  <2>1. i \in Items /\ loop.asOf \in 0 .. Horizon
    BY DEF TypeOK, Loops
  <2>2. QED
    BY <1>8, <2>1 DEF Arrives, TypeOK
<1>9. ASSUME NEW i \in loop.due, SendRaises(i) PROVE TypeOK'
  BY <1>9 DEF SendRaises, TypeOK, Loops
<1>10. ASSUME NEW i \in loop.due, NEW outcome \in EndOutcomes, SendDone(i, outcome) PROVE TypeOK'
  <2>1. loop' \in Loops
    <3>1. loop' = [loop EXCEPT !.pc = "sending", !.due = @ \ {i}]
      BY <1>10 DEF SendDone
    <3>2. QED
      BY <3>1 DEF TypeOK, Loops
  <2>2. history' \in Tables /\ UNCHANGED <<now, record, attributions, log, changed, calm>>
    <3>1. history' \in Tables
      BY <1>10, SendDoneFacts
    <3>2. QED
      BY <1>10, <3>1 DEF SendDone
  <2>3. notifyOn' \in [Users -> BOOLEAN]
    BY <1>10 DEF SendDone, TypeOK
  <2>4. QED
    BY <2>1, <2>2, <2>3 DEF TypeOK
<1>11. ASSUME NEW r \in Records, NEW at \in Times, NEW saved \in BOOLEAN, Book(r, at, saved)
       PROVE  TypeOK'
  <2>1. record' \in [Records -> Bookings \cup {NoBooking}]
    BY <1>11 DEF Book, TypeOK, Bookings
  <2>2. attributions' \in Seq(Records)
    BY <1>11 DEF Book, TypeOK
  <2>3. QED
    BY <1>11, <2>1, <2>2 DEF Book, TypeOK
<1>12. ASSUME NEW r \in Records, NEW booking \in Bookings, Change(r, booking) PROVE TypeOK'
  <2>1. record' \in [Records -> Bookings \cup {NoBooking}]
    BY <1>12 DEF Change, TypeOK
  <2>2. changed' \subseteq Records
    BY <1>12 DEF Change, TypeOK
  <2>3. calm' \in [Records -> 0 .. Patience]
    BY <1>12, DisturbedType DEF Change
  <2>4. QED
    BY <1>12, <2>1, <2>2, <2>3 DEF Change, TypeOK
<1>13. CASE Tick
  <2>1. now' \in 0 .. Horizon
    BY <1>13, Numbers DEF Tick, TypeOK
  <2>2. calm' \in [Records -> 0 .. Patience]
    <3>1. ASSUME NEW r \in Records, calm[r] < Patience PROVE calm[r] + 1 \in 0 .. Patience
      BY <3>1, Numbers DEF TypeOK
    <3>2. \A r \in Records : calm[r] \in 0 .. Patience
      BY DEF TypeOK
    <3>3. QED
      BY <1>13, <3>1, <3>2 DEF Tick
  <2>3. UNCHANGED <<record, attributions, notifyOn, history, loop, log, changed>>
    BY <1>13 DEF Tick
  <2>4. QED
    BY <2>1, <2>2, <2>3 DEF TypeOK
<1>14. CASE UNCHANGED vars
  BY <1>14 DEF vars, TypeOK
<1>15. QED
  BY <1>1, <1>2, <1>3, <1>4, <1>5, <1>6, <1>7, <1>8, <1>9, <1>10, <1>11, <1>12, <1>13, <1>14
  DEF Next

-----------------------------------------------------------------------------
(* What a scan has collected *)

LEMMA ItemTypes ==
    ASSUME TypeOK
    PROVE  /\ \A i \in loop.due : i \in Items /\ i.record \in Records /\ i.kind \in Kinds
           /\ \A e \in log : e.item \in Items /\ e.item.record \in Records /\ e.item.kind \in Kinds
           /\ \A r \in Records : \A k \in Kinds : <<r, k>> \in Keys /\ Owner[r] \in Users
<1>1. loop.due \subseteq Items /\ \A e \in log : e.item \in Items
  BY DEF TypeOK, Loops
<1>2. \A i \in Items : i.record \in Records /\ i.kind \in Kinds
  BY DEF Items
<1>3. \A r \in Records : \A k \in Kinds : <<r, k>> \in Keys /\ Owner[r] \in Users
  BY Numbers DEF Keys
<1>4. QED
  BY <1>1, <1>2, <1>3

\* A scan that begins or ends has nothing in hand.
LEMMA EmptiedItems ==
    ASSUME ItemsInv, BeginScan \/ ScanFails \/ ScanDone \/ Stop
    PROVE  ItemsInv'
<1>1. /\ loop'.due = {} /\ loop'.pc \in {"fetching", "sleeping", "off"}
      /\ UNCHANGED <<history, log>>
  <2>1. CASE BeginScan
    <3>1. loop' = [pc |-> "fetching", asOf |-> now, todo |-> Latest(attributions, Limit),
                   due |-> {}, wake |-> 0]
      BY <2>1 DEF BeginScan, Off
    <3>2. UNCHANGED <<history, log>>
      BY <2>1 DEF BeginScan
    <3>3. QED
      BY <3>1, <3>2
  <2>2. CASE ScanFails \/ ScanDone
    <3>1. loop' = [pc |-> "sleeping", asOf |-> 0, todo |-> {}, due |-> {}, wake |-> now + Interval]
      BY <2>2 DEF ScanFails, ScanDone, Off
    <3>2. UNCHANGED <<history, log>>
      BY <2>2 DEF ScanFails, ScanDone
    <3>3. QED
      BY <3>1, <3>2
  <2>3. CASE Stop
    BY <2>3 DEF Stop, Off
  <2>4. QED
    BY <2>1, <2>2, <2>3
<1>2. Collected'
  BY <1>1 DEF Collected
<1>3. Logged' /\ Current'
  BY <1>1 DEF ItemsInv, Logged, Current, Row
<1>4. OneScanPerReminder'
  BY <1>1 DEF ItemsInv, OneScanPerReminder
<1>5. QED
  BY <1>2, <1>3, <1>4 DEF ItemsInv

\* A fetch that collects nothing touches no row but the free ones of its record.
LEMMA FetchedNothing ==
    ASSUME TypeOK, ItemsInv, NEW r \in Records, NEW table,
           loop.pc = "fetching", r \in loop.todo, Fetched(r, {}, table),
           \A s \in Records : \A k \in Kinds :
               s # r \/ Row(s, k) # NoRow => Row(s, k)' = Row(s, k)
    PROVE  ItemsInv'
<1>1. /\ loop'.pc = "fetching" /\ loop'.todo = loop.todo \ {r} /\ loop'.due = loop.due
      /\ loop'.asOf = loop.asOf
      /\ UNCHANGED <<record, log, changed>>
  BY DEF Fetched, TypeOK, Loops
<1>2. \A i \in loop.due : /\ i.record # r /\ i.record \in Records /\ i.kind \in Kinds
                          /\ Row(i.record, i.kind)' = Row(i.record, i.kind)
  BY ItemTypes DEF ItemsInv, Collected
<1>3. Collected'
  BY <1>1, <1>2 DEF ItemsInv, Collected, InFlight, Scanning
<1>4. \A e \in log : Row(e.item.record, e.item.kind)' = Row(e.item.record, e.item.kind)
  BY ItemTypes DEF ItemsInv, Logged
<1>5. Logged'
  BY <1>1, <1>4 DEF ItemsInv, Logged
<1>6. Current' /\ OneScanPerReminder'
  BY <1>1 DEF ItemsInv, Current, OneScanPerReminder
<1>7. QED
  BY <1>3, <1>5, <1>6 DEF ItemsInv

\* A fetch collects the items of one booking, which no reminder has reached.
LEMMA FetchActiveItems ==
    ASSUME TypeOK, ItemsInv, NEW r \in Records, FetchActive(r)
    PROVE  ItemsInv'
<1>1. /\ loop.pc = "fetching" /\ r \in loop.todo
      /\ loop'.pc = "fetching" /\ loop'.todo = loop.todo \ {r}
      /\ loop'.due = loop.due \cup Collects(r) /\ loop'.asOf = loop.asOf
      /\ UNCHANGED <<record, history, log, changed>>
      /\ record[r] = [active |-> TRUE, at |-> record[r].at]
  <2>1. /\ Fetched(r, Collects(r), history)
        /\ loop.pc = "fetching" /\ r \in loop.todo
        /\ record[r] = [active |-> TRUE, at |-> record[r].at]
    BY FetchActiveFacts
  <2>2. loop \in Loops
    BY DEF TypeOK
  <2>3. QED
    BY <2>1, <2>2 DEF Fetched, Loops
<1>2. \A i \in Collects(r) : /\ i.record = r /\ i.at = record[r].at /\ Row(r, i.kind) = NoRow
                             /\ i = [record |-> r, kind |-> i.kind, at |-> record[r].at]
  BY DEF Collects
<1>3. \A i \in loop.due : i.record # r
  BY <1>1 DEF ItemsInv, Collected
<1>4. \A i \in loop.due : Row(i.record, i.kind) = NoRow
  BY <1>1 DEF ItemsInv, Collected, InFlight
<1>5. Collected'
  <2>1. \A i \in loop'.due : i.record \notin loop'.todo /\ Row(i.record, i.kind)' = NoRow
    BY <1>1, <1>2, <1>3, <1>4 DEF ItemsInv, Collected, Row
  <2>2. ASSUME NEW i \in loop'.due, NEW j \in loop'.due, SameKey(i, j) PROVE i = j
    <3>1. CASE i \in loop.due /\ j \in loop.due
      BY <2>2, <3>1 DEF ItemsInv, Collected
    <3>2. CASE i \in Collects(r) /\ j \in Collects(r)
      BY <1>2, <2>2, <3>2 DEF SameKey
    <3>3. QED
      BY <1>1, <1>2, <1>3, <2>2, <3>1, <3>2 DEF SameKey
  <2>3. QED
    BY <1>1, <2>1, <2>2 DEF Collected, InFlight, Scanning
<1>6. Logged'
  <2>1. ASSUME NEW e \in log, NEW i \in loop'.due, SameKey(e.item, i)
        PROVE  e.item = i /\ e.asOf = loop.asOf
    <3>1. Row(e.item.record, e.item.kind) # NoRow
      BY DEF ItemsInv, Logged
    <3>2. i \in loop.due
      BY <1>1, <1>2, <2>1, <3>1 DEF SameKey
    <3>3. QED
      BY <2>1, <3>2 DEF ItemsInv, Logged
  <2>2. QED
    BY <1>1, <2>1 DEF ItemsInv, Logged, Row
<1>7. Current'
  BY <1>1, <1>2 DEF ItemsInv, Current
<1>8. OneScanPerReminder'
  BY <1>1 DEF ItemsInv, OneScanPerReminder
<1>9. QED
  BY <1>5, <1>6, <1>7, <1>8 DEF ItemsInv

LEMMA FetchesDoneItems ==
    ASSUME TypeOK, ItemsInv, FetchesDone
    PROVE  ItemsInv'
<1>1. /\ loop.pc = "fetching" /\ loop.todo = {}
      /\ loop'.pc = "sending" /\ loop'.todo = {} /\ loop'.due = loop.due /\ loop'.asOf = loop.asOf
      /\ UNCHANGED <<record, history, log, changed>>
  BY DEF FetchesDone, TypeOK, Loops
<1>2. Collected'
  BY <1>1 DEF ItemsInv, Collected, InFlight, Scanning, Row
<1>3. Logged' /\ Current' /\ OneScanPerReminder'
  BY <1>1 DEF ItemsInv, Logged, Current, OneScanPerReminder, Row
<1>4. QED
  BY <1>2, <1>3 DEF ItemsInv

\* A reservation puts one item in flight; a refused one drops it.
LEMMA SendItemItems ==
    ASSUME TypeOK, ItemsInv, NEW i \in loop.due, SendItem(i)
    PROVE  ItemsInv'
<1>1. i.record \in Records /\ i.kind \in Kinds /\ loop \in Loops
  BY ItemTypes DEF TypeOK
<1>2. loop.pc = "sending" /\ loop.todo = {} /\ UNCHANGED <<record, log, changed>>
  BY SendItemFacts DEF ItemsInv, Collected
<1>3. \A j \in loop.due : Row(j.record, j.kind) = NoRow /\ j.record \in Records /\ j.kind \in Kinds
  BY <1>2, ItemTypes DEF ItemsInv, Collected, InFlight
<1>4. \A j \in loop.due : \A k \in loop.due : SameKey(j, k) => j = k
  BY DEF ItemsInv, Collected
<1>5. Current' /\ OneScanPerReminder'
  <2>1. loop'.due \subseteq loop.due
    BY <1>1 DEF SendItem, Loops
  <2>2. QED
    BY <1>2, <2>1 DEF ItemsInv, Current, OneScanPerReminder
<1>6. CASE /\ loop' = [loop EXCEPT !.pc = "awaiting"]
           /\ \A v \in Users : \A k \in Keys :
                 history'[v][k] = IF v = Owner[i.record] /\ k = <<i.record, i.kind>>
                                    THEN "pending" ELSE history[v][k]
  <2>1. /\ loop'.pc = "awaiting" /\ loop'.todo = {} /\ loop'.due = loop.due
        /\ loop'.asOf = loop.asOf
    BY <1>1, <1>2, <1>6 DEF Loops
  <2>2. \A r \in Records : \A k \in Kinds :
            Row(r, k)' = IF r = i.record /\ k = i.kind THEN "pending" ELSE Row(r, k)
    <3> SUFFICES ASSUME NEW r \in Records, NEW k \in Kinds
                 PROVE  Row(r, k)' = IF r = i.record /\ k = i.kind THEN "pending" ELSE Row(r, k)
      OBVIOUS
    <3>1. <<r, k>> \in Keys /\ Owner[r] \in Users
      BY ItemTypes
    <3>2. QED
      BY <1>6, <3>1 DEF Row
  <2>3. \A j \in loop.due : j # i => Row(j.record, j.kind)' = NoRow
    BY <1>3, <1>4, <2>2 DEF SameKey
  <2>4. Collected'
    <3>1. \A j \in loop'.due : j.record \notin loop'.todo
      BY <2>1
    <3>2. \A j \in loop'.due : InFlight(j)' <=> j = i
      BY <1>1, <2>1, <2>2, <2>3 DEF InFlight, Row, NoRow
    <3>3. \A j \in loop'.due : \A k \in loop'.due :
              SameKey(j, k) \/ (InFlight(j)' /\ InFlight(k)') => j = k
      BY <1>4, <2>1, <3>2
    <3>4. \A j \in loop'.due : Row(j.record, j.kind)' = NoRow \/ InFlight(j)'
      BY <2>1, <2>3, <3>2
    <3>5. QED
      BY <2>1, <3>1, <3>3, <3>4 DEF Collected, Scanning, SameKey
  <2>5. Logged'
    <3>1. \A e \in log : Row(e.item.record, e.item.kind)' # NoRow
      BY <2>2, ItemTypes DEF ItemsInv, Logged, NoRow
    <3>2. QED
      BY <1>2, <2>1, <3>1 DEF ItemsInv, Logged, SameKey
  <2>6. QED
    BY <1>5, <2>4, <2>5 DEF ItemsInv
<1>7. CASE loop' = [loop EXCEPT !.due = @ \ {i}] /\ history' = history
  <2>1. /\ loop'.pc = "sending" /\ loop'.todo = {} /\ loop'.due = loop.due \ {i}
        /\ loop'.asOf = loop.asOf
    BY <1>1, <1>2, <1>7 DEF Loops
  <2>2. Collected'
    BY <1>3, <1>4, <1>7, <2>1 DEF Collected, Scanning, InFlight, Row, SameKey
  <2>3. Logged'
    BY <1>2, <1>7, <2>1 DEF ItemsInv, Logged, Row, SameKey
  <2>4. QED
    BY <1>5, <2>2, <2>3 DEF ItemsInv
<1>8. QED
  BY <1>6, <1>7, SendItemFacts

\* What arrives is the one item in flight, and every earlier copy was the same.
LEMMA ArrivesItems ==
    ASSUME TypeOK, ItemsInv, NEW i \in loop.due, Arrives(i)
    PROVE  ItemsInv'
<1>1. /\ InFlight(i) /\ log' = log \cup {[item |-> i, asOf |-> loop.asOf]}
      /\ UNCHANGED <<record, history, loop, changed>>
  BY DEF Arrives
<1>2. Collected' /\ Current'
  BY <1>1 DEF ItemsInv, Collected, Current, InFlight, Scanning, Row
<1>3. Row(i.record, i.kind) # NoRow
  BY <1>1 DEF InFlight, Row, NoRow
<1>4. \A j \in loop.due : SameKey(i, j) => i = j
  BY DEF ItemsInv, Collected
<1>5. Logged'
  <2> SUFFICES ASSUME NEW e \in log \cup {[item |-> i, asOf |-> loop.asOf]}
               PROVE  /\ Row(e.item.record, e.item.kind) # NoRow
                      /\ \A j \in loop.due : SameKey(e.item, j) => e.item = j /\ e.asOf = loop.asOf
    BY <1>1 DEF Logged, Row, SameKey
  <2>1. CASE e \in log
    BY <2>1 DEF ItemsInv, Logged
  <2>2. CASE e = [item |-> i, asOf |-> loop.asOf]
    BY <1>3, <1>4, <2>2
  <2>3. QED
    BY <2>1, <2>2
<1>6. \A e \in log : SameKey(e.item, i) => e.item = i /\ e.asOf = loop.asOf
  BY DEF ItemsInv, Logged
<1>7. OneScanPerReminder'
  <2> DEFINE new == [item |-> i, asOf |-> loop.asOf]
  <2> SUFFICES ASSUME NEW e \in log \cup {new}, NEW f \in log \cup {new},
                      e.item.record = f.item.record, e.item.kind = f.item.kind
               PROVE  e.item = f.item /\ e.asOf = f.asOf
    BY <1>1 DEF OneScanPerReminder
  <2>1. CASE e \in log /\ f \in log
    BY <2>1 DEF ItemsInv, OneScanPerReminder
  <2>2. CASE e \in log /\ f = new
    BY <1>6, <2>2 DEF SameKey
  <2>3. CASE e = new /\ f \in log
    BY <1>6, <2>3 DEF SameKey
  <2>4. CASE e = new /\ f = new
    BY <2>4
  <2>5. QED
    BY <2>1, <2>2, <2>3, <2>4
<1>8. QED
  BY <1>2, <1>5, <1>7 DEF ItemsInv

\* The end of a send takes the item in flight away and leaves its row taken.
LEMMA SentItems ==
    ASSUME TypeOK, ItemsInv, NEW i \in loop.due, InFlight(i),
           loop' = [loop EXCEPT !.pc = "sending", !.due = @ \ {i}],
           UNCHANGED <<record, log, changed>>,
           \A r \in Records : \A k \in Kinds :
               /\ Row(r, k) # NoRow => Row(r, k)' # NoRow
               /\ r # i.record \/ k # i.kind => Row(r, k)' = Row(r, k)
    PROVE  ItemsInv'
<1>1. /\ loop.pc = "awaiting" /\ loop.todo = {}
      /\ loop'.pc = "sending" /\ loop'.todo = {} /\ loop'.due = loop.due \ {i}
      /\ loop'.asOf = loop.asOf
  BY DEF ItemsInv, Collected, InFlight, TypeOK, Loops
<1>2. ASSUME NEW j \in loop.due, j # i PROVE Row(j.record, j.kind)' = NoRow
  <2>1. ~ SameKey(i, j) /\ ~ InFlight(j)
    BY <1>2 DEF ItemsInv, Collected
  <2>2. Row(j.record, j.kind) = NoRow
    BY <2>1 DEF ItemsInv, Collected
  <2>3. j.record \in Records /\ j.kind \in Kinds
    BY ItemTypes
  <2>4. QED
    BY <2>1, <2>2, <2>3 DEF SameKey
<1>3. Collected'
  <2>1. \A j \in loop.due : \A k \in loop.due : SameKey(j, k) => j = k
    BY DEF ItemsInv, Collected
  <2>2. QED
    BY <1>1, <1>2, <2>1 DEF Collected, Scanning, InFlight, SameKey
<1>4. Logged'
  <2>1. \A e \in log : Row(e.item.record, e.item.kind)' # NoRow
    BY ItemTypes DEF ItemsInv, Logged
  <2>2. QED
    BY <1>1, <2>1 DEF ItemsInv, Logged, SameKey
<1>5. Current' /\ OneScanPerReminder'
  BY <1>1 DEF ItemsInv, Current, OneScanPerReminder
<1>6. QED
  BY <1>3, <1>4, <1>5 DEF ItemsInv

\* A booking that changes during a scan is noted.
LEMMA WorldItems ==
    ASSUME TypeOK, ItemsInv, UNCHANGED <<loop, history, log>>,
           \A r \in Records :
               \/ record'[r] = record[r] /\ (r \in changed => r \in changed')
               \/ record[r] = NoBooking /\ changed' = changed
               \/ ~ Scanning \/ r \in changed'
    PROVE  ItemsInv'
<1>1. Collected' /\ Logged' /\ OneScanPerReminder'
  BY DEF ItemsInv, Collected, Logged, OneScanPerReminder, Row, InFlight, Scanning
<1>2. Current'
  <2> SUFFICES ASSUME NEW i \in loop.due
               PROVE  \/ record'[i.record] = [active |-> TRUE, at |-> i.at]
                      \/ i.record \in changed'
    BY DEF Current
  <2>1. Scanning /\ i.record \in Records
    BY ItemTypes DEF ItemsInv, Collected
  <2>2. record[i.record] = [active |-> TRUE, at |-> i.at] \/ i.record \in changed
    BY DEF ItemsInv, Current
  <2>3. record[i.record] = NoBooking => record[i.record] # [active |-> TRUE, at |-> i.at]
    BY DEF NoBooking
  <2>4. QED
    BY <2>1, <2>2, <2>3
<1>3. QED
  BY <1>1, <1>2 DEF ItemsInv

\* The rows after a fetch that finds nothing to remind of.
LEMMA FetchOverRows ==
    ASSUME TypeOK, NEW r \in Records, FetchOver(r)
    PROVE  \A s \in Records : \A k \in Kinds :
               Row(s, k)' = IF s = r /\ Row(s, k) = NoRow THEN "skipped" ELSE Row(s, k)
<1> SUFFICES ASSUME NEW s \in Records, NEW k \in Kinds
             PROVE  Row(s, k)' = IF s = r /\ Row(s, k) = NoRow THEN "skipped" ELSE Row(s, k)
  OBVIOUS
<1>1. history' = SkipBoth(r) /\ history \in Tables
  BY DEF FetchOver, Fetched, TypeOK
<1>2. <<s, k>> \in Keys /\ Owner[s] \in Users
  BY ItemTypes
<1>3. SkipBoth(r)[Owner[s]][<<s, k>>] =
          IF Owner[s] = Owner[r] /\ <<s, k>>[1] = r /\ history[Owner[s]][<<s, k>>] = NoRow
            THEN "skipped" ELSE history[Owner[s]][<<s, k>>]
  BY <1>1, <1>2, SkipRows
<1>4. QED
  BY <1>1, <1>3 DEF Row

\* The rows after a send.
LEMMA SendDoneRows ==
    ASSUME TypeOK, NEW i \in loop.due, NEW outcome \in EndOutcomes, SendDone(i, outcome)
    PROVE  /\ \A r \in Records : \A k \in Kinds :
                  Row(r, k)' = IF r = i.record /\ k = i.kind THEN outcome ELSE Row(r, k)
           /\ outcome # NoRow
<1>1. ASSUME NEW r \in Records, NEW k \in Kinds
      PROVE  Row(r, k)' = IF r = i.record /\ k = i.kind THEN outcome ELSE Row(r, k)
  <2>1. /\ <<r, k>> \in Keys /\ Owner[r] \in Users
        /\ <<r, k>> = <<i.record, i.kind>> <=> r = i.record /\ k = i.kind
    BY ItemTypes
  <2>2. history'[Owner[r]][<<r, k>>] =
            IF Owner[r] = Owner[i.record] /\ <<r, k>> = <<i.record, i.kind>>
              THEN outcome ELSE history[Owner[r]][<<r, k>>]
    <3>1. \A v \in Users : \A key \in Keys :
              history'[v][key] = IF v = Owner[i.record] /\ key = <<i.record, i.kind>>
                                   THEN outcome ELSE history[v][key]
      BY SendDoneFacts
    <3>2. QED
      BY <2>1, <3>1
  <2>3. QED
    BY <2>1, <2>2 DEF Row
<1>2. QED
  BY <1>1, SendDoneFacts

\* Every step keeps the invariant of the items.
LEMMA ItemsStep ==
    ASSUME TypeOK, ItemsInv, [Next]_vars
    PROVE  ItemsInv'
<1>1. CASE Start \/ Wake \/ ScanFails \/ ScanDone \/ Stop
  BY <1>1, EmptiedItems DEF Start, Wake
<1>2. ASSUME NEW r \in Records, PassOver(r) PROVE ItemsInv'
  BY <1>2, FetchedNothing DEF PassOver, Fetched, Row
<1>3. ASSUME NEW r \in Records, FetchOver(r) PROVE ItemsInv'
  <2>1. loop.pc = "fetching" /\ r \in loop.todo /\ Fetched(r, {}, SkipBoth(r))
    BY <1>3 DEF FetchOver
  <2>2. \A s \in Records : \A k \in Kinds :
            s # r \/ Row(s, k) # NoRow => Row(s, k)' = Row(s, k)
    BY <1>3, FetchOverRows
  <2>3. QED
    BY <2>1, <2>2, FetchedNothing
<1>4. ASSUME NEW r \in Records, FetchActive(r) PROVE ItemsInv'
  BY <1>4, FetchActiveItems
<1>5. CASE FetchesDone
  BY <1>5, FetchesDoneItems
<1>6. ASSUME NEW i \in loop.due, SendItem(i) \/ Arrives(i) PROVE ItemsInv'
  BY <1>6, SendItemItems, ArrivesItems
<1>7. ASSUME NEW i \in loop.due, SendRaises(i) PROVE ItemsInv'
  BY <1>7, SentItems DEF SendRaises, Row
<1>8. ASSUME NEW i \in loop.due, NEW outcome \in EndOutcomes, SendDone(i, outcome)
      PROVE  ItemsInv'
  <2>1. /\ InFlight(i) /\ loop' = [loop EXCEPT !.pc = "sending", !.due = @ \ {i}]
        /\ UNCHANGED <<record, log, changed>>
    BY <1>8 DEF SendDone
  <2>2. \A r \in Records : \A k \in Kinds :
            /\ Row(r, k) # NoRow => Row(r, k)' # NoRow
            /\ r # i.record \/ k # i.kind => Row(r, k)' = Row(r, k)
    BY <1>8, SendDoneRows
  <2>3. QED
    BY <2>1, <2>2, SentItems
<1>9. ASSUME NEW r \in Records, NEW at \in Times, NEW saved \in BOOLEAN, Book(r, at, saved)
      PROVE  ItemsInv'
  <2>1. \A s \in Records : record'[s] = record[s] \/ record[s] = NoBooking
    BY <1>9 DEF Book, TypeOK
  <2>2. UNCHANGED <<loop, history, log, changed>>
    BY <1>9 DEF Book
  <2>3. QED
    BY <2>1, <2>2, WorldItems
<1>10. ASSUME NEW r \in Records, NEW booking \in Bookings, Change(r, booking) PROVE ItemsInv'
  <2>1. \A s \in Records : s # r => record'[s] = record[s]
    BY <1>10 DEF Change, TypeOK
  <2>2. changed' = (IF Scanning THEN changed \cup {r} ELSE changed)
        /\ UNCHANGED <<loop, history, log>>
    BY <1>10 DEF Change
  <2>3. \A s \in Records :
            \/ record'[s] = record[s] /\ (s \in changed => s \in changed')
            \/ record[s] = NoBooking /\ changed' = changed
            \/ ~ Scanning \/ s \in changed'
    BY <2>1, <2>2
  <2>4. QED
    BY <2>2, <2>3, WorldItems
<1>11. CASE Tick \/ UNCHANGED vars
  <2>1. UNCHANGED <<loop, history, log, record, changed>>
    BY <1>11 DEF Tick, vars
  <2>2. QED
    BY <2>1, WorldItems
<1>12. QED
  BY <1>1, <1>2, <1>3, <1>4, <1>5, <1>6, <1>7, <1>8, <1>9, <1>10, <1>11 DEF Next

-----------------------------------------------------------------------------
(* What the scans have done *)

\* What the types say about numbers and records.
LEMMA TimeTypes ==
    ASSUME TypeOK
    PROVE  /\ now \in Nat /\ loop.asOf \in Nat /\ loop.wake \in Nat /\ Base \in Int
           /\ \A r \in Records : calm[r] \in 0 .. Patience /\ calm[r] \in Nat
           /\ \A r \in Records : record[r].at \in Int /\ record[r].active \in BOOLEAN
           /\ \A r \in Records : \A k \in Kinds : Opening(r, k) \in Int
<1>1. now \in Nat /\ loop.asOf \in Nat /\ loop.wake \in Nat
  BY Numbers DEF TypeOK, Loops
<1>2. Base \in Int
  BY <1>1, Numbers DEF Base
<1>3. \A r \in Records : calm[r] \in 0 .. Patience /\ calm[r] \in Nat
  BY Numbers DEF TypeOK
<1>4. ASSUME NEW r \in Records PROVE record[r].at \in Int /\ record[r].active \in BOOLEAN
  <2>1. record[r] \in Bookings \/ record[r] = NoBooking
    BY DEF TypeOK
  <2>2. CASE record[r] \in Bookings
    <3>1. record[r].at \in Times /\ record[r].active \in BOOLEAN
      BY <2>2 DEF Bookings
    <3>2. record[r].at \in Int
      BY <3>1, Numbers
    <3>3. QED
      BY <3>1, <3>2
  <2>3. CASE record[r] = NoBooking
    <3>1. record[r].active = FALSE
      BY <2>3 DEF NoBooking
    <3>2. record[r].at = 0
      BY <2>3 DEF NoBooking
    <3>3. record[r].at \in Int
      BY <3>2
    <3>4. record[r].active \in BOOLEAN
      BY <3>1
    <3>5. QED
      BY <3>3, <3>4
  <2>4. QED
    BY <2>1, <2>2, <2>3
<1>5. \A r \in Records : \A k \in Kinds : Opening(r, k) \in Int
  BY <1>4, Numbers DEF Opening
<1>6. QED
  BY <1>1, <1>2, <1>3, <1>4, <1>5

\* A kind is due from its latest opening on.
LEMMA OpenIsDue ==
    ASSUME TypeOK, NEW r \in Records, NEW k \in Kinds,
           record[r].at > loop.asOf, Opening(r, k) <= loop.asOf
    PROVE  k \in DueKinds(record[r].at, loop.asOf)
<1>1. record[r].at \in Int /\ loop.asOf \in Int
  BY TimeTypes
<1>2. CASE k = "soon"
  BY <1>1, <1>2, Numbers DEF Opening, DueKinds
<1>3. CASE k = "confirmation"
  <2>1. record[r].at - Fallback <= loop.asOf
    BY <1>3 DEF Opening
  <2>2. loop.asOf >= ConfirmationDue(record[r].at, loop.asOf)
    BY <1>1, <2>1, Numbers DEF ConfirmationDue
  <2>3. QED
    BY <1>3, <2>2 DEF DueKinds
<1>4. QED
  BY <1>2, <1>3 DEF Kinds

\* A booking added to the table pushes others out, never in.
LEMMA LatestShrinks ==
    ASSUME NEW s \in Seq(Records), NEW r \in Records, NEW q \in Records, q # r,
           NEW n \in Nat, q \in Latest(Append(s, r), n)
    PROVE  q \in Latest(s, n)
<1>1. PICK i \in DOMAIN Append(s, r) : i > Len(Append(s, r)) - n /\ Append(s, r)[i] = q
  BY DEF Latest
<1>2. Len(s) \in Nat /\ Len(Append(s, r)) = Len(s) + 1 /\ i \in 1 .. Len(s) + 1
  BY <1>1
<1>3. i # Len(s) + 1
  BY <1>1
<1>4. i \in 1 .. Len(s) /\ i > Len(s) - n /\ s[i] = q
  BY <1>1, <1>2, <1>3
<1>5. QED
  BY <1>4 DEF Latest

\* What the loop may have seen after a step it may have seen before it.
LEMMA SeenBefore ==
    ASSUME TypeOK, TypeOK', Quiet, [Next]_vars,
           NEW r \in Records, NEW t \in Int, t <= now, Seen(r, t)'
    PROVE  Seen(r, t) /\ record'[r] = record[r] /\ calm'[r] > 0
<1>1. /\ now \in Nat /\ now' \in Nat /\ calm[r] \in 0 .. Patience /\ calm'[r] \in 0 .. Patience
      /\ calm[r] \in Nat /\ calm'[r] \in Nat
  <2>1. now \in 0 .. Horizon /\ now' \in 0 .. Horizon
        /\ calm[r] \in 0 .. Patience /\ calm'[r] \in 0 .. Patience
    BY DEF TypeOK
  <2>2. QED
    BY <2>1, Numbers
<1>2. /\ r \in Latest(attributions, Limit)'
      /\ record'[r].active
      /\ calm'[r] > now' - t
  BY DEF Seen
<1>3. CASE UNCHANGED <<now, record, attributions>> /\ calm' = calm
  <2>1. record'[r] = record[r] /\ record[r].active /\ r \in Latest(attributions, Limit)
    BY <1>2, <1>3 DEF Latest
  <2>2. calm[r] > now - t /\ calm'[r] > 0
    BY <1>1, <1>2, <1>3
  <2>3. QED
    BY <2>1, <2>2 DEF Seen
<1>4. ASSUME NEW rs, Disturbed(rs), UNCHANGED <<now, attributions>>,
             \A s \in Records : s \notin rs => record'[s] = record[s]
      PROVE  Seen(r, t) /\ record'[r] = record[r] /\ calm'[r] > 0
  <2>1. calm'[r] = IF r \in rs THEN 0 ELSE calm[r]
    BY <1>4 DEF Disturbed
  <2>2. r \notin rs
    BY <1>1, <1>2, <1>4, <2>1
  <2>3. QED
    BY <1>1, <1>2, <1>4, <2>1, <2>2 DEF Seen, Latest
<1>5. ASSUME NEW q \in Records, NEW at \in Times, NEW saved \in BOOLEAN, Book(q, at, saved)
      PROVE  Seen(r, t) /\ record'[r] = record[r] /\ calm'[r] > 0
  <2>1. record[q] = NoBooking /\ UNCHANGED <<now, calm>>
        /\ record' = [record EXCEPT ![q] = [active |-> TRUE, at |-> at]]
        /\ attributions' = IF saved THEN Append(attributions, q) ELSE attributions
    BY <1>5 DEF Book
  <2>2. calm[q] = 0
    BY <2>1 DEF Quiet, NoBooking
  <2>3. r # q
    BY <1>1, <1>2, <2>1, <2>2
  <2>4. record'[r] = record[r]
    BY <2>1, <2>3 DEF TypeOK
  <2>5. r \in Latest(attributions, Limit)
    <3>1. CASE attributions' = attributions
      BY <1>2, <3>1 DEF Latest
    <3>2. CASE attributions' = Append(attributions, q)
      <4>1. r \in Latest(Append(attributions, q), Limit)
        BY <1>2, <3>2 DEF Latest
      <4>2. attributions \in Seq(Records) /\ Limit \in Nat
        BY Numbers DEF TypeOK
      <4>3. QED
        BY <2>3, <4>1, <4>2, LatestShrinks
    <3>3. QED
      BY <2>1, <3>1, <3>2
  <2>6. QED
    BY <1>1, <1>2, <2>1, <2>4, <2>5 DEF Seen
<1>6. CASE Tick
  <2>1. now' = now + 1 /\ UNCHANGED <<record, attributions, loop>>
        /\ calm'[r] = IF loop.pc # "off" /\ record[r].active /\ calm[r] < Patience
                        THEN calm[r] + 1 ELSE calm[r]
    BY <1>6 DEF Tick
  <2>2. loop.pc = "off" => calm[r] = 0
    BY DEF Quiet
  <2>3. calm[r] > now - t
    BY <1>1, <1>2, <2>1, <2>2
  <2>4. calm'[r] > 0
    BY <1>1, <1>2, <2>1
  <2>5. QED
    BY <1>2, <2>1, <2>3, <2>4 DEF Seen, Latest
<1>7. ASSUME NEW q \in Records, NEW booking \in Bookings, Change(q, booking)
      PROVE  Seen(r, t) /\ record'[r] = record[r] /\ calm'[r] > 0
  BY <1>4, <1>7 DEF Change, TypeOK
<1>8. CASE \/ Start \/ Wake \/ FetchesDone \/ ScanDone \/ UNCHANGED vars
           \/ \E q \in Records : FetchOver(q) \/ FetchActive(q)
           \/ \E i \in loop.due : \/ SendItem(i) \/ Arrives(i) \/ SendRaises(i)
                                  \/ \E outcome \in EndOutcomes : SendDone(i, outcome)
  BY <1>3, <1>8 DEF Start, Wake, BeginScan, FetchesDone, ScanDone, vars, FetchOver, FetchActive,
                    Fetched, SendItem, Arrives, SendRaises, SendDone
<1>9. CASE ScanFails \/ Stop \/ \E q \in Records : PassOver(q)
  BY <1>4, <1>9 DEF ScanFails, Stop, PassOver, Fetched
<1>10. QED
  BY <1>5, <1>6, <1>7, <1>8, <1>9 DEF Next

\* A row is only ever added, and only under its record's owner.
LEMMA RowsStep ==
    ASSUME TypeOK, [Next]_vars, NEW u \in Users, NEW key \in Keys
    PROVE  \/ history'[u][key] = history[u][key]
           \/ history'[u][key] # NoRow /\ u = Owner[key[1]]
<1>1. ASSUME NEW r \in Records, FetchOver(r)
      PROVE  \/ history'[u][key] = history[u][key]
             \/ history'[u][key] # NoRow /\ u = Owner[key[1]]
  <2>1. history' = SkipBoth(r) /\ history \in Tables
    BY <1>1 DEF FetchOver, Fetched, TypeOK
  <2>2. history'[u][key] = IF u = Owner[r] /\ key[1] = r /\ history[u][key] = NoRow
                             THEN "skipped" ELSE history[u][key]
    BY <2>1, SkipRows
  <2>3. QED
    BY <2>2 DEF NoRow
<1>2. ASSUME NEW i \in loop.due, SendItem(i)
      PROVE  \/ history'[u][key] = history[u][key]
             \/ history'[u][key] # NoRow /\ u = Owner[key[1]]
  <2>1. \/ history' = history
        \/ \A v \in Users : \A k \in Keys :
              history'[v][k] = IF v = Owner[i.record] /\ k = <<i.record, i.kind>>
                                 THEN "pending" ELSE history[v][k]
    BY <1>2, SendItemFacts
  <2>2. \/ history'[u][key] = history[u][key]
        \/ history'[u][key] = IF u = Owner[i.record] /\ key = <<i.record, i.kind>>
                                THEN "pending" ELSE history[u][key]
    BY <2>1
  <2>3. QED
    BY <2>2 DEF NoRow
<1>3. ASSUME NEW i \in loop.due, NEW outcome \in EndOutcomes, SendDone(i, outcome)
      PROVE  \/ history'[u][key] = history[u][key]
             \/ history'[u][key] # NoRow /\ u = Owner[key[1]]
  <2>1. /\ outcome # NoRow
        /\ \A v \in Users : \A k \in Keys :
              history'[v][k] = IF v = Owner[i.record] /\ k = <<i.record, i.kind>>
                                 THEN outcome ELSE history[v][k]
    BY <1>3, SendDoneFacts
  <2>2. history'[u][key] = IF u = Owner[i.record] /\ key = <<i.record, i.kind>>
                             THEN outcome ELSE history[u][key]
    BY <2>1
  <2>3. QED
    BY <2>1, <2>2
<1>4. CASE \/ Start \/ Wake \/ FetchesDone \/ ScanFails \/ ScanDone \/ Stop \/ Tick
           \/ UNCHANGED vars
  BY <1>4 DEF Start, Wake, BeginScan, FetchesDone, ScanFails, ScanDone, Stop, Tick, vars
<1>5. CASE \E r \in Records : \/ PassOver(r) \/ FetchActive(r)
                              \/ \E at \in Times, saved \in BOOLEAN : Book(r, at, saved)
                              \/ \E booking \in Bookings : Change(r, booking)
  BY <1>5 DEF PassOver, FetchActive, Fetched, Book, Change
<1>6. CASE \E i \in loop.due : Arrives(i) \/ SendRaises(i)
  BY <1>6 DEF Arrives, SendRaises
<1>7. QED
  BY <1>1, <1>2, <1>3, <1>4, <1>5, <1>6 DEF Next

\* A reminder that is decided stays decided.
LEMMA DecidedStays ==
    ASSUME TypeOK, [Next]_vars, NEW r \in Records, NEW k \in Kinds, Decided(r, k)
    PROVE  Decided(r, k)'
<1>1. <<r, k>> \in Keys /\ Owner[r] \in Users
  BY ItemTypes
<1>2. \/ history'[Owner[r]][<<r, k>>] = history[Owner[r]][<<r, k>>]
      \/ history'[Owner[r]][<<r, k>>] # NoRow
  BY <1>1, RowsStep
<1>3. QED
  BY <1>2 DEF Decided

LEMMA OwnersOnlyStep ==
    ASSUME TypeOK, OwnersOnly, [Next]_vars
    PROVE  OwnersOnly'
<1> SUFFICES ASSUME NEW u \in Users, NEW key \in Keys, history'[u][key] # NoRow
             PROVE  u = Owner[key[1]]
  BY DEF OwnersOnly
<1>1. history'[u][key] = history[u][key] \/ u = Owner[key[1]]
  BY RowsStep
<1>2. QED
  BY <1>1 DEF OwnersOnly

\* The steps of a scan that neither begin nor end it.
Inner ==
    \/ FetchesDone
    \/ \E r \in Records : PassOver(r) \/ FetchOver(r) \/ FetchActive(r)
    \/ \E i \in loop.due : \/ SendItem(i) \/ Arrives(i) \/ SendRaises(i)
                           \/ \E outcome \in EndOutcomes : SendDone(i, outcome)

\* The clock, YClients and the booking flow.
World ==
    \/ Tick
    \/ \E r \in Records : \/ \E at \in Times, saved \in BOOLEAN : Book(r, at, saved)
                          \/ \E booking \in Bookings : Change(r, booking)
    \/ UNCHANGED vars

\* A scan begins when there is no loop or when the loop wakes.
Begins ==
    /\ loop.pc = "off" \/ (loop.pc = "sleeping" /\ now >= loop.wake)
    /\ BeginScan
    /\ calm' = calm

LEMMA NextSplits ==
    [Next]_vars => Begins \/ ScanFails \/ ScanDone \/ Stop \/ Inner \/ World
<1> SUFFICES ASSUME [Next]_vars
             PROVE  Begins \/ ScanFails \/ ScanDone \/ Stop \/ Inner \/ World
  OBVIOUS
<1>1. CASE Start \/ Wake
  BY <1>1 DEF Start, Wake, Begins
<1>2. CASE ScanFails \/ ScanDone \/ Stop
  BY <1>2
<1>3. CASE FetchesDone \/ Tick \/ UNCHANGED vars
  BY <1>3 DEF Inner, World
<1>4. CASE \E r \in Records :
              \/ PassOver(r) \/ FetchOver(r) \/ FetchActive(r)
              \/ \E at \in Times, saved \in BOOLEAN : Book(r, at, saved)
              \/ \E booking \in Bookings : Change(r, booking)
  BY <1>4 DEF Inner, World
<1>5. CASE \E i \in loop.due : \/ SendItem(i) \/ Arrives(i) \/ SendRaises(i)
                               \/ \E outcome \in EndOutcomes : SendDone(i, outcome)
  BY <1>5 DEF Inner
<1>6. QED
  BY <1>1, <1>2, <1>3, <1>4, <1>5 DEF Next

LEMMA InnerFacts ==
    ASSUME TypeOK, Inner
    PROVE  /\ Scanning /\ Scanning'
           /\ loop'.asOf = loop.asOf /\ UNCHANGED <<now, record, attributions>>
<1>1. loop \in Loops
  BY DEF TypeOK
<1>2. CASE FetchesDone
  BY <1>1, <1>2 DEF FetchesDone, Loops, Scanning
<1>3. ASSUME NEW r \in Records, NEW items, NEW table, loop.pc = "fetching",
             Fetched(r, items, table)
      PROVE  /\ Scanning /\ Scanning'
             /\ loop'.asOf = loop.asOf /\ UNCHANGED <<now, record, attributions>>
  BY <1>1, <1>3 DEF Fetched, Loops, Scanning
<1>4. ASSUME NEW i \in loop.due, SendItem(i)
      PROVE  /\ Scanning /\ Scanning'
             /\ loop'.asOf = loop.asOf /\ UNCHANGED <<now, record, attributions>>
  BY <1>1, <1>4 DEF SendItem, Loops, Scanning
<1>5. CASE \E i \in loop.due : Arrives(i) \/ SendRaises(i)
  BY <1>1, <1>5 DEF Arrives, SendRaises, InFlight, Loops, Scanning
<1>6. ASSUME NEW i \in loop.due, NEW outcome \in EndOutcomes, SendDone(i, outcome)
      PROVE  /\ Scanning /\ Scanning'
             /\ loop'.asOf = loop.asOf /\ UNCHANGED <<now, record, attributions>>
  BY <1>1, <1>6 DEF SendDone, InFlight, Loops, Scanning
<1>7. CASE \E r \in Records : PassOver(r) \/ FetchOver(r) \/ FetchActive(r)
  BY <1>3, <1>7 DEF PassOver, FetchOver, FetchActive
<1>8. QED
  BY <1>2, <1>4, <1>5, <1>6, <1>7 DEF Inner

\* The loop after a step that begins or ends a scan.
LEMMA LoopFacts ==
    /\ BeginScan => loop' = [pc |-> "fetching", asOf |-> now, todo |-> Latest(attributions, Limit),
                             due |-> {}, wake |-> 0]
    /\ ScanFails \/ ScanDone => loop' = [pc |-> "sleeping", asOf |-> 0, todo |-> {}, due |-> {},
                                         wake |-> now + Interval]
    /\ Stop => loop' = [pc |-> "off", asOf |-> 0, todo |-> {}, due |-> {}, wake |-> 0]
<1>1. BeginScan => loop' = [pc |-> "fetching", asOf |-> now, todo |-> Latest(attributions, Limit),
                            due |-> {}, wake |-> 0]
  BY DEF BeginScan, Off
<1>2. ScanFails \/ ScanDone => loop' = [pc |-> "sleeping", asOf |-> 0, todo |-> {}, due |-> {},
                                        wake |-> now + Interval]
  BY DEF ScanFails, ScanDone, Off
<1>3. Stop => loop' = [pc |-> "off", asOf |-> 0, todo |-> {}, due |-> {}, wake |-> 0]
  BY DEF Stop, Off
<1>4. QED
  BY <1>1, <1>2, <1>3

LEMMA WorldFacts ==
    ASSUME World
    PROVE  UNCHANGED <<loop, history>> /\ (now' = now \/ Tick)
  BY DEF World, Tick, Book, Change, vars

\* A scan that takes too long, or a loop that oversleeps, holds the clock.
LEMMA ClockStep ==
    ASSUME TypeOK, Clock, [Next]_vars
    PROVE  Clock'
<1>1. now \in Nat /\ loop.asOf \in Nat /\ loop.wake \in Nat
      /\ MaxScan \in Nat /\ Interval \in Nat
  BY TimeTypes, Numbers
<1>2. CASE Begins
  <2>1. loop'.pc = "fetching" /\ loop'.asOf = now /\ now' = now
    <3>1. BeginScan
      BY <1>2 DEF Begins
    <3>2. QED
      BY <3>1, LoopFacts DEF BeginScan
  <2>2. QED
    BY <1>1, <2>1 DEF Clock, Scanning
<1>3. CASE ScanFails \/ ScanDone
  <2>1. loop'.pc = "sleeping" /\ loop'.wake = now + Interval /\ now' = now
    BY <1>3, LoopFacts DEF ScanFails, ScanDone
  <2>2. QED
    BY <1>1, <2>1 DEF Clock, Scanning
<1>4. CASE Stop
  BY <1>4, LoopFacts DEF Clock, Scanning
<1>5. CASE Inner
  BY <1>1, <1>5, InnerFacts DEF Clock, Scanning
<1>6. CASE World
  <2>1. CASE UNCHANGED <<loop, now>>
    BY <2>1 DEF Clock, Scanning
  <2>2. CASE Tick
    <3>1. /\ now' = now + 1 /\ loop' = loop
          /\ loop.pc = "sleeping" => now < loop.wake
          /\ Scanning => now < loop.asOf + MaxScan
      BY <2>2 DEF Tick
    <3>2. QED
      BY <1>1, <3>1 DEF Clock, Scanning
  <2>3. QED
    BY <1>6, <2>1, <2>2, WorldFacts
<1>7. QED
  BY <1>2, <1>3, <1>4, <1>5, <1>6, NextSplits

\* A booking that is made or moved, and a scan that misses it, begin the peace
\* anew.
LEMMA QuietStep ==
    ASSUME TypeOK, Quiet, [Next]_vars
    PROVE  Quiet'
<1>1. ASSUME loop'.pc = "off" => loop.pc = "off",
             \A r \in Records : /\ record'[r] = record[r] \/ record'[r].active
                                /\ calm'[r] = calm[r] \/ calm'[r] = 0
      PROVE  Quiet'
  BY <1>1 DEF Quiet
<1>2. ASSUME NEW rs, Disturbed(rs), NEW r \in Records
      PROVE  (calm'[r] = calm[r] \/ calm'[r] = 0) /\ (r \in rs => calm'[r] = 0)
  BY <1>2 DEF Disturbed
<1>3. CASE Begins
  <2>1. loop'.pc = "fetching" /\ UNCHANGED <<record, calm>>
    <3>1. BeginScan /\ calm' = calm
      BY <1>3 DEF Begins
    <3>2. QED
      BY <3>1, LoopFacts DEF BeginScan
  <2>2. QED
    BY <1>1, <2>1
<1>4. CASE ScanFails \/ Stop
  BY <1>2, <1>4 DEF ScanFails, Stop, Quiet
<1>5. CASE ScanDone
  <2>1. loop'.pc = "sleeping" /\ UNCHANGED <<record, calm>>
    BY <1>5, LoopFacts DEF ScanDone
  <2>2. QED
    BY <1>1, <2>1
<1>6. CASE Inner
  <2>1. loop'.pc # "off" /\ record' = record
    BY <1>6, InnerFacts DEF Scanning
  <2>2. calm' = calm \/ \E rs \in SUBSET Records : Disturbed(rs)
    BY <1>6 DEF Inner, FetchesDone, PassOver, FetchOver, FetchActive, SendItem, Arrives,
                SendRaises, SendDone
  <2>3. QED
    BY <1>1, <1>2, <2>1, <2>2
<1>7. CASE World
  <2>1. loop' = loop
    BY <1>7, WorldFacts
  <2>2. ASSUME NEW r \in Records, NEW at \in Times, NEW saved \in BOOLEAN, Book(r, at, saved)
        PROVE  Quiet'
    <3>1. calm' = calm /\ record' = [record EXCEPT ![r] = [active |-> TRUE, at |-> at]]
      BY <2>2 DEF Book
    <3>2. \A q \in Records : record'[q] = record[q] \/ record'[q].active
      BY <3>1 DEF TypeOK
    <3>3. QED
      BY <1>1, <2>1, <3>1, <3>2
  <2>3. ASSUME NEW r \in Records, NEW booking \in Bookings, Change(r, booking)
        PROVE  Quiet'
    <3>1. Disturbed({r}) /\ record' = [record EXCEPT ![r] = booking]
      BY <2>3 DEF Change
    <3>2. \A q \in Records : q # r => record'[q] = record[q]
      BY <3>1 DEF TypeOK
    <3>3. calm'[r] = 0
      BY <1>2, <3>1
    <3>4. \A q \in Records : calm'[q] = calm[q] \/ calm'[q] = 0
      BY <1>2, <3>1
    <3>5. QED
      BY <2>1, <3>2, <3>3, <3>4 DEF Quiet
  <2>4. CASE Tick
    <3>1. /\ record' = record
          /\ \A r \in Records : loop.pc = "off" \/ ~ record[r].active => calm'[r] = calm[r]
      BY <2>4 DEF Tick
    <3>2. QED
      BY <2>1, <3>1 DEF Quiet
  <2>5. CASE UNCHANGED vars
    BY <2>5 DEF vars, Quiet
  <2>6. QED
    BY <1>7, <2>2, <2>3, <2>4, <2>5 DEF World
<1>8. QED
  BY <1>3, <1>4, <1>5, <1>6, <1>7, NextSplits

\* While Base stays, so does what has been decided.
LEMMA SweptStays ==
    ASSUME TypeOK, TypeOK', Quiet, Swept, [Next]_vars, loop.pc # "off",
           Base' = Base, Base <= now
    PROVE  Swept'
<1> SUFFICES ASSUME NEW r \in Records, NEW k \in Kinds, Seen(r, Base)', Opening(r, k)' <= Base'
             PROVE  Decided(r, k)'
  BY DEF Swept
<1>1. PICK t \in Int : t = Base
  BY TimeTypes
<1>2. Seen(r, t)'
  BY <1>1 DEF Seen
<1>3. Seen(r, t) /\ record'[r] = record[r]
  BY <1>1, <1>2, SeenBefore
<1>4. Opening(r, k) <= Base /\ Seen(r, Base)
  BY <1>1, <1>3 DEF Opening, Seen
<1>5. Decided(r, k)
  BY <1>4 DEF Swept
<1>6. QED
  BY <1>5, DecidedStays

\* A scan that begins finds what the last one has done; a scan that ends has
\* done what it had in hand.
LEMMA SweptStep ==
    ASSUME TypeOK, TypeOK', ItemsInv, TimeInv, [Next]_vars
    PROVE  Swept'
<1>1. /\ now \in Nat /\ loop.asOf \in Nat /\ loop.wake \in Nat /\ Base \in Int
      /\ MaxScan \in Nat /\ Interval \in Nat
  BY TimeTypes, Numbers
<1>2. Clock /\ Quiet /\ Swept /\ InScan
  BY DEF TimeInv
<1>3. loop.pc # "off" => Base <= now
  <2>1. CASE loop.pc = "sleeping"
    BY <1>1, <1>2, <2>1 DEF Clock, Base
  <2>2. CASE loop.pc \notin {"off", "sleeping"}
    <3>1. Scanning
      BY <2>2 DEF Scanning, TypeOK, Loops
    <3>2. QED
      BY <1>1, <1>2, <2>2, <3>1 DEF Clock, Base
  <2>3. QED
    BY <2>1, <2>2
<1>4. CASE Begins
  <2>1. /\ loop'.pc = "fetching" /\ loop'.asOf = now
        /\ UNCHANGED <<now, attributions, record, calm>>
    <3>1. BeginScan /\ calm' = calm
      BY <1>4 DEF Begins
    <3>2. QED
      BY <3>1, LoopFacts DEF BeginScan
  <2>2. Base' = now - Interval - MaxScan
    BY <2>1 DEF Base
  <2>3. CASE loop.pc = "off"
    <3>1. ASSUME NEW r \in Records PROVE ~ Seen(r, Base)'
      <4>1. calm'[r] = 0
        BY <1>2, <2>1, <2>3 DEF Quiet
      <4>2. ~ (0 > now - (now - Interval - MaxScan))
        BY <1>1
      <4>3. QED
        BY <2>1, <2>2, <4>1, <4>2 DEF Seen
    <3>2. QED
      BY <3>1 DEF Swept
  <2>4. CASE loop.pc = "sleeping" /\ now >= loop.wake
    <3>1. now = loop.wake
      BY <1>1, <1>2, <2>4 DEF Clock
    <3>2. Base' = Base
      BY <2>2, <2>4, <3>1 DEF Base
    <3>3. QED
      BY <1>2, <1>3, <2>4, <3>2, SweptStays
  <2>5. QED
    BY <1>4, <2>3, <2>4 DEF Begins
<1>5. CASE ScanFails
  <2>1. /\ loop'.pc = "sleeping" /\ loop'.wake = now + Interval /\ now' = now
        /\ Disturbed(Records)
    BY <1>5, LoopFacts DEF ScanFails
  <2>2. Base' = now - MaxScan
    BY <1>1, <2>1 DEF Base
  <2>3. ASSUME NEW r \in Records PROVE ~ Seen(r, Base)'
    <3>1. calm'[r] = 0
      BY <2>1 DEF Disturbed
    <3>2. ~ (0 > now - (now - MaxScan))
      BY <1>1
    <3>3. QED
      BY <2>1, <2>2, <3>1, <3>2 DEF Seen
  <2>4. QED
    BY <2>3 DEF Swept
<1>6. CASE ScanDone
  <2>1. /\ loop.pc = "sending" /\ loop.due = {} /\ loop.todo = {} /\ Scanning
        /\ loop'.pc = "sleeping" /\ loop'.wake = now + Interval
        /\ UNCHANGED <<now, attributions, record, calm, history>>
    BY <1>6, LoopFacts DEF ScanDone, ItemsInv, Collected, Scanning
  <2>2. Base' = now - MaxScan /\ Base' <= loop.asOf /\ loop.asOf <= now
    BY <1>1, <1>2, <2>1 DEF Base, Clock
  <2>3. ASSUME NEW r \in Records, NEW k \in Kinds, Seen(r, Base)', Opening(r, k)' <= Base'
        PROVE  Decided(r, k)'
    <3>1. calm[r] > now - (now - MaxScan)
      BY <2>1, <2>2, <2>3 DEF Seen
    <3>2. calm[r] > now - loop.asOf
      BY <1>1, <2>2, <3>1, TimeTypes
    <3>3. Seen(r, loop.asOf)
      BY <2>1, <2>3, <3>2 DEF Seen, Latest
    <3>4. Opening(r, k)' = Opening(r, k)
      BY <2>1 DEF Opening
    <3>5. Opening(r, k) <= loop.asOf
      BY <1>1, <2>2, <2>3, <3>4, TimeTypes
    <3>6. Decided(r, k)
      BY <1>2, <2>1, <3>3, <3>5 DEF InScan
    <3>7. QED
      BY <2>1, <3>6 DEF Decided
  <2>4. QED
    BY <2>3 DEF Swept
<1>7. CASE Stop
  BY <1>7, LoopFacts DEF Swept
<1>8. CASE Inner
  <2>1. loop.pc # "off" /\ Base' = Base
    BY <1>8, InnerFacts DEF Base, Scanning
  <2>2. QED
    BY <1>2, <1>3, <2>1, SweptStays
<1>9. CASE World
  <2>1. loop' = loop /\ Base' = Base
    BY <1>9, WorldFacts DEF Base
  <2>2. CASE loop.pc = "off"
    BY <2>1, <2>2 DEF Swept
  <2>3. CASE loop.pc # "off"
    BY <1>2, <1>3, <2>1, <2>3, SweptStays
  <2>4. QED
    BY <2>2, <2>3
<1>10. QED
  BY <1>4, <1>5, <1>6, <1>7, <1>8, <1>9, NextSplits

\* The record's kind is decided, or the scan has still to fetch or to send it.
Handled(r, k) ==
    r \in loop.todo \/ Decided(r, k) \/ \E i \in loop.due : i.record = r /\ i.kind = k

\* A step of a running scan keeps InScan when it drops nothing undecided.
LEMMA InScanStays ==
    ASSUME TypeOK, TypeOK', Clock, Quiet, InScan, [Next]_vars, Scanning,
           loop'.asOf = loop.asOf,
           \A r \in Records : \A k \in Kinds :
               /\ calm'[r] > 0 /\ record[r].active /\ Opening(r, k) <= loop.asOf
               /\ Handled(r, k)
               => Handled(r, k)'
    PROVE  InScan'
<1> SUFFICES ASSUME NEW r \in Records, NEW k \in Kinds,
                    Seen(r, loop.asOf)', Opening(r, k)' <= loop'.asOf
             PROVE  Handled(r, k)'
  BY DEF InScan, Handled
<1>1. PICK t \in Int : t = loop.asOf
  BY TimeTypes
<1>2. t <= now
  BY <1>1 DEF Clock
<1>3. Seen(r, t)'
  BY <1>1 DEF Seen
<1>4. Seen(r, t) /\ record'[r] = record[r] /\ calm'[r] > 0
  BY <1>2, <1>3, SeenBefore
<1>5. Opening(r, k) <= loop.asOf /\ Seen(r, loop.asOf) /\ record[r].active
  BY <1>1, <1>4 DEF Opening, Seen
<1>6. Handled(r, k)
  BY <1>5 DEF InScan, Handled
<1>7. QED
  BY <1>4, <1>5, <1>6

\* What a step of the scan drops is decided, or nobody could have seen it.
LEMMA InnerHandles ==
    ASSUME TypeOK, ItemsInv, OwnersOnly, [Next]_vars, Inner,
           NEW r \in Records, NEW k \in Kinds,
           calm'[r] > 0, record[r].active, Opening(r, k) <= loop.asOf, Handled(r, k)
    PROVE  Handled(r, k)'
<1>1. Decided(r, k) => Handled(r, k)'
  BY DecidedStays DEF Handled
<1>2. loop \in Loops
  BY DEF TypeOK
<1>3. CASE FetchesDone
  <2>1. loop'.todo = loop.todo /\ loop'.due = loop.due
    BY <1>2, <1>3 DEF FetchesDone, Loops
  <2>2. QED
    BY <1>1, <2>1 DEF Handled
<1>4. ASSUME NEW q \in Records, PassOver(q) PROVE Handled(r, k)'
  <2>1. loop'.todo = loop.todo \ {q} /\ loop'.due = loop.due
    BY <1>2, <1>4 DEF PassOver, Fetched, Loops
  <2>2. r # q
    BY <1>4 DEF PassOver, Disturbed
  <2>3. QED
    BY <1>1, <2>1, <2>2 DEF Handled
<1>5. ASSUME NEW q \in Records, FetchOver(q) PROVE Handled(r, k)'
  <2>1. loop'.todo = loop.todo \ {q} /\ loop'.due = loop.due
    BY <1>2, <1>5 DEF FetchOver, Fetched, Loops
  <2>2. CASE r = q
    <3>1. Row(r, k)' # NoRow
      BY <1>5, <2>2, FetchOverRows DEF NoRow
    <3>2. QED
      BY <3>1 DEF Row, Handled, Decided
  <2>3. QED
    BY <1>1, <2>1, <2>2 DEF Handled
<1>6. ASSUME NEW q \in Records, FetchActive(q) PROVE Handled(r, k)'
  <2>1. Fetched(q, Collects(q), history) /\ record[q].at > loop.asOf
    BY <1>6, FetchActiveFacts
  <2>2. loop'.todo = loop.todo \ {q} /\ loop'.due = loop.due \cup Collects(q)
    BY <1>2, <2>1 DEF Fetched, Loops
  <2>3. CASE r = q /\ ~ Decided(r, k)
    <3>1. k \in DueKinds(record[r].at, loop.asOf)
      BY <2>1, <2>3, OpenIsDue
    <3>2. [record |-> r, kind |-> k, at |-> record[r].at] \in Collects(q)
      BY <2>3, <3>1 DEF Collects, Row, Decided
    <3>3. QED
      BY <2>2, <3>2 DEF Handled
  <2>4. CASE r # q /\ ~ Decided(r, k)
    BY <2>2, <2>4 DEF Handled
  <2>5. QED
    BY <1>1, <2>3, <2>4
<1>7. ASSUME NEW i \in loop.due, SendItem(i) PROVE Handled(r, k)'
  <2>1. CASE loop' = [loop EXCEPT !.pc = "awaiting"]
    <3>1. loop'.todo = loop.todo /\ loop'.due = loop.due
      BY <1>2, <2>1 DEF Loops
    <3>2. QED
      BY <1>1, <3>1 DEF Handled
  <2>2. CASE /\ ~ CanReserve(history, <<i.record, i.kind>>)
             /\ loop' = [loop EXCEPT !.due = @ \ {i}]
    <3>1. loop'.todo = loop.todo /\ loop'.due = loop.due \ {i}
      BY <1>2, <2>2 DEF Loops
    <3>2. <<i.record, i.kind>> \in Keys
      BY ItemTypes
    <3>3. history[Owner[i.record]][<<i.record, i.kind>>] # NoRow
      <4>1. PICK u \in Users : history[u][<<i.record, i.kind>>] # NoRow
        BY <2>2 DEF CanReserve, HasRowForKey
      <4>2. u = Owner[i.record]
        BY <3>2, <4>1 DEF OwnersOnly
      <4>3. QED
        BY <4>1, <4>2
    <3>4. Decided(i.record, i.kind)
      BY <3>3 DEF Decided
    <3>5. QED
      BY <1>1, <3>1, <3>4 DEF Handled
  <2>3. QED
    BY <1>7, <2>1, <2>2, SendItemFacts
<1>8. ASSUME NEW i \in loop.due, Arrives(i) PROVE Handled(r, k)'
  BY <1>1, <1>8 DEF Arrives, Handled
<1>9. ASSUME NEW i \in loop.due, InFlight(i),
             loop' = [loop EXCEPT !.pc = "sending", !.due = @ \ {i}]
      PROVE  Handled(r, k)'
  <2>1. loop'.todo = loop.todo /\ loop'.due = loop.due \ {i}
    BY <1>2, <1>9 DEF Loops
  <2>2. Decided(i.record, i.kind)
    BY <1>9 DEF InFlight, Decided, NoRow
  <2>3. QED
    BY <1>1, <2>1, <2>2 DEF Handled
<1>10. ASSUME NEW i \in loop.due, SendRaises(i) \/ \E outcome \in EndOutcomes : SendDone(i, outcome)
       PROVE  Handled(r, k)'
  BY <1>9, <1>10 DEF SendRaises, SendDone
<1>11. QED
  BY <1>3, <1>4, <1>5, <1>6, <1>7, <1>8, <1>10 DEF Inner

\* A scan begins with every record it can see on its list.
LEMMA InScanStep ==
    ASSUME TypeOK, TypeOK', ItemsInv, TimeInv, [Next]_vars
    PROVE  InScan'
<1>1. Clock /\ Quiet /\ InScan /\ OwnersOnly
  BY DEF TimeInv
<1>2. CASE Begins
  <2>1. BeginScan
    BY <1>2 DEF Begins
  <2>2. loop'.todo = Latest(attributions, Limit) /\ attributions' = attributions
    BY <2>1, LoopFacts DEF BeginScan
  <2>3. \A r \in Records : Seen(r, loop.asOf)' => r \in loop'.todo
    BY <2>2 DEF Seen, Latest
  <2>4. QED
    BY <2>3 DEF InScan
<1>3. CASE ScanFails \/ ScanDone \/ Stop
  <2>1. loop'.pc = "sleeping" \/ loop'.pc = "off"
    BY <1>3, LoopFacts
  <2>2. QED
    BY <2>1 DEF InScan, Scanning
<1>4. CASE Inner
  <2>1. Scanning /\ loop'.asOf = loop.asOf
    BY <1>4, InnerFacts
  <2>2. \A r \in Records : \A k \in Kinds :
            /\ calm'[r] > 0 /\ record[r].active /\ Opening(r, k) <= loop.asOf
            /\ Handled(r, k)
            => Handled(r, k)'
    BY <1>1, <1>4, InnerHandles
  <2>3. QED
    BY <1>1, <2>1, <2>2, InScanStays
<1>5. CASE World
  <2>1. UNCHANGED <<loop, history>>
    BY <1>5, WorldFacts
  <2>2. CASE Scanning
    <3>1. \A r \in Records : \A k \in Kinds : Handled(r, k) => Handled(r, k)'
      BY <2>1 DEF Handled, Decided
    <3>2. QED
      BY <1>1, <2>1, <2>2, <3>1, InScanStays
  <2>3. CASE ~ Scanning
    BY <2>1, <2>3 DEF InScan, Scanning
  <2>4. QED
    BY <2>2, <2>3
<1>6. QED
  BY <1>2, <1>3, <1>4, <1>5, NextSplits

-----------------------------------------------------------------------------
(* The theorems *)

LEMMA InitIInv == Init => IInv
<1> SUFFICES ASSUME Init PROVE IInv
  OBVIOUS
<1>1. loop = [pc |-> "off", asOf |-> 0, todo |-> {}, due |-> {}, wake |-> 0]
  BY DEF Init, Off
<1>2. history \in Tables /\ \A u \in Users : \A k \in Keys : history[u][k] = NoRow
  BY DEF Init, EmptyTable, Tables, Statuses
<1>3. TypeOK
  <2>1. 0 \in 0 .. Horizon /\ 0 \in 0 .. Patience
    BY Numbers
  <2>2. loop \in Loops
    BY <1>1, <2>1 DEF Loops
  <2>3. record \in [Records -> Bookings \cup {NoBooking}] /\ calm \in [Records -> 0 .. Patience]
    BY <2>1 DEF Init
  <2>4. QED
    BY <1>2, <2>1, <2>2, <2>3 DEF Init, TypeOK
<1>4. ItemsInv
  BY <1>1 DEF Init, ItemsInv, Collected, Logged, Current, OneScanPerReminder, Scanning
<1>5. Clock /\ Swept /\ InScan
  BY <1>1 DEF Clock, Swept, InScan, Scanning
<1>6. Quiet /\ OwnersOnly
  BY <1>2 DEF Init, Quiet, OwnersOnly
<1>7. QED
  BY <1>3, <1>4, <1>5, <1>6 DEF IInv, TimeInv

\* Every step keeps the invariant.
LEMMA IInvStep == IInv /\ [Next]_vars => IInv'
<1> SUFFICES ASSUME IInv, [Next]_vars PROVE IInv'
  OBVIOUS
<1>1. TypeOK /\ ItemsInv /\ TimeInv /\ Clock /\ Quiet /\ OwnersOnly
  BY DEF IInv, TimeInv
<1>2. TypeOK'
  BY <1>1, TypeStep
<1>3. ItemsInv'
  BY <1>1, ItemsStep
<1>4. Clock' /\ Quiet' /\ OwnersOnly'
  BY <1>1, ClockStep, QuietStep, OwnersOnlyStep
<1>5. Swept' /\ InScan'
  BY <1>1, <1>2, SweptStep, InScanStep
<1>6. QED
  BY <1>2, <1>3, <1>4, <1>5 DEF IInv, TimeInv

\* The invariant holds in every state the loop, YClients and the clock reach.
THEOREM Invariance == Spec => []IInv
  BY InitIInv, IInvStep, PTL DEF Spec

\* Every table, counter and list keeps its type.
THEOREM TypeCorrect == Spec => []TypeOK
<1>1. IInv => TypeOK
  BY DEF IInv
<1>2. QED
  BY <1>1, Invariance, PTL

\* All copies of a reminder of one kind for one booking come from one scan and
\* announce one time, however often the booking moves and the bot restarts
\* (reserve_notification_history before each send, and a scan that collects a
\* record once).
THEOREM OneScanPerReminderAlways == Spec => []OneScanPerReminder
<1>1. IInv => OneScanPerReminder
  BY DEF IInv, ItemsInv
<1>2. QED
  BY <1>1, Invariance, PTL

\* A reminder announces the visit the client has, unless YClients changed it
\* after the scan that sends the reminder had begun.
THEOREM StaleOnlyWithinScanAlways == Spec => StaleOnlyWithinScan
<1> DEFINE Fresh == \A e \in log' \ log :
                       \/ record[e.item.record] = [active |-> TRUE, at |-> e.item.at]
                       \/ e.item.record \in changed
<1>1. IInv /\ [Next]_vars => [Fresh]_vars
  <2> SUFFICES ASSUME IInv, Next, NEW e \in log' \ log
               PROVE  \/ record[e.item.record] = [active |-> TRUE, at |-> e.item.at]
                      \/ e.item.record \in changed
    BY DEF vars
  <2>1. PICK i \in loop.due : Arrives(i)
    BY DEF Next, Start, Wake, BeginScan, FetchesDone, ScanFails, ScanDone, Stop, Tick, PassOver,
           FetchOver, FetchActive, Fetched, Book, Change, SendItem, SendRaises, SendDone
  <2>2. e.item = i
    BY <2>1 DEF Arrives
  <2>3. QED
    BY <2>2 DEF IInv, ItemsInv, Current
<1>2. QED
  BY <1>1, Invariance, PTL DEF Spec, StaleOnlyWithinScan

\* A booking in peace since its window opened, and for longer than a scan, a
\* pause and a scan, has been swept.
LEMMA WatchedIsSwept ==
    ASSUME IInv, NEW r \in Records, NEW k \in Kinds, Watched(r, Opening(r, k))
    PROVE  Decided(r, k)
<1>1. /\ now \in Nat /\ loop.asOf \in Nat /\ loop.wake \in Nat /\ Base \in Int
      /\ MaxScan \in Nat /\ Interval \in Nat /\ Opening(r, k) \in Int
      /\ Clock /\ Swept
  BY TimeTypes, Numbers DEF IInv, TimeInv
<1>2. /\ loop.pc # "off" /\ r \in Latest(attributions, Limit) /\ record[r].active
      /\ now >= Opening(r, k) + Interval + 2 * MaxScan + 1
      /\ calm[r] = Interval + 2 * MaxScan + 1
  BY <1>1 DEF Watched, Patience
<1>3. now - Base <= Interval + 2 * MaxScan
  <2>1. CASE loop.pc = "sleeping"
    BY <1>1, <2>1 DEF Clock, Base
  <2>2. CASE loop.pc # "sleeping"
    <3>1. Scanning
      BY <1>2, <2>2 DEF Scanning, IInv, TypeOK, Loops
    <3>2. QED
      BY <1>1, <2>2, <3>1 DEF Clock, Base
  <2>3. QED
    BY <2>1, <2>2
<1>4. Opening(r, k) <= Base /\ calm[r] > now - Base
  BY <1>1, <1>2, <1>3
<1>5. QED
  BY <1>1, <1>2, <1>4 DEF Swept, Seen

\* No booking slips through its 2 h window between two scans
\* (build_reminder_schedule tests a window, not an instant).
THEOREM SoonDecidedInTimeAlways == Spec => []SoonDecidedInTime
<1>1. IInv => SoonDecidedInTime
  <2> SUFFICES ASSUME IInv, NEW r \in Records, Watched(r, record[r].at - Soon)
               PROVE  Decided(r, "soon")
    BY DEF SoonDecidedInTime
  <2>1. "soon" \in Kinds /\ Opening(r, "soon") = record[r].at - Soon
    BY DEF Kinds, Opening
  <2>2. QED
    BY <2>1, WatchedIsSwept
<1>2. QED
  BY <1>1, Invariance, PTL

\* Every booking that is still to come has its confirmation once six hours are
\* left (the fallback of _calculate_telegram_confirmation_due).
THEOREM ConfirmationAt6hAlways == Spec => []ConfirmationAt6h
<1>1. IInv => ConfirmationAt6h
  <2> SUFFICES ASSUME IInv, NEW r \in Records, Watched(r, record[r].at - Fallback)
               PROVE  Decided(r, "confirmation")
    BY DEF ConfirmationAt6h
  <2>1. "confirmation" \in Kinds /\ Opening(r, "confirmation") = record[r].at - Fallback
    BY DEF Kinds, Opening
  <2>2. QED
    BY <2>1, WatchedIsSwept
<1>2. QED
  BY <1>1, Invariance, PTL

-----------------------------------------------------------------------------
(* The promise of the delivery protocol *)

OwnersRow(h, k) == h[Owner[k[1]]][k]

\* When all rows are their owners', the owner's row tells the claim.
LEMMA ClaimOfRow ==
    ASSUME NEW h \in Tables, NEW k \in Keys,
           \A u \in Users : h[u][k] # NoRow => u = Owner[k[1]]
    PROVE  ClaimOf(h, k) = IF OwnersRow(h, k) \in ClaimedStatuses THEN Owner[k[1]]
                             ELSE IF OwnersRow(h, k) # NoRow THEN "closed" ELSE "unclaimed"
<1> DEFINE w == Owner[k[1]]
<1>1. w \in Users
  BY Numbers DEF Keys
<1>2. NoRow \notin ClaimedStatuses
  BY DEF NoRow, ClaimedStatuses, Outcomes
<1>3. \A u \in Users : h[u][k] \in ClaimedStatuses => u = w
  BY <1>2
<1>4. HasRowForKey(h, k) <=> h[w][k] # NoRow
  BY <1>1 DEF HasRowForKey
<1>5. CASE h[w][k] \in ClaimedStatuses
  <2>1. \E u \in Users : h[u][k] \in ClaimedStatuses
    BY <1>1, <1>5
  <2>2. (CHOOSE u \in Users : h[u][k] \in ClaimedStatuses) = w
    BY <1>3, <2>1
  <2>3. QED
    BY <1>5, <2>1, <2>2 DEF ClaimOf, OwnersRow
<1>6. CASE h[w][k] \notin ClaimedStatuses
  <2>1. ~ \E u \in Users : h[u][k] \in ClaimedStatuses
    BY <1>3, <1>6
  <2>2. QED
    BY <1>4, <1>6, <2>1 DEF ClaimOf, OwnersRow
<1>7. QED
  BY <1>5, <1>6

\* The claims on both sides of a step.
LEMMA ClaimsOfRows ==
    ASSUME IInv, [Next]_vars
    PROVE  /\ \A k \in Keys :
                 Claims[k] = IF OwnersRow(history, k) \in ClaimedStatuses THEN Owner[k[1]]
                               ELSE IF OwnersRow(history, k) # NoRow THEN "closed" ELSE "unclaimed"
           /\ \A k \in Keys :
                 Claims'[k] = IF OwnersRow(history', k) \in ClaimedStatuses THEN Owner[k[1]]
                                ELSE IF OwnersRow(history', k) # NoRow THEN "closed"
                                ELSE "unclaimed"
<1>1. history \in Tables /\ history' \in Tables
  BY IInvStep DEF IInv, TypeOK
<1>2. /\ \A k \in Keys : \A u \in Users : history[u][k] # NoRow => u = Owner[k[1]]
      /\ \A k \in Keys : \A u \in Users : history'[u][k] # NoRow => u = Owner[k[1]]
  BY IInvStep DEF IInv, TimeInv, OwnersOnly
<1>3. QED
  BY <1>1, <1>2, ClaimOfRow DEF Claims

\* A step that leaves the rows of other keys alone leaves their claims.
LEMMA ClaimsStay ==
    ASSUME IInv, [Next]_vars, NEW S \in SUBSET Keys,
           \A k \in Keys \ S : OwnersRow(history', k) = OwnersRow(history, k)
    PROVE  Claims' = [k \in Keys |-> IF k \in S THEN Claims'[k] ELSE Claims[k]]
<1>1. \A k \in Keys \ S : Claims'[k] = Claims[k]
  BY ClaimsOfRows
<1>2. Claims' = [k \in Keys |-> Claims'[k]]
  BY DEF Claims
<1>3. QED
  BY <1>1, <1>2

\* A cancelled booking, or one in the past, closes those of its two keys that are
\* undecided.
LEMMA FetchOverRefines ==
    ASSUME IInv, [Next]_vars, NEW r \in Records, FetchOver(r)
    PROVE  Promise!Next
<1> DEFINE ks == {k \in Keys : k[1] = r /\ OwnersRow(history, k) = NoRow}
<1>1. history' = SkipBoth(r) /\ log' = log /\ history \in Tables
  BY DEF FetchOver, Fetched, IInv, TypeOK
<1>2. \A k \in Keys : Owner[k[1]] \in Users
  BY Numbers DEF Keys
<1>3. \A k \in Keys : OwnersRow(history', k) = IF k \in ks THEN "skipped" ELSE OwnersRow(history, k)
  BY <1>1, <1>2, SkipRows DEF OwnersRow
<1>4. "skipped" \notin ClaimedStatuses /\ NoRow \notin ClaimedStatuses /\ "skipped" # NoRow
  BY DEF ClaimedStatuses, Outcomes, NoRow
<1>5. \A k \in ks : Claims[k] = "unclaimed" /\ Claims'[k] = "closed"
  BY <1>3, <1>4, ClaimsOfRows
<1>6. Claims' = [k \in Keys |-> IF k \in ks THEN Claims'[k] ELSE Claims[k]]
  <2>1. \A k \in Keys \ ks : OwnersRow(history', k) = OwnersRow(history, k)
    BY <1>3
  <2>2. ks \in SUBSET Keys
    OBVIOUS
  <2> HIDE DEF ks
  <2>3. QED
    BY <2>1, <2>2, ClaimsStay
<1>7. ks \in SUBSET Keys
  OBVIOUS
<1> HIDE DEF ks
<1>8. Claims' = [k \in Keys |-> IF k \in ks THEN "closed" ELSE Claims[k]]
  BY <1>5, <1>6
<1>9. Promise!Close(ks)
  BY <1>1, <1>5, <1>7, <1>8
  DEF Promise!Close, Promise!NoClaim, Promise!Closed, Copies, Received
<1>10. QED
  BY <1>7, <1>9 DEF Promise!Next

\* A reservation is the owner's claim; a refused one decides nothing.
LEMMA SendItemRefines ==
    ASSUME IInv, [Next]_vars, NEW i \in loop.due, SendItem(i)
    PROVE  Promise!Next \/ UNCHANGED Promise!vars
<1> DEFINE key == <<i.record, i.kind>>
<1>1. key \in Keys /\ key[1] = i.record /\ Owner[i.record] \in Users
  BY ItemTypes DEF IInv
<1>2. log' = log
  BY SendItemFacts DEF IInv
<1>3. CASE history' = history
  BY <1>2, <1>3 DEF Promise!vars, Claims, Copies, Received
<1>4. CASE /\ CanReserve(history, key)
           /\ \A v \in Users : \A k \in Keys :
                 history'[v][k] = IF v = Owner[i.record] /\ k = key
                                    THEN "pending" ELSE history[v][k]
  <2> HIDE DEF key
  <2>1. OwnersRow(history, key) = NoRow /\ OwnersRow(history', key) = "pending"
    BY <1>1, <1>4 DEF CanReserve, HasRowForKey, OwnersRow
  <2>2. "pending" \in ClaimedStatuses /\ NoRow \notin ClaimedStatuses
    BY DEF ClaimedStatuses, Outcomes, NoRow
  <2>3. Claims[key] = "unclaimed" /\ Claims'[key] = Owner[i.record]
    BY <1>1, <2>1, <2>2, ClaimsOfRows
  <2>4. Claims' = [k \in Keys |-> IF k \in {key} THEN Claims'[k] ELSE Claims[k]]
    <3>1. \A k \in Keys : Owner[k[1]] \in Users
      BY Numbers DEF Keys
    <3>2. \A k \in Keys \ {key} : OwnersRow(history', k) = OwnersRow(history, k)
      BY <1>4, <3>1 DEF OwnersRow
    <3>3. QED
      BY <1>1, <3>2, ClaimsStay
  <2>5. Claims' = [Claims EXCEPT ![key] = Owner[i.record]]
    BY <2>3, <2>4 DEF Claims
  <2>6. Promise!Claim(Owner[i.record], key)
    BY <1>2, <2>3, <2>5 DEF Promise!Claim, Promise!NoClaim, Copies, Received
  <2>7. QED
    BY <1>1, <2>6 DEF Promise!Next
<1>5. QED
  BY <1>3, <1>4, SendItemFacts DEF IInv

\* The outcome of a send leaves the key to its owner.
LEMMA SendDoneRefines ==
    ASSUME IInv, [Next]_vars, NEW i \in loop.due, NEW outcome \in EndOutcomes,
           SendDone(i, outcome)
    PROVE  UNCHANGED Promise!vars
<1> DEFINE key == <<i.record, i.kind>>
<1>1. key \in Keys /\ key[1] = i.record /\ Owner[i.record] \in Users
  BY ItemTypes DEF IInv
<1>2. /\ log' = log
      /\ history[Owner[i.record]][key] = "pending"
      /\ \A v \in Users : \A k \in Keys :
            history'[v][k] = IF v = Owner[i.record] /\ k = key THEN outcome ELSE history[v][k]
  BY SendDoneFacts DEF IInv, InFlight
<1>3. outcome \in ClaimedStatuses /\ "pending" \in ClaimedStatuses
  BY DEF EndOutcomes, ClaimedStatuses, Outcomes
<1> HIDE DEF key
<1>4. \A k \in Keys : \/ OwnersRow(history', k) = OwnersRow(history, k)
                      \/ OwnersRow(history', k) \in ClaimedStatuses
                            /\ OwnersRow(history, k) \in ClaimedStatuses
  <2>1. \A k \in Keys : Owner[k[1]] \in Users
    BY Numbers DEF Keys
  <2>2. QED
    BY <1>1, <1>2, <1>3, <2>1 DEF OwnersRow
<1>5. \A k \in Keys : Claims'[k] = Claims[k]
  BY <1>4, ClaimsOfRows
<1>6. Claims' = Claims
  BY <1>5 DEF Claims
<1>7. QED
  BY <1>2, <1>6 DEF Promise!vars, Copies, Received

\* What arrives is the one copy of a claimed key, or a repetition of it.
LEMMA ArrivesRefines ==
    ASSUME IInv, [Next]_vars, NEW i \in loop.due, Arrives(i)
    PROVE  Promise!Next \/ UNCHANGED Promise!vars
<1> DEFINE key == <<i.record, i.kind>>
           owner == Owner[i.record]
           new == [item |-> i, asOf |-> loop.asOf]
<1>1. key \in Keys /\ key[1] = i.record /\ owner \in Users
  BY ItemTypes DEF IInv
<1>2. log' = log \cup {new} /\ history' = history /\ history[owner][key] = "pending"
  BY DEF Arrives, InFlight
<1>3. Claims' = Claims
  BY <1>2 DEF Claims
<1>4. Claims[key] = owner
  <2>1. OwnersRow(history, key) \in ClaimedStatuses
    BY <1>1, <1>2 DEF OwnersRow, ClaimedStatuses
  <2>2. QED
    BY <1>1, <2>1, ClaimsOfRows
<1>5. CASE new \in log
  <2>1. log' = log
    BY <1>2, <1>5
  <2>2. QED
    BY <1>3, <2>1 DEF Promise!vars, Copies, Received
<1>6. CASE new \notin log
  <2>1. Received(owner, key) = {}
    <3>1. ASSUME NEW e \in log, key = <<e.item.record, e.item.kind>> PROVE FALSE
      <4>1. OneScanPerReminder' /\ e \in log' /\ new \in log'
        BY <1>2, IInvStep DEF IInv, ItemsInv
      <4>2. e.item = i /\ e.asOf = loop.asOf
        BY <3>1, <4>1 DEF OneScanPerReminder
      <4>3. e \in [item : Items, asOf : 0 .. Horizon]
        BY DEF IInv, TypeOK
      <4>4. e = new
        BY <4>2, <4>3
      <4>5. QED
        BY <1>6, <4>4
    <3>2. QED
      BY <3>1 DEF Received
  <2>2. Received(owner, key)' = {new}
    BY <1>2, <2>1 DEF Received
  <2>3. \A u \in Users : \A k \in Keys :
            u # owner \/ k # key => Received(u, k)' = Received(u, k)
    BY <1>2 DEF Received
  <2>4. Copies[owner][key] = 0 /\ Copies'[owner][key] = 1
    BY <1>1, <2>1, <2>2, FS_EmptySet, FS_Singleton DEF Copies
  <2>5. \A u \in Users : \A k \in Keys :
            Copies'[u][k] = IF u = owner /\ k = key THEN 1 ELSE Copies[u][k]
    BY <2>3, <2>4 DEF Copies
  <2> HIDE DEF key, owner, new
  <2>6. Copies' = [Copies EXCEPT ![owner][key] = @ + 1]
    <3>1. \A u \in Users : Copies'[u] = IF u = owner THEN [Copies[u] EXCEPT ![key] = 1] ELSE Copies[u]
      BY <2>5 DEF Copies
    <3>2. Copies' = [Copies EXCEPT ![owner] = [Copies[owner] EXCEPT ![key] = 1]]
      BY <3>1 DEF Copies
    <3>3. QED
      BY <1>1, <2>4, <3>2
  <2>7. Promise!DeliverCopy(owner, key)
    BY <1>3, <1>4, <2>4, <2>6 DEF Promise!DeliverCopy
  <2>8. QED
    BY <1>1, <2>7 DEF Promise!Next
<1>7. QED
  BY <1>5, <1>6

\* Every step of the loop, of YClients and of the clock is a decision, an arrival
\* or a stutter.
LEMMA NextRefines == IInv /\ [Next]_vars => [Promise!Next]_(Promise!vars)
<1> SUFFICES ASSUME IInv, [Next]_vars PROVE Promise!Next \/ UNCHANGED Promise!vars
  OBVIOUS
<1>1. CASE UNCHANGED <<history, log>>
  BY <1>1 DEF Promise!vars, Claims, Copies, Received
<1>2. CASE ~ UNCHANGED <<history, log>>
  <2>1. \/ \E r \in Records : FetchOver(r)
        \/ \E i \in loop.due : \/ SendItem(i) \/ Arrives(i)
                               \/ \E outcome \in EndOutcomes : SendDone(i, outcome)
    BY <1>2 DEF Next, vars, Start, Wake, BeginScan, FetchesDone, ScanFails, ScanDone, Stop, Tick,
                PassOver, FetchActive, Fetched, Book, Change, SendRaises
  <2>2. QED
    BY <2>1, FetchOverRefines, SendItemRefines, ArrivesRefines, SendDoneRefines
<1>3. QED
  BY <1>1, <1>2

\* Initially every key is undecided.
LEMMA InitRefines == Init => Promise!Init
<1> SUFFICES ASSUME Init PROVE Promise!Init
  OBVIOUS
<1>1. history \in Tables /\ \A u \in Users : \A k \in Keys : history[u][k] = NoRow
  BY InitIInv DEF IInv, TypeOK, Init, EmptyTable
<1>2. NoRow \notin ClaimedStatuses
  BY DEF ClaimedStatuses, Outcomes, NoRow
<1>3. \A k \in Keys : ClaimOf(history, k) = "unclaimed"
  BY <1>1, <1>2 DEF ClaimOf, HasRowForKey
<1>4. \A u \in Users : \A k \in Keys : Cardinality(Received(u, k)) = 0
  BY FS_EmptySet DEF Init, Received
<1>5. QED
  BY <1>3, <1>4 DEF Promise!Init, Claims, Copies, Promise!NoClaim

\* However often a booking moves, the loop stops and the bot restarts, a reminder
\* is decided once: one copy for the owner, or none at all.
THEOREM PromiseKept == Spec => PromiseSpec
  BY Invariance, InitRefines, NextRefines, PTL DEF Spec, PromiseSpec, Promise!Spec

=============================================================================
