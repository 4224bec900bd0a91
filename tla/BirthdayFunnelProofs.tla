------------------------ MODULE BirthdayFunnelProofs ------------------------
(***************************************************************************)
(* The safety properties of BirthdayFunnel for any number of users, years  *)
(* and days.  What carries them is that a greeting in flight has an event  *)
(* and a pending row of its own, that whoever got a greeting keeps a       *)
(* claimed row, and that a gift in a client's booking state is its own.    *)
(***************************************************************************)
EXTENDS BirthdayFunnel, TLAPS

\* The event e and the row h of a greeting, whose turn was cut or not
Agree(e, h, short) ==
    \/ e \in EventsFor(h)
    \/ e \in ButtonStatuses /\ h \in ClaimedStatuses
    \/ e \in {"pending", "failed"} /\ short

\* The greeting in flight
InFlightOwned ==
    \A u \in Users : scan.pc = u =>
        /\ history[u][YearOf(scan.day)] = "pending"
        /\ events[u][YearOf(scan.day)] # NoEvent

\* Only a reserved row lets a greeting out.
GreetedIsClaimed ==
    \A u \in Users, y \in Years : <<u, y>> \in greeted => history[u][y] \in ClaimedStatuses

\* A gift in the booking state is the client's own, of a greeting it got.
GiftInHand ==
    \A v \in Users : gift[v] # <<>> =>
        \E y \in Years : gift[v] = <<v, y>> /\ <<v, y>> \in greeted

\* The inductive invariant.
IInv ==
    /\ TypeOK /\ EventsAgreeWithHistory /\ GiftGoesToItsOwner
    /\ InFlightOwned /\ GreetedIsClaimed /\ GiftInHand

USE DEF NoEvent, NoRow

-----------------------------------------------------------------------------
(* Lemmas of the data *)

\* The day of a scan has a year of its own.
LEMMA YearOfScan ==
    ASSUME TypeOK
    PROVE  YearOf(scan.day) \in Years
<1>1. scan.day \in 0 .. LastDay
  BY DEF TypeOK, Scans
<1>2. QED
  BY <1>1 DEF Years

\* The two tables in terms of Agree
LEMMA AgreeEverywhere ==
    EventsAgreeWithHistory <=>
        \A u \in Users, y \in Years : Agree(events[u][y], history[u][y], <<u, y>> \in cut)
  BY DEF EventsAgreeWithHistory, Agree

\* What a row says of an event
LEMMA EventsForFacts ==
    /\ EventsFor(NoRow) = {NoEvent, "failed"}
    /\ EventsFor("pending") = {"pending"} /\ EventsFor("skipped") = {"skipped"}
    /\ \A outcome \in Outcomes : EventsFor(outcome) = {StatusAfter(outcome)}
    /\ \A outcome \in Outcomes : StatusAfter(outcome) \in EventStatuses \ {NoEvent}
    /\ \A row \in Statuses : NoEvent \in EventsFor(row) => row = NoRow
<1>1. /\ EventsFor(NoRow) = {NoEvent, "failed"}
      /\ EventsFor("pending") = {"pending"} /\ EventsFor("skipped") = {"skipped"}
  BY DEF EventsFor
<1>2. ASSUME NEW outcome \in Outcomes
      PROVE  /\ EventsFor(outcome) = {StatusAfter(outcome)}
             /\ StatusAfter(outcome) \in EventStatuses \ {NoEvent}
  BY DEF EventsFor, Outcomes, StatusAfter, EventStatuses
<1>3. ASSUME NEW row \in Statuses, NoEvent \in EventsFor(row) PROVE row = NoRow
  BY <1>1, <1>2, <1>3 DEF Statuses
<1>4. QED
  BY <1>1, <1>2, <1>3

\* An event and its row are written, by a turn that is perhaps cut.
Written(u, y, status, row) ==
    /\ events' = [events EXCEPT ![u][y] = status]
    /\ history' = [history EXCEPT ![u][y] = row]
    /\ cut' = cut \/ cut' = cut \cup {<<u, y>>}
    /\ Agree(status, row, <<u, y>> \in cut')

TablesAfter(u, y, status, row) ==
    /\ events' \in [Users -> [Years -> EventStatuses]]
    /\ history' \in Tables
    /\ cut' \subseteq Users \X Years
    /\ EventsAgreeWithHistory'
    /\ events'[u][y] = status /\ history'[u][y] = row
    /\ \A w \in Users, z \in Years :
          <<w, z>> # <<u, y>> => events'[w][z] = events[w][z] /\ history'[w][z] = history[w][z]

\* An event and its row change together; nothing else of the tables does.
LEMMA TablesChange ==
    ASSUME TypeOK, EventsAgreeWithHistory,
           NEW u \in Users, NEW y \in Years,
           NEW status \in EventStatuses, NEW row \in Statuses,
           Written(u, y, status, row)
    PROVE  TablesAfter(u, y, status, row)
<1> USE DEF Written
<1>1. /\ events \in [Users -> [Years -> EventStatuses]]
      /\ history \in [Users -> [Years -> Statuses]]
      /\ cut \subseteq Users \X Years
  BY DEF TypeOK, Tables, Keys
<1>2. events' \in [Users -> [Years -> EventStatuses]]
  BY <1>1
<1>3. history' \in [Users -> [Years -> Statuses]]
  BY <1>1
<1>4. /\ cut' \subseteq Users \X Years
      /\ \A w \in Users, z \in Years :
            <<w, z>> # <<u, y>> => (<<w, z>> \in cut <=> <<w, z>> \in cut')
  BY <1>1
<1>5. events'[u][y] = status /\ history'[u][y] = row
  BY <1>1
<1>6. ASSUME NEW w \in Users, NEW z \in Years, <<w, z>> # <<u, y>>
      PROVE  events'[w][z] = events[w][z] /\ history'[w][z] = history[w][z]
  BY <1>1, <1>6
<1>7. EventsAgreeWithHistory'
  <2>1. ASSUME NEW w \in Users, NEW z \in Years
        PROVE  Agree(events'[w][z], history'[w][z], <<w, z>> \in cut')
    <3>1. CASE <<w, z>> = <<u, y>>
      BY <1>5, <3>1
    <3>2. CASE <<w, z>> # <<u, y>>
      <4>1. Agree(events[w][z], history[w][z], <<w, z>> \in cut)
        BY AgreeEverywhere
      <4>2. QED
        BY <1>4, <1>6, <3>2, <4>1 DEF Agree
    <3>3. QED
      BY <3>1, <3>2
  <2>2. QED
    BY <2>1 DEF EventsAgreeWithHistory, Agree
<1>8. QED
  BY <1>2, <1>3, <1>4, <1>5, <1>6, <1>7 DEF Tables, Keys, TablesAfter

\* A wanted greeting has neither an event nor a row.
LEMMA WantedIsNew ==
    ASSUME IInv, NEW u \in Users, Wanted(u)
    PROVE  /\ events[u][YearOf(scan.day)] = NoEvent
           /\ history[u][YearOf(scan.day)] = NoRow
           /\ <<u, YearOf(scan.day)>> \notin greeted
<1>1. YearOf(scan.day) \in Years
  BY YearOfScan DEF IInv
<1>2. events[u][YearOf(scan.day)] = NoEvent
  BY DEF Wanted
<1>3. history[u][YearOf(scan.day)] = NoRow
  <2>1. Agree(NoEvent, history[u][YearOf(scan.day)], <<u, YearOf(scan.day)>> \in cut)
    BY <1>1, <1>2, AgreeEverywhere DEF IInv
  <2>2. history[u][YearOf(scan.day)] \in Statuses
    BY <1>1 DEF IInv, TypeOK, Tables, Keys
  <2>3. NoEvent \in EventsFor(history[u][YearOf(scan.day)])
    BY <2>1 DEF Agree, ButtonStatuses
  <2>4. QED
    BY <2>2, <2>3, EventsForFacts
<1>4. NoRow \notin ClaimedStatuses
  BY DEF ClaimedStatuses, Outcomes
<1>5. QED
  BY <1>1, <1>2, <1>3, <1>4 DEF IInv, GreetedIsClaimed

\* The next user of a scan
LEMMA NextUserScan ==
    ASSUME TypeOK, NEW u \in Users, NEW pc \in {"users", u}, NextUser(u, pc)
    PROVE  scan' \in Scans /\ scan'.pc = pc /\ scan'.day = scan.day
<1>1. scan \in Scans
  BY DEF TypeOK
<1>2. scan' = [pc |-> pc, day |-> scan.day, queue |-> scan.queue \ {u}, due |-> scan.due]
  BY <1>1 DEF NextUser, Scans
<1>3. QED
  BY <1>1, <1>2 DEF Scans

LEMMA InitIInv == Init => IInv
<1> SUFFICES ASSUME Init PROVE IInv
  OBVIOUS
<1>0. 0 \in 0 .. LastDay
  BY BirthdayAssumption
<1>1. scan \in Scans /\ scan.pc = "idle"
  BY <1>0 DEF Init, Idle, Scans
<1>2. history \in Tables
  BY DEF Init, EmptyTable, Tables, Statuses
<1>3. TypeOK
  BY <1>0, <1>1, <1>2 DEF Init, TypeOK, EventStatuses, NoGifts
<1>4. EventsAgreeWithHistory /\ GiftGoesToItsOwner
  BY EventsForFacts
  DEF Init, EmptyTable, Keys, EventsAgreeWithHistory, GiftGoesToItsOwner
<1>5. InFlightOwned
  BY <1>1, BirthdayAssumption DEF InFlightOwned
<1>6. GreetedIsClaimed /\ GiftInHand
  BY DEF Init, NoGifts, GreetedIsClaimed, GiftInHand
<1>7. QED
  BY <1>3, <1>4, <1>5, <1>6 DEF IInv

-----------------------------------------------------------------------------
(* The steps *)

\* Steps that end or go on with a scan without touching tables or gifts
LEMMA ScanStep ==
    ASSUME IInv, BeginScan \/ EndScan \/ \E u \in Users : PassOver(u)
    PROVE  IInv'
<1>1. /\ UNCHANGED <<today, birthday, notifyOn, globalOn, events, bookedBy, history>>
      /\ UNCHANGED <<greeted, gift, cut>>
  BY DEF BeginScan, EndScan, PassOver
<1>2. scan' \in Scans /\ scan'.pc \in {"idle", "users"}
  <2>1. CASE BeginScan
    BY <2>1 DEF BeginScan, Scans, IInv, TypeOK
  <2>2. CASE EndScan
    <3>1. 0 \in 0 .. LastDay
      BY BirthdayAssumption
    <3>2. QED
      BY <2>2, <3>1 DEF EndScan, Idle, Scans
  <2>3. ASSUME NEW u \in Users, PassOver(u) PROVE scan' \in Scans /\ scan'.pc = "users"
    BY <2>3, NextUserScan DEF PassOver, IInv
  <2>4. QED
    BY <2>1, <2>2, <2>3
<1>3. TypeOK'
  BY <1>1, <1>2 DEF IInv, TypeOK
<1>4. InFlightOwned'
  BY <1>2, BirthdayAssumption DEF InFlightOwned
<1>5. QED
  BY <1>1, <1>3, <1>4
  DEF IInv, EventsAgreeWithHistory, GiftGoesToItsOwner, GreetedIsClaimed, GiftInHand

\* A user's turn is over: the event and the row are written or stay, and the scan
\* goes on or is gone.
LEMMA TurnEnds ==
    ASSUME IInv, NEW u \in Users, NEW y \in Years,
           NEW status \in EventStatuses, NEW row \in Statuses,
           Written(u, y, status, row),
           history[u][y] \in ClaimedStatuses => row \in ClaimedStatuses,
           scan' \in Scans, scan'.pc \in {"idle", "users"},
           gift' \in {gift, NoGifts},
           notifyOn' \in [Users -> BOOLEAN],
           UNCHANGED <<today, birthday, globalOn, bookedBy, greeted>>
    PROVE  IInv'
<1>1. TablesAfter(u, y, status, row)
  BY TablesChange DEF IInv
<1>2. /\ gift' \in [Users -> (Users \X Years) \cup {<<>>}]
      /\ \A v \in Users : gift'[v] \in {gift[v], <<>>}
  <2>1. gift \in [Users -> (Users \X Years) \cup {<<>>}]
    BY DEF IInv, TypeOK
  <2>2. CASE gift' = NoGifts
    BY <2>1, <2>2 DEF NoGifts
  <2>3. CASE gift' = gift
    BY <2>1, <2>3
  <2>4. QED
    BY <2>2, <2>3
<1>3. TypeOK'
  BY <1>1, <1>2 DEF IInv, TypeOK, TablesAfter
<1>4. InFlightOwned'
  BY BirthdayAssumption DEF InFlightOwned
<1>5. GreetedIsClaimed'
  <2>1. ASSUME NEW w \in Users, NEW z \in Years, <<w, z>> \in greeted
        PROVE  history'[w][z] \in ClaimedStatuses
    <3>1. history[w][z] \in ClaimedStatuses
      BY <2>1 DEF IInv, GreetedIsClaimed
    <3>2. CASE <<w, z>> = <<u, y>>
      BY <1>1, <3>1, <3>2 DEF TablesAfter
    <3>3. CASE <<w, z>> # <<u, y>>
      BY <1>1, <3>1, <3>3 DEF TablesAfter
    <3>4. QED
      BY <3>2, <3>3
  <2>2. QED
    BY <2>1 DEF GreetedIsClaimed
<1>6. GiftGoesToItsOwner' /\ GiftInHand'
  BY <1>2 DEF IInv, GiftGoesToItsOwner, GiftInHand
<1>7. QED
  BY <1>1, <1>3, <1>4, <1>5, <1>6 DEF IInv, TablesAfter

\* The switch of a user who cannot be reached
LEMMA SwitchType ==
    ASSUME TypeOK, NEW u \in Users, NEW outcome, SwitchedOff(u, outcome)
    PROVE  notifyOn' \in [Users -> BOOLEAN]
<1>1. notifyOn \in [Users -> BOOLEAN]
  BY DEF TypeOK
<1>2. CASE UNCHANGED notifyOn
  BY <1>1, <1>2
<1>3. CASE notifyOn' = [notifyOn EXCEPT ![u] = FALSE]
  BY <1>1, <1>3
<1>4. QED
  BY <1>2, <1>3 DEF SwitchedOff

\* A greeting that is not sent: the user is skipped, or the key is taken.
LEMMA NotSentStep ==
    ASSUME IInv, NEW u \in Users, GloballyOff(u) \/ NotReserved(u)
    PROVE  IInv'
<1> DEFINE y == YearOf(scan.day)
<1>1. y \in Years /\ history[u][y] = NoRow
  BY YearOfScan, WantedIsNew DEF IInv, GloballyOff, NotReserved
<1>2. UNCHANGED <<today, birthday, notifyOn, globalOn, bookedBy, greeted, gift, cut>>
  BY DEF GloballyOff, NotReserved
<1>3. scan' \in Scans /\ scan'.pc = "users"
  BY NextUserScan DEF IInv, GloballyOff, NotReserved
<1>4. NoRow \notin ClaimedStatuses
  BY DEF ClaimedStatuses, Outcomes
<1>5. PICK status \in EventStatuses, row \in Statuses : Written(u, y, status, row)
  <2>1. CASE GloballyOff(u)
    <3>1. /\ events' = [events EXCEPT ![u][y] = "skipped"]
          /\ history' = [history EXCEPT ![u][y] = "skipped"]
      BY <1>1, <2>1 DEF GloballyOff, SetEvent, MarkSkipped, InsertOrIgnore
    <3>2. Agree("skipped", "skipped", <<u, y>> \in cut')
      BY EventsForFacts DEF Agree
    <3>3. QED
      BY <1>2, <3>1, <3>2 DEF Written, EventStatuses, Statuses
  <2>2. CASE NotReserved(u)
    <3>1. events' = [events EXCEPT ![u][y] = "failed"] /\ history' = history
      BY <2>2 DEF NotReserved, SetEvent
    <3>2. history = [history EXCEPT ![u][y] = NoRow]
      BY <1>1 DEF IInv, TypeOK, Tables, Keys
    <3>3. Agree("failed", NoRow, <<u, y>> \in cut')
      BY EventsForFacts DEF Agree
    <3>4. QED
      BY <1>2, <3>1, <3>2, <3>3 DEF Written, EventStatuses, Statuses
  <2>3. QED
    BY <2>1, <2>2
<1> HIDE DEF y
<1>6. QED
  BY <1>1, <1>2, <1>3, <1>4, <1>5, TurnEnds DEF IInv, TypeOK

\* The reservation
LEMMA ReservedStep ==
    ASSUME IInv, NEW u \in Users, Reserved(u)
    PROVE  IInv'
<1> DEFINE y == YearOf(scan.day)
<1>1. y \in Years /\ history[u][y] = NoRow /\ <<u, y>> \notin greeted
  BY YearOfScan, WantedIsNew DEF IInv, Reserved
<1>2. UNCHANGED <<today, birthday, notifyOn, globalOn, bookedBy, greeted, gift, cut>>
  BY DEF Reserved
<1>3. scan' \in Scans /\ scan'.pc = u /\ scan'.day = scan.day
  BY NextUserScan DEF IInv, Reserved
<1>4. TablesAfter(u, y, "pending", "pending")
  <2>1. events' = [events EXCEPT ![u][y] = "pending"]
    BY DEF Reserved, SetEvent
  <2>2. history' = [history EXCEPT ![u][y] = "pending"]
    BY <1>1 DEF Reserved, Reserve, InsertOrIgnore
  <2>3. Agree("pending", "pending", <<u, y>> \in cut')
    BY EventsForFacts DEF Agree
  <2>4. Written(u, y, "pending", "pending")
    BY <1>2, <2>1, <2>2, <2>3 DEF Written
  <2>5. "pending" \in EventStatuses /\ "pending" \in Statuses
    BY DEF EventStatuses, Statuses
  <2> HIDE DEF y
  <2>6. QED
    BY <1>1, <2>4, <2>5, TablesChange DEF IInv
<1>5. TypeOK'
  BY <1>2, <1>3, <1>4 DEF IInv, TypeOK, TablesAfter
<1>6. InFlightOwned'
  <2>1. \A w \in Users : scan'.pc = w => w = u
    BY <1>3
  <2>2. QED
    BY <1>3, <1>4, <2>1 DEF InFlightOwned, TablesAfter
<1>7. GreetedIsClaimed'
  BY <1>1, <1>2, <1>4 DEF IInv, GreetedIsClaimed, TablesAfter
<1>8. GiftGoesToItsOwner' /\ GiftInHand'
  BY <1>2 DEF IInv, GiftGoesToItsOwner, GiftInHand
<1>9. QED
  BY <1>4, <1>5, <1>6, <1>7, <1>8 DEF IInv, TablesAfter

\* The scan and the gifts after a cut
LEMMA CutScan ==
    ASSUME TypeOK, NEW u \in Users, NEW left, Dies(u, left) \/ Raises(u, left)
    PROVE  scan' \in Scans /\ scan'.pc \in {"idle", "users"} /\ gift' \in {gift, NoGifts}
<1>1. CASE Dies(u, left)
  <2>1. 0 \in 0 .. LastDay
    BY BirthdayAssumption
  <2>2. QED
    BY <1>1, <2>1 DEF Dies, Idle, Scans
<1>2. CASE Raises(u, left)
  BY <1>2, NextUserScan DEF Raises
<1>3. QED
  BY <1>1, <1>2

\* The event after a cut, with a row that suits what the commits have left
LEMMA CutWrites ==
    ASSUME NEW u \in Users, NEW left \in EventStatuses, NEW row \in Statuses,
           Dies(u, left) \/ Raises(u, left),
           history' = [history EXCEPT ![u][YearOf(scan.day)] = row],
           Agree(left, row, TRUE)
    PROVE  \E status \in EventStatuses : Written(u, YearOf(scan.day), status, row)
<1> DEFINE y == YearOf(scan.day)
<1>1. PICK status \in {left, "failed"} : events' = [events EXCEPT ![u][y] = status]
  BY DEF Dies, Raises, SetEvent
<1>2. cut' = cut \cup {<<u, y>>}
  BY DEF Dies, Raises
<1>3. Agree(status, row, TRUE) /\ status \in EventStatuses
  BY DEF Agree, EventStatuses
<1>4. Agree(status, row, <<u, y>> \in cut')
  BY <1>2, <1>3 DEF Agree
<1>5. QED
  BY <1>1, <1>2, <1>3, <1>4 DEF Written

\* A turn is cut before its greeting is sent.
LEMMA CutBeforeStep ==
    ASSUME IInv, NEW u \in Users, CutBeforeSend(u)
    PROVE  IInv'
<1> DEFINE y == YearOf(scan.day)
<1>1. y \in Years /\ history[u][y] = NoRow
  BY YearOfScan, WantedIsNew DEF IInv, CutBeforeSend
<1>2. UNCHANGED <<today, birthday, notifyOn, globalOn, bookedBy, greeted>>
  BY DEF CutBeforeSend
<1>3. scan' \in Scans /\ scan'.pc \in {"idle", "users"} /\ gift' \in {gift, NoGifts}
  BY CutScan DEF IInv, CutBeforeSend
<1>4. NoRow \notin ClaimedStatuses
  BY DEF ClaimedStatuses, Outcomes
<1>5. PICK row \in {NoRow, "skipped"} : history' = [history EXCEPT ![u][y] = row]
  <2>1. CASE UNCHANGED history
    BY <1>1, <2>1 DEF IInv, TypeOK, Tables, Keys
  <2>2. CASE history' = MarkSkipped(history, u, y)
    BY <1>1, <2>2 DEF MarkSkipped, InsertOrIgnore
  <2>3. QED
    BY <2>1, <2>2 DEF CutBeforeSend
<1>6. "pending" \in EventStatuses /\ row \in Statuses /\ Agree("pending", row, TRUE)
  BY DEF EventStatuses, Statuses, Agree
<1>7. PICK status \in EventStatuses : Written(u, y, status, row)
  BY <1>5, <1>6, CutWrites DEF CutBeforeSend
<1> HIDE DEF y
<1>8. QED
  BY <1>1, <1>2, <1>3, <1>4, <1>6, <1>7, TurnEnds DEF IInv, TypeOK

\* A turn is over, or cut, once the send came back.
LEMMA SendStep ==
    ASSUME IInv, NEW u \in Users,
           \/ SendRaises(u)
           \/ \E outcome \in Outcomes : SendDone(u, outcome) \/ CutAfterSend(u, outcome)
    PROVE  IInv'
<1> DEFINE y == YearOf(scan.day)
           left == events[u][y]
<1>1. /\ y \in Years /\ scan.pc = u
      /\ history[u][y] = "pending" /\ left \in EventStatuses \ {NoEvent}
  BY YearOfScan DEF IInv, TypeOK, InFlightOwned, SendRaises, SendDone, CutAfterSend
<1>2. left \in {"pending", "failed"} \cup ButtonStatuses
  BY <1>1, AgreeEverywhere, EventsForFacts DEF IInv, Agree
<1>3. UNCHANGED <<today, birthday, globalOn, bookedBy, greeted>>
  BY DEF SendRaises, SendDone, CutAfterSend
<1>4. notifyOn' \in [Users -> BOOLEAN]
  <2>1. UNCHANGED notifyOn \/ \E outcome \in Outcomes : SwitchedOff(u, outcome)
    BY DEF SendRaises, SendDone, CutAfterSend
  <2>2. QED
    BY <2>1, SwitchType DEF IInv, TypeOK
<1>5. \A row \in ClaimedStatuses : row \in Statuses /\ Agree(left, row, TRUE)
  BY <1>2 DEF ClaimedStatuses, Statuses, Agree
<1>6. /\ scan' \in Scans /\ scan'.pc \in {"idle", "users"} /\ gift' \in {gift, NoGifts}
      /\ \E status \in EventStatuses, row \in ClaimedStatuses : Written(u, y, status, row)
  <2>1. CASE SendRaises(u)
    <3>1. history' = [history EXCEPT ![u][y] = "pending"] /\ "pending" \in ClaimedStatuses
      BY <1>1, <2>1 DEF SendRaises, IInv, TypeOK, Tables, Keys, ClaimedStatuses
    <3>2. \E status \in EventStatuses : Written(u, y, status, "pending")
      BY <1>1, <1>5, <2>1, <3>1, CutWrites DEF SendRaises
    <3>3. QED
      BY <2>1, <3>1, <3>2, CutScan DEF SendRaises, IInv
  <2>2. ASSUME NEW outcome \in Outcomes, CutAfterSend(u, outcome)
        PROVE  /\ scan' \in Scans /\ scan'.pc \in {"idle", "users"} /\ gift' \in {gift, NoGifts}
               /\ \E status \in EventStatuses : Written(u, y, status, outcome)
               /\ outcome \in ClaimedStatuses
    <3>1. history' = [history EXCEPT ![u][y] = outcome] /\ outcome \in ClaimedStatuses
      BY <2>2 DEF CutAfterSend, MarkResult, ClaimedStatuses
    <3>2. \E status \in EventStatuses : Written(u, y, status, outcome)
      BY <1>1, <1>5, <2>2, <3>1, CutWrites DEF CutAfterSend
    <3>3. QED
      BY <2>2, <3>1, <3>2, CutScan DEF CutAfterSend, IInv
  <2>3. ASSUME NEW outcome \in Outcomes, SendDone(u, outcome)
        PROVE  /\ scan' \in Scans /\ scan'.pc = "users" /\ gift' = gift
               /\ Written(u, y, StatusAfter(outcome), outcome)
               /\ StatusAfter(outcome) \in EventStatuses /\ outcome \in ClaimedStatuses
    <3>1. /\ events' = [events EXCEPT ![u][y] = StatusAfter(outcome)]
          /\ history' = [history EXCEPT ![u][y] = outcome]
          /\ cut' = cut /\ gift' = gift /\ scan' = [scan EXCEPT !.pc = "users"]
      BY <2>3 DEF SendDone, SetEvent, MarkResult
    <3>2. Agree(StatusAfter(outcome), outcome, <<u, y>> \in cut')
      BY EventsForFacts DEF Agree
    <3>3. scan' \in Scans /\ scan'.pc = "users"
      BY <3>1 DEF IInv, TypeOK, Scans
    <3>4. StatusAfter(outcome) \in EventStatuses /\ outcome \in ClaimedStatuses
      BY EventsForFacts DEF ClaimedStatuses
    <3>5. QED
      BY <3>1, <3>2, <3>3, <3>4 DEF Written
  <2>4. QED
    BY <2>1, <2>2, <2>3
<1>7. PICK status \in EventStatuses, row \in ClaimedStatuses : Written(u, y, status, row)
  BY <1>6
<1> HIDE DEF y
<1>8. QED
  BY <1>1, <1>3, <1>4, <1>5, <1>6, <1>7, TurnEnds

\* The greeting arrives while its row is pending.
LEMMA ArrivesStep ==
    ASSUME IInv, NEW u \in Users, Arrives(u)
    PROVE  IInv'
<1>1. /\ scan.pc = u /\ greeted' = greeted \cup {<<u, YearOf(scan.day)>>}
      /\ UNCHANGED <<today, birthday, notifyOn, globalOn, events, bookedBy, history>>
      /\ UNCHANGED <<scan, gift, cut>>
  BY DEF Arrives
<1>2. YearOf(scan.day) \in Years /\ history[u][YearOf(scan.day)] \in ClaimedStatuses
  BY <1>1, YearOfScan DEF IInv, InFlightOwned, ClaimedStatuses
<1>3. TypeOK'
  BY <1>1, <1>2 DEF IInv, TypeOK
<1>4. GreetedIsClaimed'
  BY <1>1, <1>2 DEF IInv, GreetedIsClaimed
<1>5. QED
  BY <1>1, <1>3, <1>4
  DEF IInv, EventsAgreeWithHistory, GiftGoesToItsOwner, InFlightOwned, GiftInHand

\* The button of a greeting received: the event leaves no doubt of its row.
LEMMA ButtonStep ==
    ASSUME IInv, NEW u \in Users, NEW y \in Years, <<u, y>> \in greeted,
           NEW status \in {"clicked_booking", "booked_from_birthday_gift"},
           SetEvent(u, y, status),
           UNCHANGED <<today, birthday, notifyOn, globalOn, history, scan, greeted, cut>>,
           bookedBy' = bookedBy \/ bookedBy' = [bookedBy EXCEPT ![u][y] = u],
           gift' \in {[gift EXCEPT ![u] = <<u, y>>], gift}
    PROVE  IInv'
<1>1. status \in EventStatuses
  BY DEF EventStatuses, ButtonStatuses
<1>2. history[u][y] \in ClaimedStatuses /\ history[u][y] \in Statuses
  BY DEF IInv, GreetedIsClaimed, TypeOK, Tables, Keys
<1>3. Agree(status, history[u][y], <<u, y>> \in cut')
  BY <1>2 DEF Agree, ButtonStatuses
<1>4. history' = [history EXCEPT ![u][y] = history[u][y]]
  BY DEF IInv, TypeOK, Tables, Keys
<1>5. /\ events' \in [Users -> [Years -> EventStatuses]] /\ EventsAgreeWithHistory'
      /\ \A w \in Users, z \in Years :
            events'[w][z] = IF <<w, z>> = <<u, y>> THEN status ELSE events[w][z]
  <2>1. events' = [events EXCEPT ![u][y] = status]
    BY DEF SetEvent
  <2>2. TypeOK /\ EventsAgreeWithHistory /\ cut' = cut
    BY DEF IInv
  <2>3. PICK row \in Statuses : row = history[u][y]
    BY <1>2
  <2>4. Written(u, y, status, row)
    BY <1>3, <1>4, <2>1, <2>2, <2>3 DEF Written
  <2>5. /\ events' \in [Users -> [Years -> EventStatuses]] /\ EventsAgreeWithHistory'
        /\ events'[u][y] = status
        /\ \A w \in Users, z \in Years : <<w, z>> # <<u, y>> => events'[w][z] = events[w][z]
    BY <1>1, <2>1, <2>2, <2>4, TablesChange DEF TablesAfter
  <2>6. QED
    BY <2>5
<1>6. gift' \in [Users -> (Users \X Years) \cup {<<>>}]
  <2>1. gift \in [Users -> (Users \X Years) \cup {<<>>}]
    BY DEF IInv, TypeOK
  <2>2. <<u, y>> \in (Users \X Years) \cup {<<>>} /\ <<>> \in (Users \X Years) \cup {<<>>}
    OBVIOUS
  <2>3. QED
    BY <2>1, <2>2, Zenon
<1>7. bookedBy' \in [Users -> [Years -> Users \cup {Nobody}]]
  <2>1. bookedBy \in [Users -> [Years -> Users \cup {Nobody}]]
    BY DEF IInv, TypeOK
  <2>2. CASE bookedBy' = [bookedBy EXCEPT ![u][y] = u]
    BY <2>1, <2>2
  <2>3. QED
    BY <2>1, <2>2
<1>8. TypeOK'
  BY <1>5, <1>6, <1>7 DEF IInv, TypeOK
<1>9. GiftInHand'
  <2>1. ASSUME NEW v \in Users, gift'[v] # <<>>
        PROVE  \E z \in Years : gift'[v] = <<v, z>> /\ <<v, z>> \in greeted
    <3>1. CASE gift' = [gift EXCEPT ![u] = <<u, y>>] /\ v = u
      BY <3>1 DEF IInv, TypeOK
    <3>2. CASE gift' = gift \/ v # u
      BY <2>1, <3>2 DEF IInv, TypeOK, GiftInHand
    <3>3. QED
      BY <3>1, <3>2
  <2>2. QED
    BY <2>1 DEF GiftInHand
<1>10. GiftGoesToItsOwner'
  <2>1. ASSUME NEW w \in Users, NEW z \in Years
        PROVE  bookedBy'[w][z] = bookedBy[w][z] \/ (w = u /\ z = y /\ bookedBy'[w][z] = u)
    BY DEF IInv, TypeOK
  <2>2. QED
    BY <2>1 DEF IInv, GiftGoesToItsOwner
<1>11. InFlightOwned'
  <2>1. ASSUME NEW w \in Users, scan.pc = w
        PROVE  events'[w][YearOf(scan.day)] # NoEvent
    BY <1>5, <2>1, YearOfScan DEF IInv, InFlightOwned
  <2>2. QED
    BY <2>1 DEF IInv, InFlightOwned
<1>12. GreetedIsClaimed'
  BY DEF IInv, GreetedIsClaimed
<1>13. QED
  BY <1>5, <1>8, <1>9, <1>10, <1>11, <1>12 DEF IInv

\* Days pass, birthdays are edited, users become unreachable, the process dies.
LEMMA WorldStep ==
    ASSUME IInv,
           \/ Crash \/ NewDay \/ ToggleGlobal
           \/ \E u \in Users : \/ LeaveBooking(u) \/ SwitchOff(u)
                               \/ \E d \in 0 .. YearDays - 1 : EditBirthday(u, d)
    PROVE  IInv'
<1>1. UNCHANGED <<events, bookedBy, history, greeted, cut>>
  BY DEF Crash, NewDay, ToggleGlobal, LeaveBooking, SwitchOff, EditBirthday
<1>2. today' \in 0 .. LastDay
  <2>1. today \in 0 .. LastDay /\ LastDay \in Nat
    BY BirthdayAssumption DEF IInv, TypeOK
  <2>2. CASE NewDay
    BY <2>1, <2>2 DEF NewDay
  <2>3. CASE UNCHANGED today
    BY <2>1, <2>3
  <2>4. QED
    BY <2>2, <2>3 DEF Crash, NewDay, ToggleGlobal, LeaveBooking, SwitchOff, EditBirthday
<1>3. birthday' \in [Users -> 0 .. YearDays - 1]
  BY DEF IInv, TypeOK, Crash, NewDay, ToggleGlobal, LeaveBooking, SwitchOff, EditBirthday
<1>4. globalOn' \in BOOLEAN
  <2>1. globalOn' = globalOn \/ globalOn' = ~ globalOn
    BY DEF Crash, NewDay, ToggleGlobal, LeaveBooking, SwitchOff, EditBirthday
  <2>2. globalOn \in BOOLEAN
    BY DEF IInv, TypeOK
  <2>3. QED
    BY <2>1, <2>2, Zenon
<1>5. notifyOn' \in [Users -> BOOLEAN] /\ \A u \in Users : notifyOn'[u] => notifyOn[u]
  <2>1. notifyOn \in [Users -> BOOLEAN]
    BY DEF IInv, TypeOK
  <2>2. ASSUME NEW u \in Users, SwitchOff(u)
        PROVE  notifyOn' \in [Users -> BOOLEAN] /\ \A w \in Users : notifyOn'[w] => notifyOn[w]
    BY <2>1, <2>2 DEF SwitchOff
  <2>3. CASE UNCHANGED notifyOn
    BY <2>1, <2>3
  <2>4. QED
    BY <2>2, <2>3 DEF Crash, NewDay, ToggleGlobal, LeaveBooking, SwitchOff, EditBirthday
<1>6. scan' \in Scans /\ InFlightOwned'
  <2>1. CASE Crash
    <3>1. 0 \in 0 .. LastDay
      BY BirthdayAssumption
    <3>2. scan' \in Scans /\ scan'.pc = "idle"
      BY <2>1, <3>1 DEF Crash, Idle, Scans
    <3>3. QED
      BY <3>2, BirthdayAssumption DEF InFlightOwned
  <2>2. CASE UNCHANGED scan
    BY <1>1, <2>2 DEF IInv, TypeOK, InFlightOwned
  <2>3. QED
    BY <2>1, <2>2 DEF Crash, NewDay, ToggleGlobal, LeaveBooking, SwitchOff, EditBirthday
<1>7. /\ gift' \in [Users -> (Users \X Years) \cup {<<>>}]
      /\ \A v \in Users : gift'[v] \in {gift[v], <<>>}
  <2>1. gift \in [Users -> (Users \X Years) \cup {<<>>}]
    BY DEF IInv, TypeOK
  <2>2. CASE Crash
    BY <2>1, <2>2 DEF Crash, NoGifts
  <2>3. ASSUME NEW u \in Users, LeaveBooking(u)
        PROVE  /\ gift' \in [Users -> (Users \X Years) \cup {<<>>}]
               /\ \A v \in Users : gift'[v] \in {gift[v], <<>>}
    BY <2>1, <2>3 DEF LeaveBooking
  <2>4. CASE UNCHANGED gift
    BY <2>1, <2>4
  <2>5. QED
    BY <2>2, <2>3, <2>4 DEF Crash, NewDay, ToggleGlobal, LeaveBooking, SwitchOff, EditBirthday
<1>8. TypeOK'
  BY <1>1, <1>2, <1>3, <1>4, <1>5, <1>6, <1>7 DEF IInv, TypeOK
<1>9. EventsAgreeWithHistory'
  BY <1>1, <1>5 DEF IInv, EventsAgreeWithHistory
<1>10. GiftInHand'
  BY <1>1, <1>7 DEF IInv, GiftInHand
<1>11. GiftGoesToItsOwner' /\ GreetedIsClaimed'
  BY <1>1 DEF IInv, GiftGoesToItsOwner, GreetedIsClaimed
<1>12. QED
  BY <1>6, <1>8, <1>9, <1>10, <1>11 DEF IInv

\* The button starts a booking, and the booking takes the gift.
LEMMA GiftStep ==
    ASSUME IInv, NEW u \in Users,
           BookGift(u) \/ \E v \in Users, y \in Years : Tap(v, u, y)
    PROVE  IInv'
<1>1. CASE BookGift(u)
  <2>1. PICK y \in Years : gift[u] = <<u, y>> /\ <<u, y>> \in greeted
    BY <1>1 DEF BookGift, IInv, GiftInHand
  <2>2. gift[u][1] = u /\ gift[u][2] = y
    BY <2>1
  <2>3. /\ SetEvent(u, y, "booked_from_birthday_gift")
        /\ bookedBy' = [bookedBy EXCEPT ![u][y] = u]
        /\ UNCHANGED <<today, birthday, notifyOn, globalOn, history, scan, greeted, gift, cut>>
    BY <1>1, <2>2 DEF BookGift
  <2>4. QED
    BY <2>1, <2>3, ButtonStep
<1>2. ASSUME NEW v \in Users, NEW y \in Years, Tap(v, u, y) PROVE IInv'
  <2>1. /\ <<u, y>> \in greeted /\ SetEvent(u, y, "clicked_booking")
        /\ bookedBy' = bookedBy
        /\ gift' = [gift EXCEPT ![u] = <<u, y>>]
        /\ UNCHANGED <<today, birthday, notifyOn, globalOn, history, scan, greeted, cut>>
    BY <1>2 DEF Tap
  <2>2. QED
    BY <2>1, ButtonStep
<1>3. QED
  BY <1>1, <1>2

LEMMA NextIInv == IInv /\ [Next]_vars => IInv'
<1> SUFFICES ASSUME IInv, [Next]_vars PROVE IInv'
  OBVIOUS
<1>1. ASSUME NEW u \in Users, GloballyOff(u) \/ Reserved(u) \/ NotReserved(u) \/ CutBeforeSend(u)
      PROVE  IInv'
  BY <1>1, NotSentStep, ReservedStep, CutBeforeStep
<1>2. ASSUME NEW u \in Users,
             \/ SendRaises(u)
             \/ \E outcome \in Outcomes : SendDone(u, outcome) \/ CutAfterSend(u, outcome)
      PROVE  IInv'
  BY <1>2, SendStep
<1>3. ASSUME NEW u \in Users, Arrives(u) PROVE IInv'
  BY <1>3, ArrivesStep
<1>4. ASSUME NEW u \in Users, BookGift(u) \/ \E v \in Users, y \in Years : Tap(v, u, y)
      PROVE  IInv'
  BY <1>4, GiftStep
<1>5. CASE BeginScan \/ EndScan \/ \E u \in Users : PassOver(u)
  BY <1>5, ScanStep
<1>6. CASE \/ Crash \/ NewDay \/ ToggleGlobal
           \/ \E u \in Users : \/ LeaveBooking(u) \/ SwitchOff(u)
                               \/ \E d \in 0 .. YearDays - 1 : EditBirthday(u, d)
  BY <1>6, WorldStep
<1>7. CASE UNCHANGED vars
  BY <1>7
  DEF vars, IInv, TypeOK, EventsAgreeWithHistory, GiftGoesToItsOwner, InFlightOwned,
      GreetedIsClaimed, GiftInHand
<1>8. QED
  BY <1>1, <1>2, <1>3, <1>4, <1>5, <1>6, <1>7 DEF Next

\* The inductive invariant holds in every reachable state.
THEOREM Invariance == Spec => []IInv
  BY InitIInv, NextIInv, PTL DEF Spec

\* Every value stays in its type.
THEOREM TypeCorrect == Spec => []TypeOK
<1>1. IInv => TypeOK
  BY DEF IInv
<1>2. QED
  BY <1>1, Invariance, PTL

\* birthday_funnel_events and notification_history tell one story, but for turns
\* cut between two commits, whose events stay pending or failed.
THEOREM EventsAgreeAlways == Spec => []EventsAgreeWithHistory
<1>1. IInv => EventsAgreeWithHistory
  BY DEF IInv
<1>2. QED
  BY <1>1, Invariance, PTL

\* A gift is booked by the client it was given to, who got the greeting.
THEOREM GiftGoesToItsOwnerAlways == Spec => []GiftGoesToItsOwner
<1>1. IInv => GiftGoesToItsOwner
  BY DEF IInv
<1>2. QED
  BY <1>1, Invariance, PTL

\* A greeting is attempted once for a user and a year, whatever happens later.
THEOREM OneAttemptPerYearAlways == Spec => OneAttemptPerYear
<1> DEFINE Once == \A u \in Users, y \in Years :
                       Attempted(u, y) /\ ~ InFlight(u, y) => ~ InFlight(u, y)'
<1>1. ASSUME IInv, Next, NEW u \in Users, NEW y \in Years, InFlight(u, y)', ~ InFlight(u, y)
      PROVE  ~ Attempted(u, y)
  <2>1. ASSUME NEW w \in Users, Reserved(w) PROVE ~ Attempted(u, y)
    <3>1. Wanted(w) /\ NextUser(w, w)
      BY <2>1 DEF Reserved
    <3>2. scan'.pc = w /\ scan'.day = scan.day
      BY <1>1, <3>1, NextUserScan DEF IInv
    <3>3. w = u /\ y = YearOf(scan.day)
      BY <1>1, <3>2 DEF InFlight
    <3>4. QED
      BY <1>1, <3>1, <3>3, WantedIsNew DEF Attempted
  <2>2. UNCHANGED scan => FALSE
    BY <1>1 DEF InFlight
  <2>3. scan'.pc \in {"idle", "users"} => FALSE
    BY <1>1, BirthdayAssumption DEF InFlight
  <2>4. CASE BeginScan \/ EndScan \/ Crash
    BY <2>3, <2>4 DEF BeginScan, EndScan, Crash, Idle
  <2>10. ASSUME NEW w \in Users, NEW left, Dies(w, left) \/ Raises(w, left) PROVE FALSE
    BY <1>1, <2>3, <2>10, CutScan DEF IInv
  <2>5. ASSUME NEW w \in Users, PassOver(w) \/ GloballyOff(w) \/ NotReserved(w) PROVE FALSE
    <3>1. NextUser(w, "users")
      BY <2>5 DEF PassOver, GloballyOff, NotReserved
    <3>2. scan'.pc = "users"
      BY <1>1, <3>1, NextUserScan DEF IInv
    <3>3. QED
      BY <2>3, <3>2
  <2>6. ASSUME NEW w \in Users, NEW outcome \in Outcomes, SendDone(w, outcome) PROVE FALSE
    <3>1. scan' = [scan EXCEPT !.pc = "users"]
      BY <2>6 DEF SendDone
    <3>2. scan'.pc = "users"
      BY <1>1, <3>1 DEF IInv, TypeOK, Scans
    <3>3. QED
      BY <2>3, <3>2
  <2>11. ASSUME NEW w \in Users,
                \/ SendRaises(w) \/ CutBeforeSend(w)
                \/ \E outcome \in Outcomes : CutAfterSend(w, outcome)
         PROVE  FALSE
    BY <2>10, <2>11 DEF SendRaises, CutBeforeSend, CutAfterSend
  <2>7. ASSUME NEW w \in Users,
               \/ Arrives(w) \/ BookGift(w) \/ LeaveBooking(w) \/ SwitchOff(w)
               \/ \E d \in 0 .. YearDays - 1 : EditBirthday(w, d)
               \/ \E v \in Users, z \in Years : Tap(v, w, z)
        PROVE  FALSE
    BY <2>2, <2>7 DEF Arrives, BookGift, LeaveBooking, SwitchOff, EditBirthday, Tap
  <2>8. CASE NewDay \/ ToggleGlobal
    BY <2>2, <2>8 DEF NewDay, ToggleGlobal
  <2>9. QED
    BY <1>1, <2>1, <2>4, <2>5, <2>6, <2>7, <2>8, <2>11 DEF Next
<1>2. IInv /\ [Next]_vars => [Once]_vars
  BY <1>1
<1>3. QED
  BY <1>2, Invariance, PTL DEF Spec, OneAttemptPerYear

-----------------------------------------------------------------------------
(* The greeting keeps the promise of the delivery protocol *)

\* A year's key has one owner.
OneOwner ==
    \A y \in Years : \A u, v \in Users :
        history[u][y] \in ClaimedStatuses /\ history[v][y] \in ClaimedStatuses => u = v

\* The three ways a row is written
Closes(u, y) ==
    history[u][y] = NoRow /\ history' = [history EXCEPT ![u][y] = "skipped"]
Reserves(u, y) ==
    CanReserve(history, y) /\ history' = [history EXCEPT ![u][y] = "pending"]
Records(u, y) ==
    history[u][y] = "pending" /\ \E row \in Outcomes : history' = [history EXCEPT ![u][y] = row]

LEMMA DecideWrites ==
    ASSUME IInv, NEW u \in Users,
           GloballyOff(u) \/ Reserved(u) \/ NotReserved(u) \/ CutBeforeSend(u)
    PROVE  \/ history' = history
           \/ \E y \in Years : Closes(u, y) \/ Reserves(u, y)
<1> DEFINE y == YearOf(scan.day)
<1>1. y \in Years /\ history[u][y] = NoRow
  BY YearOfScan, WantedIsNew DEF IInv, GloballyOff, Reserved, NotReserved, CutBeforeSend
<1>2. GloballyOff(u) => Closes(u, y)
  BY <1>1 DEF GloballyOff, MarkSkipped, InsertOrIgnore, Closes
<1>3. Reserved(u) => Reserves(u, y)
  BY <1>1 DEF Reserved, Reserve, InsertOrIgnore, Reserves
<1>4. NotReserved(u) => history' = history
  BY DEF NotReserved
<1>5. CutBeforeSend(u) => history' = history \/ Closes(u, y)
  BY <1>1 DEF CutBeforeSend, MarkSkipped, InsertOrIgnore, Closes
<1>6. QED
  BY <1>1, <1>2, <1>3, <1>4, <1>5

LEMMA SendWrites ==
    ASSUME IInv, NEW u \in Users, NEW outcome \in Outcomes,
           SendDone(u, outcome) \/ CutAfterSend(u, outcome)
    PROVE  \E y \in Years : Records(u, y)
<1> DEFINE y == YearOf(scan.day)
<1>1. y \in Years /\ history[u][y] = "pending"
  BY YearOfScan DEF IInv, InFlightOwned, SendDone, CutAfterSend
<1>2. history' = [history EXCEPT ![u][y] = outcome]
  BY DEF SendDone, CutAfterSend, MarkResult
<1>3. QED
  BY <1>1, <1>2 DEF Records

\* Nothing but these writes, and nobody else's greeting
LEMMA HistoryStep ==
    ASSUME IInv, [Next]_vars
    PROVE  \/ history' = history
           \/ UNCHANGED greeted /\ \E u \in Users, y \in Years :
                  Closes(u, y) \/ Reserves(u, y) \/ Records(u, y)
<1>1. ASSUME NEW u \in Users, GloballyOff(u) \/ Reserved(u) \/ NotReserved(u) \/ CutBeforeSend(u)
      PROVE  \/ history' = history
             \/ UNCHANGED greeted /\ \E y \in Years : Closes(u, y) \/ Reserves(u, y)
  BY <1>1, DecideWrites DEF GloballyOff, Reserved, NotReserved, CutBeforeSend
<1>2. ASSUME NEW u \in Users, NEW outcome \in Outcomes,
             SendDone(u, outcome) \/ CutAfterSend(u, outcome)
      PROVE  UNCHANGED greeted /\ \E y \in Years : Records(u, y)
  BY <1>2, SendWrites DEF SendDone, CutAfterSend
<1>3. CASE \/ BeginScan \/ EndScan \/ Crash \/ NewDay \/ ToggleGlobal \/ UNCHANGED vars
           \/ \E u \in Users : \/ PassOver(u) \/ Arrives(u) \/ SendRaises(u) \/ BookGift(u)
                               \/ LeaveBooking(u) \/ SwitchOff(u)
                               \/ \E d \in 0 .. YearDays - 1 : EditBirthday(u, d)
                               \/ \E v \in Users, y \in Years : Tap(v, u, y)
  BY <1>3 DEF BeginScan, EndScan, Crash, NewDay, ToggleGlobal, vars, PassOver, Arrives, SendRaises,
              BookGift, LeaveBooking, SwitchOff, EditBirthday, Tap
<1>4. QED
  BY <1>1, <1>2, <1>3 DEF Next

\* A key is reserved only when nobody has a row for it.
LEMMA OneOwnerStep ==
    ASSUME IInv, OneOwner, [Next]_vars
    PROVE  OneOwner'
<1>1. CASE history' = history
  BY <1>1 DEF OneOwner
<1>2. ASSUME NEW u \in Users, NEW y \in Years, Closes(u, y) \/ Reserves(u, y) \/ Records(u, y)
      PROVE  OneOwner'
  <2>1. PICK row : /\ history' = [history EXCEPT ![u][y] = row]
                   /\ \/ row = "skipped"
                      \/ \A v \in Users : history[v][y] = NoRow
                      \/ history[u][y] = "pending"
    BY <1>2 DEF Closes, Reserves, Records, CanReserve, HasRowForKey
  <2>2. \A v \in Users, z \in Years :
            history'[v][z] = IF v = u /\ z = y THEN row ELSE history[v][z]
    BY <2>1 DEF IInv, TypeOK, Tables, Keys
  <2>3. {"skipped", NoRow} \cap ClaimedStatuses = {} /\ "pending" \in ClaimedStatuses
    BY DEF ClaimedStatuses, Outcomes
  <2>4. QED
    BY <2>1, <2>2, <2>3 DEF OneOwner
<1>3. QED
  BY <1>1, <1>2, HistoryStep

\* What ClaimOf says of a key with one owner at most
LEMMA ClaimOfValue ==
    ASSUME NEW h, NEW y,
           \A u, v \in Users :
               h[u][y] \in ClaimedStatuses /\ h[v][y] \in ClaimedStatuses => u = v
    PROVE  /\ \A u \in Users : h[u][y] \in ClaimedStatuses => ClaimOf(h, y) = u
           /\ (\A u \in Users : h[u][y] \notin ClaimedStatuses) =>
                  /\ HasRowForKey(h, y) => ClaimOf(h, y) = "closed"
                  /\ ~ HasRowForKey(h, y) => ClaimOf(h, y) = "unclaimed"
  BY DEF ClaimOf

\* The claims when one row is written
LEMMA ClaimsChange ==
    ASSUME TypeOK, NEW u \in Users, NEW y \in Years, NEW row,
           history' = [history EXCEPT ![u][y] = row]
    PROVE  Claims' = [Claims EXCEPT ![y] = ClaimOf(history', y)]
<1>1. \A v \in Users, z \in Years :
          history'[v][z] = IF v = u /\ z = y THEN row ELSE history[v][z]
  BY DEF TypeOK, Tables, Keys
<1>2. ASSUME NEW z \in Years, z # y PROVE ClaimOf(history', z) = ClaimOf(history, z)
  <2>1. \A v \in Users : history'[v][z] = history[v][z]
    BY <1>1, <1>2
  <2>2. QED
    BY <2>1 DEF ClaimOf, HasRowForKey
<1>3. QED
  BY <1>2 DEF Claims

\* A first row that is not reserved closes the key; a later one changes nothing.
LEMMA ClosesRefines ==
    ASSUME IInv, OneOwner, UNCHANGED greeted, NEW u \in Users, NEW y \in Years, Closes(u, y)
    PROVE  Promise!Next \/ UNCHANGED Promise!vars
<1>1. \A v \in Users :
          history'[v][y] = IF v = u THEN "skipped" ELSE history[v][y]
  BY DEF Closes, IInv, TypeOK, Tables, Keys
<1>2. Claims' = [Claims EXCEPT ![y] = ClaimOf(history', y)] /\ Copies' = Copies
  BY ClaimsChange DEF Closes, Copies, IInv
<1>3. {"skipped", NoRow} \cap ClaimedStatuses = {} /\ history[u][y] = NoRow
  BY DEF ClaimedStatuses, Outcomes, Closes
<1>4. \A v \in Users : history'[v][y] \in ClaimedStatuses <=> history[v][y] \in ClaimedStatuses
  BY <1>1, <1>3
<1>5. HasRowForKey(history', y)
  BY <1>1 DEF HasRowForKey
<1>6. CASE HasRowForKey(history, y)
  <2>1. ClaimOf(history', y) = ClaimOf(history, y)
    <3>1. CASE \E v \in Users : history[v][y] \in ClaimedStatuses
      BY <1>4, <3>1, ClaimOfValue DEF OneOwner
    <3>2. CASE \A v \in Users : history[v][y] \notin ClaimedStatuses
      BY <1>4, <1>5, <1>6, <3>2 DEF ClaimOf
    <3>3. QED
      BY <3>1, <3>2
  <2>2. Claims' = Claims
    BY <1>2, <2>1 DEF Claims
  <2>3. QED
    BY <1>2, <2>2 DEF Promise!vars
<1>7. CASE ~ HasRowForKey(history, y)
  <2>1. \A v \in Users : history[v][y] \notin ClaimedStatuses
    BY <1>3, <1>7 DEF HasRowForKey
  <2>2. Claims[y] = "unclaimed" /\ ClaimOf(history', y) = "closed"
    BY <1>4, <1>5, <1>7, <2>1 DEF Claims, ClaimOf
  <2>3. Claims' = [z \in Years |-> IF z \in {y} THEN "closed" ELSE Claims[z]]
    BY <1>2, <2>2 DEF Claims
  <2>4. Promise!Close({y})
    BY <1>2, <2>2, <2>3 DEF Promise!Close, Promise!NoClaim, Promise!Closed, Keys
  <2>5. QED
    BY <2>4 DEF Promise!Next, Keys
<1>8. QED
  BY <1>6, <1>7

\* The reservation gives the year to one user.
LEMMA ReservesRefines ==
    ASSUME IInv, OneOwner, UNCHANGED greeted, NEW u \in Users, NEW y \in Years, Reserves(u, y)
    PROVE  Promise!Next
<1>1. /\ \A v \in Users : history[v][y] = NoRow
      /\ \A v \in Users : history'[v][y] = IF v = u THEN "pending" ELSE history[v][y]
  BY DEF Reserves, CanReserve, HasRowForKey, IInv, TypeOK, Tables, Keys
<1>2. Claims' = [Claims EXCEPT ![y] = ClaimOf(history', y)] /\ Copies' = Copies
  BY ClaimsChange DEF Reserves, Copies, IInv
<1>3. NoRow \notin ClaimedStatuses /\ "pending" \in ClaimedStatuses
  BY DEF ClaimedStatuses, Outcomes
<1>4. Claims[y] = "unclaimed"
  BY <1>1, <1>3 DEF Claims, ClaimOf, HasRowForKey
<1>5. ClaimOf(history', y) = u
  <2>1. \A v \in Users : history'[v][y] \in ClaimedStatuses <=> v = u
    BY <1>1, <1>3
  <2>2. QED
    BY <2>1, ClaimOfValue
<1>6. Promise!Claim(u, y)
  BY <1>2, <1>4, <1>5 DEF Promise!Claim, Promise!NoClaim
<1>7. QED
  BY <1>6 DEF Promise!Next, Keys

\* The outcome is recorded for the user whose year it is.
LEMMA RecordsRefines ==
    ASSUME IInv, OneOwner, UNCHANGED greeted, NEW u \in Users, NEW y \in Years, Records(u, y)
    PROVE  UNCHANGED Promise!vars
<1>1. PICK row \in Outcomes : history' = [history EXCEPT ![u][y] = row]
  BY DEF Records
<1>2. \A v \in Users : history'[v][y] = IF v = u THEN row ELSE history[v][y]
  BY <1>1 DEF IInv, TypeOK, Tables, Keys
<1>3. Claims' = [Claims EXCEPT ![y] = ClaimOf(history', y)] /\ Copies' = Copies
  BY <1>1, ClaimsChange DEF Copies, IInv
<1>4. row \in ClaimedStatuses /\ history[u][y] \in ClaimedStatuses
  BY DEF ClaimedStatuses, Records
<1>5. \A v \in Users : history'[v][y] \in ClaimedStatuses <=> v = u
  BY <1>2, <1>4 DEF OneOwner
<1>6. ClaimOf(history', y) = u /\ ClaimOf(history, y) = u
  BY <1>4, <1>5, ClaimOfValue DEF OneOwner
<1>7. Claims' = Claims
  BY <1>3, <1>6 DEF Claims
<1>8. QED
  BY <1>3, <1>7 DEF Promise!vars

\* The greeting goes to the user of the year.
LEMMA ArrivesRefines ==
    ASSUME IInv, OneOwner, NEW u \in Users, Arrives(u)
    PROVE  Promise!Next \/ UNCHANGED Promise!vars
<1> DEFINE y == YearOf(scan.day)
<1>1. y \in Years /\ history[u][y] = "pending"
  BY YearOfScan DEF IInv, InFlightOwned, Arrives
<1>2. greeted' = greeted \cup {<<u, y>>} /\ history' = history
  BY DEF Arrives
<1>3. Claims' = Claims /\ Claims[y] = u
  <2>1. "pending" \in ClaimedStatuses
    BY DEF ClaimedStatuses
  <2>2. ClaimOf(history, y) = u
    BY <1>1, <2>1, ClaimOfValue DEF OneOwner
  <2>3. QED
    BY <1>1, <1>2, <2>2 DEF Claims
<1> HIDE DEF y
<1>4. CASE <<u, y>> \in greeted
  BY <1>2, <1>3, <1>4 DEF Promise!vars, Copies
<1>5. CASE <<u, y>> \notin greeted
  <2>1. Copies[u][y] = 0 /\ Copies' = [Copies EXCEPT ![u][y] = 1]
    BY <1>1, <1>2, <1>5 DEF Copies
  <2>2. Promise!DeliverCopy(u, y)
    BY <1>3, <2>1 DEF Promise!DeliverCopy
  <2>3. QED
    BY <1>1, <2>2 DEF Promise!Next, Keys
<1>6. QED
  BY <1>4, <1>5

LEMMA NextRefines == IInv /\ OneOwner /\ [Next]_vars => [Promise!Next]_(Promise!vars)
<1> SUFFICES ASSUME IInv, OneOwner, [Next]_vars PROVE Promise!Next \/ UNCHANGED Promise!vars
  OBVIOUS
<1>1. CASE history' = history /\ greeted' = greeted
  BY <1>1 DEF Promise!vars, Claims, Copies
<1>2. CASE \E u \in Users : Arrives(u)
  BY <1>2, ArrivesRefines
<1>3. CASE UNCHANGED greeted /\ history' # history
  BY <1>3, HistoryStep, ClosesRefines, ReservesRefines, RecordsRefines
<1>4. CASE greeted' # greeted
  <2>1. \E u \in Users : Arrives(u)
    BY <1>4 DEF Next, vars, BeginScan, EndScan, Crash, NewDay, ToggleGlobal, PassOver, GloballyOff,
                Reserved, NotReserved, CutBeforeSend, SendRaises, SendDone, CutAfterSend,
                BookGift, LeaveBooking, SwitchOff, EditBirthday, Tap
  <2>2. QED
    BY <1>2, <2>1
<1>5. QED
  BY <1>1, <1>3, <1>4

\* Initially every year is undecided.
LEMMA InitRefines == Init => OneOwner /\ Promise!Init
<1> SUFFICES ASSUME Init PROVE OneOwner /\ Promise!Init
  OBVIOUS
<1>1. \A u \in Users, y \in Years : history[u][y] = NoRow
  BY DEF Init, EmptyTable, Keys
<1>2. NoRow \notin ClaimedStatuses
  BY DEF ClaimedStatuses, Outcomes
<1>3. \A y \in Years : ClaimOf(history, y) = "unclaimed"
  BY <1>1, <1>2 DEF ClaimOf, HasRowForKey
<1>4. QED
  BY <1>1, <1>2, <1>3 DEF OneOwner, Init, Promise!Init, Claims, Copies, Promise!NoClaim, Keys

\* A year's key is never two users': however scans stop, days pass and birthdays
\* are edited (the look-up of reserve_notification_history ignores the user).
THEOREM OneOwnerAlways == Spec => []OneOwner
<1>1. Init => OneOwner
  BY InitRefines
<1>2. IInv /\ OneOwner /\ [Next]_vars => OneOwner'
  BY OneOwnerStep
<1>3. QED
  BY <1>1, <1>2, Invariance, PTL DEF Spec

\* Scans keep the promise of the delivery protocol, under a key that is one for
\* all users: a year's greeting is decided once, for one user or for nobody.
THEOREM PromiseKept == Spec => PromiseSpec
<1>1. Init => Promise!Init
  BY InitRefines
<1>2. IInv /\ OneOwner /\ [Next]_vars => [Promise!Next]_(Promise!vars)
  BY NextRefines
<1>3. QED
  BY <1>1, <1>2, Invariance, OneOwnerAlways, PTL DEF Spec, PromiseSpec, Promise!Spec

=============================================================================
