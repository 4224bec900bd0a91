------------------------- MODULE NotificationsProofs -------------------------
(***************************************************************************)
(* The safety properties of Notifications for every set of users, keys and *)
(* tasks and every retry budget, and the refinement of OnceOnlyDelivery.   *)
(***************************************************************************)
EXTENDS Notifications, TLAPS

USE DEF NoRow, Outcomes, ActiveStatuses, ClaimedStatuses

\* The initial state satisfies the inductive invariant.
LEMMA InitIInv == Init => IInv
<1> USE DEF Init, EmptyTable, Idle
<1>1. Init => TypeOK
  BY DEF TypeOK, Tables, Statuses
<1>2. Init => OneOwner /\ CallsOwnRows /\ CopiesCounted
  BY DEF OneOwner, CallsOwnRows, CopiesCounted, Claimed, Sending
<1>3. Init => PendingIsOwned /\ BoundedDelivery /\ SentIsTrue
  BY ConstantsAssumption DEF PendingIsOwned, BoundedDelivery, SentIsTrue
<1>4. QED
  BY <1>1, <1>2, <1>3 DEF IInv

\* A decision not to send writes at most one new row, and that row is not a
\* claim.
LEMMA DecideStep ==
    ASSUME IInv, NEW u \in Users, NEW k \in Keys, Decide(u, k)
    PROVE  IInv'
<1>1. /\ history' = IF history[u][k] = NoRow
                      THEN [history EXCEPT ![u][k] = "skipped"] ELSE history
      /\ UNCHANGED <<globalOn, userOn, call, delivered, abandoned>>
  BY DEF Decide, SkipGloballyOff, SkipUserOff, SkipByCaller, MarkSkipped, InsertOrIgnore
<1>2. TypeOK'
  BY <1>1 DEF IInv, TypeOK, Tables, Statuses
<1>3. \A v \in Users, j \in Keys :
          \/ history'[v][j] = history[v][j]
          \/ history[v][j] = "none" /\ history'[v][j] = "skipped"
  BY <1>1 DEF IInv, TypeOK, Tables, Statuses
<1>4. OneOwner' /\ BoundedDelivery' /\ SentIsTrue' /\ CopiesCounted'
  BY <1>1, <1>3
  DEF IInv, OneOwner, BoundedDelivery, SentIsTrue, CopiesCounted,
      Claimed, Sending
<1>5. CallsOwnRows'
  <2>1. ASSUME NEW t \in Tasks, Sending(t)'
        PROVE  history'[call'[t].user][call'[t].key] = "pending"
    <3>1. Sending(t) /\ call'[t] = call[t]
      BY <1>1, <2>1 DEF Sending
    <3>2. call[t].user \in Users /\ call[t].key \in Keys
      BY <3>1 DEF IInv, TypeOK, Sending, Calls, Idle
    <3>3. QED
      BY <3>1, <3>2, <1>3 DEF IInv, CallsOwnRows
  <2>2. QED
    BY <1>1, <2>1 DEF IInv, CallsOwnRows, Sending
<1>6. PendingIsOwned'
  BY <1>1, <1>3 DEF IInv, PendingIsOwned, Sending
<1>7. QED
  BY <1>2, <1>4, <1>5, <1>6 DEF IInv

\* A reservation succeeds only when no user has a row for the key, so the new
\* claim is the only one and nothing was delivered under the key before.
LEMMA ReservedStep ==
    ASSUME IInv, NEW t \in Tasks, NEW u \in Users, NEW k \in Keys, Reserved(t, u, k)
    PROVE  IInv'
<1> DEFINE new == [user |-> u, key |-> k, attempt |-> 1, reached |-> FALSE]
<1>1. /\ \A v \in Users : history[v][k] = "none"
      /\ history' = [history EXCEPT ![u][k] = "pending"]
      /\ call' = [call EXCEPT ![t] = new]
      /\ call[t] = Idle
      /\ UNCHANGED <<globalOn, userOn, delivered, abandoned>>
  BY DEF Reserved, CanReserve, HasRowForKey, Reserve, InsertOrIgnore
<1>2. TypeOK'
  BY <1>1, ConstantsAssumption DEF IInv, TypeOK, Tables, Statuses, Calls
<1>3. /\ history'[u][k] = "pending"
      /\ \A v \in Users, j \in Keys : v # u \/ j # k => history'[v][j] = history[v][j]
  BY <1>1 DEF IInv, TypeOK, Tables
<1>4. call'[t] = new /\ \A s \in Tasks : s # t => call'[s] = call[s]
  BY <1>1 DEF IInv, TypeOK
<1>5. \A s \in Tasks : Sending(s) =>
          call[s].user \in Users /\ call[s].key \in Keys /\ call[s].key # k
  BY <1>1 DEF IInv, TypeOK, Sending, Calls, Idle, CallsOwnRows
<1>6. OneOwner'
  BY <1>1, <1>3 DEF IInv, OneOwner, Claimed
<1>7. CallsOwnRows'
  BY <1>3, <1>4, <1>5 DEF IInv, CallsOwnRows, Sending
<1>8. PendingIsOwned'
  <2> SUFFICES ASSUME NEW v \in Users, NEW j \in Keys, history'[v][j] = "pending"
               PROVE  \/ j \in abandoned'
                      \/ \E s \in Tasks : /\ Sending(s)'
                                          /\ call'[s].user = v
                                          /\ call'[s].key = j
    BY DEF PendingIsOwned
  <2>1. CASE v = u /\ j = k
    BY <1>4, <2>1 DEF Sending
  <2>2. CASE ~ (v = u /\ j = k)
    <3>1. history[v][j] = "pending"
      BY <1>3, <2>2
    <3>2. CASE j \in abandoned
      BY <1>1, <3>2
    <3>3. CASE \E s \in Tasks : Sending(s) /\ call[s].user = v /\ call[s].key = j
      <4> PICK s \in Tasks : Sending(s) /\ call[s].user = v /\ call[s].key = j
        BY <3>3
      <4>1. s # t
        BY <1>1 DEF Sending, Idle
      <4>2. QED
        BY <1>4, <4>1 DEF Sending
    <3>4. QED
      BY <3>1, <3>2, <3>3 DEF IInv, PendingIsOwned
  <2>3. QED
    BY <2>1, <2>2
<1>9. \A v \in Users : delivered[v][k] = 0
  BY <1>1 DEF IInv, TypeOK, BoundedDelivery, Claimed
<1>10. BoundedDelivery' /\ SentIsTrue'
  <2>1. \A v \in Users, j \in Keys :
            history'[v][j] = history[v][j] \/ (history'[v][j] = "pending" /\ j = k)
    BY <1>3
  <2>2. QED
    BY <1>1, <1>9, <2>1
    DEF IInv, BoundedDelivery, SentIsTrue, Claimed
<1>11. CopiesCounted'
  BY <1>1, <1>4, <1>5, <1>9 DEF IInv, CopiesCounted, Sending
<1>12. QED
  BY <1>2, <1>6, <1>7, <1>8, <1>10, <1>11 DEF IInv

\* The server executes a request: one more copy, within the attempt's budget.
LEMMA RequestExecutedStep ==
    ASSUME IInv, NEW t \in Tasks, RequestExecuted(t)
    PROVE  IInv'
<1> DEFINE u == call[t].user
           k == call[t].key
<1>1. u \in Users /\ k \in Keys /\ call[t] \in Calls
  BY DEF IInv, TypeOK, RequestExecuted, Sending, Calls, Idle
<1>2. /\ history[u][k] = "pending"
      /\ delivered[u][k] \in Nat
      /\ delivered[u][k] < call[t].attempt
      /\ call[t].attempt \in 1 .. MaxAttempts
  BY <1>1 DEF IInv, TypeOK, CallsOwnRows, CopiesCounted, RequestExecuted, Calls
<1>3. /\ call' = [call EXCEPT ![t].reached = TRUE]
      /\ delivered' = [delivered EXCEPT ![u][k] = @ + 1]
      /\ UNCHANGED <<history, globalOn, userOn, abandoned>>
  BY DEF RequestExecuted
<1>4. /\ \A s \in Tasks : /\ call'[s].user = call[s].user
                          /\ call'[s].key = call[s].key
                          /\ call'[s].attempt = call[s].attempt
      /\ call'[t].reached = TRUE
      /\ \A s \in Tasks : s # t => call'[s] = call[s]
  BY <1>1, <1>3 DEF IInv, TypeOK, Calls
<1>5. /\ delivered'[u][k] = delivered[u][k] + 1
      /\ \A v \in Users, j \in Keys : v # u \/ j # k => delivered'[v][j] = delivered[v][j]
  BY <1>1, <1>3 DEF IInv, TypeOK
<1>6. TypeOK'
  <2>1. delivered' \in [Users -> [Keys -> Nat]]
    BY <1>1, <1>2, <1>3 DEF IInv, TypeOK
  <2>2. call'[t] \in Calls
    BY <1>1, <1>3 DEF IInv, TypeOK, Calls
  <2>3. call' \in [Tasks -> Calls \cup {Idle}]
    BY <1>3, <1>4, <2>2 DEF IInv, TypeOK
  <2>4. QED
    BY <1>3, <2>1, <2>3 DEF IInv, TypeOK
<1>7. OneOwner' /\ CallsOwnRows' /\ PendingIsOwned'
  BY <1>3, <1>4
  DEF IInv, OneOwner, CallsOwnRows, PendingIsOwned, Claimed, Sending
<1>8. BoundedDelivery'
  BY <1>2, <1>3, <1>5, ConstantsAssumption DEF IInv, TypeOK, BoundedDelivery, Claimed
<1>9. SentIsTrue'
  BY <1>2, <1>3, <1>5 DEF IInv, TypeOK, SentIsTrue
<1>10. CopiesCounted'
  <2> SUFFICES ASSUME NEW s \in Tasks, Sending(s)'
               PROVE  LET copies == delivered'[call'[s].user][call'[s].key] IN
                      /\ call'[s].reached => copies > 0 /\ copies <= call'[s].attempt
                      /\ ~ call'[s].reached => copies < call'[s].attempt
    BY DEF CopiesCounted
  <2>1. CASE s = t
    BY <1>2, <1>4, <1>5, <2>1
  <2>2. CASE s # t
    <3>1. Sending(s) /\ call[s].key # k
      BY <1>4, <2>2 DEF IInv, CallsOwnRows, RequestExecuted, Sending
    <3>2. call[s].user \in Users /\ call[s].key \in Keys
      BY <3>1 DEF IInv, TypeOK, Sending, Calls, Idle
    <3>3. QED
      BY <1>4, <1>5, <2>2, <3>1, <3>2 DEF IInv, CopiesCounted
  <2>3. QED
    BY <2>1, <2>2
<1>11. QED
  BY <1>6, <1>7, <1>8, <1>9, <1>10 DEF IInv

\* The answer arrives: the task's own pending row gets its outcome.
LEMMA RecordStep ==
    ASSUME IInv, NEW t \in Tasks, Sending(t), NEW outcome \in Outcomes,
           Record(t, outcome), outcome = "sent" => call[t].reached
    PROVE  IInv'
<1> DEFINE u == call[t].user
           k == call[t].key
<1>1. u \in Users /\ k \in Keys
  BY DEF IInv, TypeOK, Sending, Calls, Idle
<1>2. /\ history' = [history EXCEPT ![u][k] = outcome]
      /\ userOn' = IF outcome \in {"blocked", "stopped"}
                     THEN [userOn EXCEPT ![u] = FALSE] ELSE userOn
      /\ call' = [call EXCEPT ![t] = Idle]
      /\ UNCHANGED <<globalOn, delivered, abandoned>>
  BY DEF Record, MarkResult
<1>3. TypeOK'
  BY <1>1, <1>2 DEF IInv, TypeOK, Tables, Statuses
<1>4. /\ history[u][k] = "pending"
      /\ history'[u][k] = outcome
      /\ \A v \in Users, j \in Keys : v # u \/ j # k => history'[v][j] = history[v][j]
  BY <1>1, <1>2 DEF IInv, TypeOK, Tables, CallsOwnRows
<1>5. /\ ~ Sending(t)'
      /\ \A s \in Tasks : s # t => call'[s] = call[s]
  BY <1>2 DEF IInv, TypeOK, Sending, Idle
<1>6. OneOwner' /\ BoundedDelivery'
  BY <1>1, <1>2, <1>4 DEF IInv, OneOwner, BoundedDelivery, Claimed
<1>7. \A s \in Tasks : Sending(s)' =>
          /\ s # t
          /\ Sending(s)
          /\ call'[s] = call[s]
          /\ call[s].key # k
          /\ call[s].user \in Users
          /\ call[s].key \in Keys
  BY <1>5 DEF IInv, TypeOK, CallsOwnRows, Sending, Calls, Idle
<1>8. CallsOwnRows'
  BY <1>4, <1>7 DEF IInv, CallsOwnRows
<1>9. CopiesCounted'
  BY <1>2, <1>7 DEF IInv, CopiesCounted
<1>10. PendingIsOwned'
  <2> SUFFICES ASSUME NEW v \in Users, NEW j \in Keys, history'[v][j] = "pending",
                      j \notin abandoned
               PROVE  \E s \in Tasks : /\ Sending(s)'
                                       /\ call'[s].user = v
                                       /\ call'[s].key = j
    BY <1>2 DEF PendingIsOwned
  <2>1. (v # u \/ j # k) /\ history[v][j] = "pending"
    BY <1>4
  <2>2. PICK s \in Tasks : Sending(s) /\ call[s].user = v /\ call[s].key = j
    BY <2>1 DEF IInv, PendingIsOwned
  <2>3. s # t
    BY <2>1, <2>2
  <2>4. QED
    BY <1>5, <2>2, <2>3 DEF Sending
<1>11. SentIsTrue'
  <2>1. outcome = "sent" => delivered[u][k] > 0
    BY DEF IInv, CopiesCounted
  <2>2. QED
    BY <1>2, <1>4, <2>1 DEF IInv, SentIsTrue
<1>12. QED
  BY <1>3, <1>6, <1>8, <1>9, <1>10, <1>11 DEF IInv

\* A retry spends an attempt before the next request leaves.
LEMMA RetryStep ==
    ASSUME IInv, NEW t \in Tasks, NEW outcome, Retry(t, outcome)
    PROVE  IInv'
<1>1. call[t] \in Calls
  BY DEF IInv, TypeOK, Retry, RetryableFailure, Sending, Calls, Idle
<1>2. /\ call' = [call EXCEPT ![t].attempt = @ + 1, ![t].reached = FALSE]
      /\ UNCHANGED <<history, globalOn, userOn, delivered, abandoned>>
      /\ call[t].attempt \in 1 .. MaxAttempts
      /\ call[t].attempt < MaxAttempts
  BY <1>1 DEF Retry, Calls
<1>3. /\ \A s \in Tasks : s # t => call'[s] = call[s]
      /\ call'[t].user = call[t].user
      /\ call'[t].key = call[t].key
      /\ call'[t].attempt = call[t].attempt + 1
      /\ call'[t].reached = FALSE
      /\ call'[t] \in Calls
  <2>1. call'[t] = [user |-> call[t].user, key |-> call[t].key,
                    attempt |-> call[t].attempt + 1, reached |-> FALSE]
    BY <1>1, <1>2 DEF IInv, TypeOK, Calls
  <2>2. \A s \in Tasks : s # t => call'[s] = call[s]
    BY <1>2 DEF IInv, TypeOK
  <2>3. call[t].attempt + 1 \in 1 .. MaxAttempts
    BY <1>2, ConstantsAssumption
  <2>4. call'[t] \in Calls
    BY <1>1, <2>1, <2>3 DEF Calls
  <2>5. QED
    BY <2>1, <2>2, <2>4
<1>4. TypeOK'
  <2>1. call' \in [Tasks -> Calls \cup {Idle}]
    BY <1>2, <1>3 DEF IInv, TypeOK
  <2>2. QED
    BY <1>2, <2>1 DEF IInv, TypeOK
<1>5. \A s \in Tasks : /\ call'[s].user = call[s].user
                       /\ call'[s].key = call[s].key
                       /\ Sending(s)' <=> Sending(s)
  <2> TAKE s \in Tasks
  <2>1. CASE s = t
    <3>1. Sending(t)
      BY DEF Retry, RetryableFailure
    <3>2. call[t].attempt + 1 > 0
      BY <1>2
    <3>3. QED
      BY <1>3, <2>1, <3>1, <3>2 DEF Sending
  <2>2. CASE s # t
    BY <1>3, <2>2 DEF Sending
  <2>3. QED
    BY <2>1, <2>2
<1>6. OneOwner' /\ CallsOwnRows' /\ PendingIsOwned'
  <2>1. OneOwner'
    BY <1>2 DEF IInv, OneOwner, Claimed
  <2>2. CallsOwnRows'
    BY <1>2, <1>5 DEF IInv, CallsOwnRows
  <2>3. PendingIsOwned'
    <3>0. UNCHANGED <<history, abandoned>>
      BY <1>2
    <3> SUFFICES ASSUME NEW v \in Users, NEW j \in Keys, history'[v][j] = "pending",
                        j \notin abandoned'
                 PROVE  \E s \in Tasks : /\ Sending(s)'
                                         /\ call'[s].user = v
                                         /\ call'[s].key = j
      BY DEF PendingIsOwned
    <3>1. PICK s \in Tasks : Sending(s) /\ call[s].user = v /\ call[s].key = j
      BY <3>0 DEF IInv, PendingIsOwned
    <3>2. QED
      BY <1>5, <3>1
  <2>4. QED
    BY <2>1, <2>2, <2>3
<1>7. BoundedDelivery' /\ SentIsTrue'
  BY <1>2 DEF IInv, BoundedDelivery, SentIsTrue, Claimed
<1>8. CopiesCounted'
  <2> SUFFICES ASSUME NEW s \in Tasks, Sending(s)'
               PROVE  LET copies == delivered'[call'[s].user][call'[s].key] IN
                      /\ call'[s].reached => copies > 0 /\ copies <= call'[s].attempt
                      /\ ~ call'[s].reached => copies < call'[s].attempt
    BY DEF CopiesCounted
  <2>1. CASE s = t
    <3> DEFINE copies == delivered[call[t].user][call[t].key]
    <3>1. copies \in Nat
      BY <1>1 DEF IInv, TypeOK, Calls
    <3>2. copies <= call[t].attempt
      <4>1. Sending(t) /\ call[t].reached \in BOOLEAN
        BY <1>1 DEF Retry, RetryableFailure, Calls
      <4>2. \/ copies <= call[t].attempt
            \/ copies < call[t].attempt
        BY <4>1 DEF IInv, CopiesCounted
      <4>3. QED
        BY <1>2, <3>1, <4>2
    <3>3. copies < call[t].attempt + 1
      BY <1>2, <3>1, <3>2
    <3>4. QED
      BY <1>2, <1>3, <2>1, <3>3
  <2>2. CASE s # t
    BY <1>2, <1>3, <1>5, <2>2 DEF IInv, CopiesCounted
  <2>3. QED
    BY <2>1, <2>2
<1>9. QED
  BY <1>4, <1>6, <1>7, <1>8 DEF IInv

\* Killing calls, one by one or all at once, leaves the tables as they are and
\* remembers the keys left pending.
LEMMA KilledStep ==
    ASSUME IInv, NEW dead \in SUBSET Tasks,
           call' = [t \in Tasks |-> IF t \in dead THEN Idle ELSE call[t]],
           abandoned' = abandoned \cup {call[t].key : t \in {s \in dead : Sending(s)}},
           UNCHANGED <<history, globalOn, userOn, delivered>>
    PROVE  IInv'
<1>1. \A t \in Tasks : Sending(t) => call[t].user \in Users /\ call[t].key \in Keys
  BY DEF IInv, TypeOK, Sending, Calls, Idle
<1>2. TypeOK'
  BY <1>1 DEF IInv, TypeOK
<1>3. \A t \in Tasks : /\ Sending(t)' => t \notin dead /\ Sending(t) /\ call'[t] = call[t]
                       /\ t \notin dead => call'[t] = call[t]
  BY DEF Sending, Idle
<1>4. OneOwner' /\ BoundedDelivery' /\ SentIsTrue'
  BY DEF IInv, OneOwner, BoundedDelivery, SentIsTrue, Claimed
<1>5. CallsOwnRows' /\ CopiesCounted'
  BY <1>3 DEF IInv, CallsOwnRows, CopiesCounted
<1>6. PendingIsOwned'
  <2> SUFFICES ASSUME NEW u \in Users, NEW k \in Keys, history[u][k] = "pending",
                      k \notin abandoned'
               PROVE  \E t \in Tasks : /\ Sending(t)'
                                       /\ call'[t].user = u
                                       /\ call'[t].key = k
    BY DEF PendingIsOwned
  <2>1. PICK t \in Tasks : Sending(t) /\ call[t].user = u /\ call[t].key = k
    BY DEF IInv, PendingIsOwned
  <2>2. t \notin dead
    BY <2>1
  <2>3. QED
    BY <1>3, <2>1, <2>2 DEF Sending
<1>7. QED
  BY <1>2, <1>4, <1>5, <1>6 DEF IInv

\* IInv is inductive.
LEMMA NextIInv == IInv /\ [Next]_vars => IInv'
<1> SUFFICES ASSUME IInv, [Next]_vars PROVE IInv'
  OBVIOUS
<1>1. ASSUME NEW u \in Users, NEW k \in Keys, Decide(u, k) PROVE IInv'
  BY <1>1, DecideStep
<1>2. ASSUME NEW u \in Users, NEW k \in Keys, NEW t \in Tasks, Reserved(t, u, k)
      PROVE  IInv'
  BY <1>2, ReservedStep
<1>3. ASSUME NEW t \in Tasks, RequestExecuted(t) PROVE IInv'
  BY <1>3, RequestExecutedStep
<1>4. ASSUME NEW t \in Tasks, Answered(t) PROVE IInv'
  <2>1. CASE AnsweredOk(t)
    BY <2>1, RecordStep DEF AnsweredOk
  <2>2. ASSUME NEW outcome \in Outcomes, Retry(t, outcome) PROVE IInv'
    BY <2>2, RetryStep
  <2>3. ASSUME NEW outcome \in Outcomes, GiveUp(t, outcome) PROVE IInv'
    BY <2>3, RecordStep DEF GiveUp, RetryableFailure
  <2>4. ASSUME NEW outcome \in Outcomes, Refused(t, outcome) PROVE IInv'
    BY <2>4, RecordStep DEF Refused
  <2>5. QED
    BY <1>4, <2>1, <2>2, <2>3, <2>4 DEF Answered
<1>5. ASSUME NEW t \in Tasks, Cancelled(t) PROVE IInv'
  <2>1. /\ call' = [s \in Tasks |-> IF s \in {t} THEN Idle ELSE call[s]]
        /\ abandoned' = abandoned \cup {call[s].key : s \in {r \in {t} : Sending(r)}}
        /\ UNCHANGED <<history, globalOn, userOn, delivered>>
    BY <1>5 DEF Cancelled, IInv, TypeOK
  <2>2. QED
    BY <2>1, KilledStep
<1>6. CASE Crash
  <2>1. /\ call' = [s \in Tasks |-> IF s \in Tasks THEN Idle ELSE call[s]]
        /\ abandoned' = abandoned \cup {call[s].key : s \in {r \in Tasks : Sending(r)}}
        /\ UNCHANGED <<history, globalOn, userOn, delivered>>
    BY <1>6 DEF Crash
  <2>2. QED
    BY <2>1, KilledStep
<1>7. CASE ToggleGlobal
  BY <1>7 DEF ToggleGlobal, IInv, TypeOK, OneOwner, CallsOwnRows, PendingIsOwned,
       BoundedDelivery, CopiesCounted, SentIsTrue, Claimed, Sending
<1>8. CASE UNCHANGED vars
  BY <1>8 DEF vars, IInv, TypeOK, OneOwner, CallsOwnRows, PendingIsOwned,
       BoundedDelivery, CopiesCounted, SentIsTrue, Claimed, Sending
<1>9. QED
  BY <1>1, <1>2, <1>3, <1>4, <1>5, <1>6, <1>7, <1>8 DEF Next

-----------------------------------------------------------------------------

\* Every reachable state satisfies the inductive invariant.
THEOREM Invariance == Spec => []IInv
  BY InitIInv, NextIInv, PTL DEF Spec

\* The tables and the suspended calls always have their declared shape.
THEOREM TypeCorrect == Spec => []TypeOK
<1>1. IInv => TypeOK
  BY DEF IInv
<1>2. QED
  BY <1>1, Invariance, PTL

\* reserve_notification_history gives a business key to one user at most.
THEOREM OneOwnerAlways == Spec => []OneOwner
<1>1. IInv => OneOwner
  BY DEF IInv
<1>2. QED
  BY <1>1, Invariance, PTL

\* Whatever is retried, cancelled or restarted, no more than MaxAttempts copies
\* of a message reach anyone, and only the owner of its key.
THEOREM BoundedDeliveryAlways == Spec => []BoundedDelivery
<1>1. IInv => BoundedDelivery
  BY DEF IInv
<1>2. QED
  BY <1>1, Invariance, PTL

\* A history row says 'sent' only of a message that reached its user.
THEOREM SentIsTrueAlways == Spec => []SentIsTrue
<1>1. IInv => SentIsTrue
  BY DEF IInv
<1>2. QED
  BY <1>1, Invariance, PTL

\* No two tasks send for one row, and every call works on a row it reserved.
THEOREM CallsOwnRowsAlways == Spec => []CallsOwnRows
<1>1. IInv => CallsOwnRows
  BY DEF IInv
<1>2. QED
  BY <1>1, Invariance, PTL

\* A pending row is being sent, or its call was killed.
THEOREM PendingIsOwnedAlways == Spec => []PendingIsOwned
<1>1. IInv => PendingIsOwned
  BY DEF IInv
<1>2. QED
  BY <1>1, Invariance, PTL

-----------------------------------------------------------------------------
(* Decisions are final *)

\* A step changes a row only when the row is missing or pending, and delivers
\* a copy only under a pending row.
LEMMA FinalStep ==
    ASSUME IInv, Next, NEW v \in Users, NEW j \in Keys,
           history[v][j] \notin {"none", "pending"}
    PROVE  history'[v][j] = history[v][j] /\ delivered'[v][j] = delivered[v][j]
<1>1. ASSUME NEW u \in Users, NEW k \in Keys, Decide(u, k)
      PROVE  history'[v][j] = history[v][j] /\ delivered'[v][j] = delivered[v][j]
  BY <1>1 DEF Decide, SkipGloballyOff, SkipUserOff, SkipByCaller, MarkSkipped,
       InsertOrIgnore, IInv, TypeOK, Tables
<1>2. ASSUME NEW t \in Tasks, NEW u \in Users, NEW k \in Keys, Reserved(t, u, k)
      PROVE  history'[v][j] = history[v][j] /\ delivered'[v][j] = delivered[v][j]
  BY <1>2 DEF Reserved, CanReserve, HasRowForKey, Reserve, InsertOrIgnore, IInv,
       TypeOK, Tables
<1>3. \A t \in Tasks : Sending(t) =>
          /\ call[t].user \in Users /\ call[t].key \in Keys
          /\ call[t].user # v \/ call[t].key # j
  BY DEF IInv, TypeOK, CallsOwnRows, Sending, Calls, Idle
<1>4. ASSUME NEW t \in Tasks, RequestExecuted(t)
      PROVE  history'[v][j] = history[v][j] /\ delivered'[v][j] = delivered[v][j]
  BY <1>3, <1>4 DEF RequestExecuted, IInv, TypeOK
<1>5. ASSUME NEW t \in Tasks, Sending(t), NEW outcome, Record(t, outcome)
      PROVE  history'[v][j] = history[v][j] /\ delivered'[v][j] = delivered[v][j]
  BY <1>3, <1>5 DEF Record, MarkResult, IInv, TypeOK, Tables
<1>6. ASSUME NEW t \in Tasks, Answered(t)
      PROVE  history'[v][j] = history[v][j] /\ delivered'[v][j] = delivered[v][j]
  BY <1>5, <1>6 DEF Answered, AnsweredOk, Retry, GiveUp, Refused, RetryableFailure
<1>7. QED
  BY <1>1, <1>2, <1>4, <1>6 DEF Next, Cancelled, Crash, ToggleGlobal

\* Once a row says anything but 'pending', neither the row nor the number of
\* copies its user received ever changes again.
THEOREM DecisionsAreFinalAlways == Spec => DecisionsAreFinal
<1>1. IInv /\ [Next]_vars => [DecidedStay]_vars
  BY FinalStep DEF DecidedStay
<1>2. QED
  BY <1>1, Invariance, PTL DEF Spec, DecisionsAreFinal

-----------------------------------------------------------------------------
(* Refinement *)

\* What ClaimOf returns when no two users claim the key.
LEMMA ClaimOfValue ==
    ASSUME NEW h, NEW k,
           \A u, v \in Users :
               h[u][k] \in ClaimedStatuses /\ h[v][k] \in ClaimedStatuses => u = v
    PROVE  /\ \A u \in Users : h[u][k] \in ClaimedStatuses => ClaimOf(h, k) = u
           /\ (\A u \in Users : h[u][k] \notin ClaimedStatuses) =>
                  /\ HasRowForKey(h, k) => ClaimOf(h, k) = "closed"
                  /\ ~ HasRowForKey(h, k) => ClaimOf(h, k) = "unclaimed"
BY DEF ClaimOf

\* Initially every key is unclaimed.
LEMMA InitRefines == Init => Promise!Init
<1> SUFFICES ASSUME Init PROVE Promise!Init
  OBVIOUS
<1>1. \A k \in Keys : ClaimOf(history, k) = "unclaimed"
  BY DEF Init, EmptyTable, ClaimOf, HasRowForKey
<1>2. QED
  BY <1>1 DEF Init, Promise!Init, ClaimBar, Promise!NoClaim

\* A key whose claims and rows are where they were keeps its abstract state.
LEMMA ClaimOfStays ==
    ASSUME NEW h, NEW g, NEW k,
           \A u, v \in Users :
               h[u][k] \in ClaimedStatuses /\ h[v][k] \in ClaimedStatuses => u = v,
           \A u \in Users :
               /\ g[u][k] \in ClaimedStatuses <=> h[u][k] \in ClaimedStatuses
               /\ g[u][k] = NoRow <=> h[u][k] = NoRow
    PROVE  ClaimOf(g, k) = ClaimOf(h, k)
<1>1. HasRowForKey(g, k) <=> HasRowForKey(h, k)
  BY DEF HasRowForKey
<1>2. CASE \E u \in Users : h[u][k] \in ClaimedStatuses
  BY <1>2, ClaimOfValue
<1>3. CASE \A u \in Users : h[u][k] \notin ClaimedStatuses
  BY <1>1, <1>3 DEF ClaimOf
<1>4. QED
  BY <1>2, <1>3

\* A decision not to send closes a key nobody has a row for.
LEMMA DecideRefines ==
    ASSUME IInv, NEW u \in Users, NEW k \in Keys, Decide(u, k)
    PROVE  Promise!Next \/ UNCHANGED Promise!vars
<1>1. /\ history' = IF history[u][k] = "none"
                      THEN [history EXCEPT ![u][k] = "skipped"] ELSE history
      /\ UNCHANGED delivered
  BY DEF Decide, SkipGloballyOff, SkipUserOff, SkipByCaller, MarkSkipped, InsertOrIgnore
<1>2. \A v \in Users, j \in Keys :
          history'[v][j] = IF v = u /\ j = k /\ history[u][k] = "none"
                             THEN "skipped" ELSE history[v][j]
  BY <1>1 DEF IInv, TypeOK, Tables
<1>3. \A v \in Users, j \in Keys :
          history'[v][j] \in ClaimedStatuses <=> history[v][j] \in ClaimedStatuses
  BY <1>2
<1>4. \A j \in Keys : \A v, w \in Users :
          history[v][j] \in ClaimedStatuses /\ history[w][j] \in ClaimedStatuses => v = w
  BY DEF IInv, OneOwner, Claimed
<1>5. \A j \in Keys \ {k} : ClaimOf(history', j) = ClaimOf(history, j)
  BY <1>2, <1>4, ClaimOfStays
<1>6. CASE HasRowForKey(history, k)
  <2>1. HasRowForKey(history', k)
    BY <1>2, <1>6 DEF HasRowForKey
  <2>2. ClaimOf(history', k) = ClaimOf(history, k)
    <3>1. CASE \E v \in Users : history[v][k] \in ClaimedStatuses
      BY <1>3, <1>4, <3>1, ClaimOfValue
    <3>2. CASE \A v \in Users : history[v][k] \notin ClaimedStatuses
      BY <1>3, <1>6, <2>1, <3>2 DEF ClaimOf
    <3>3. QED
      BY <3>1, <3>2
  <2>3. QED
    BY <1>1, <1>5, <2>2 DEF ClaimBar, Promise!vars
<1>7. CASE ~ HasRowForKey(history, k)
  <2>1. ClaimOf(history, k) = "unclaimed" /\ ClaimOf(history', k) = "closed"
    <3>1. \A v \in Users : history[v][k] = "none"
      BY <1>7 DEF HasRowForKey
    <3>2. HasRowForKey(history', k)
      BY <1>2, <3>1 DEF HasRowForKey
    <3>3. QED
      BY <1>3, <1>7, <3>1, <3>2 DEF ClaimOf
  <2>2. Promise!Close({k})
    BY <1>1, <1>5, <2>1 DEF ClaimBar, Promise!Close, Promise!NoClaim, Promise!Closed
  <2>3. QED
    BY <2>2 DEF Promise!Next
<1>8. QED
  BY <1>6, <1>7

\* A reservation claims a key nobody has a row for.
LEMMA ReservedRefines ==
    ASSUME IInv, NEW t \in Tasks, NEW u \in Users, NEW k \in Keys, Reserved(t, u, k)
    PROVE  Promise!Claim(u, k)
<1>1. /\ \A v \in Users : history[v][k] = "none"
      /\ history' = [history EXCEPT ![u][k] = "pending"]
      /\ UNCHANGED delivered
  BY DEF Reserved, CanReserve, HasRowForKey, Reserve, InsertOrIgnore
<1>2. \A v \in Users, j \in Keys :
          history'[v][j] = IF v = u /\ j = k THEN "pending" ELSE history[v][j]
  BY <1>1 DEF IInv, TypeOK, Tables
<1>3. \A j \in Keys \ {k} : ClaimOf(history', j) = ClaimOf(history, j)
  BY <1>2, ClaimOfStays DEF IInv, OneOwner, Claimed
<1>4. ClaimOf(history, k) = "unclaimed"
  BY <1>1 DEF ClaimOf, HasRowForKey
<1>5. ClaimOf(history', k) = u
  <2>1. \A v \in Users : history'[v][k] \in ClaimedStatuses <=> v = u
    BY <1>1, <1>2
  <2>2. QED
    BY <2>1, ClaimOfValue
<1>6. QED
  BY <1>1, <1>3, <1>4, <1>5 DEF ClaimBar, Promise!Claim, Promise!NoClaim

\* An executed request is one more copy for the key's owner.
LEMMA RequestExecutedRefines ==
    ASSUME IInv, NEW t \in Tasks, RequestExecuted(t)
    PROVE  Promise!Next
<1> DEFINE u == call[t].user
           k == call[t].key
<1>1. u \in Users /\ k \in Keys /\ call[t].attempt \in 1 .. MaxAttempts
  BY DEF IInv, TypeOK, RequestExecuted, Sending, Calls, Idle
<1>2. history[u][k] = "pending" /\ delivered[u][k] < call[t].attempt
  BY DEF IInv, CallsOwnRows, CopiesCounted, RequestExecuted
<1>3. ClaimBar[k] = u
  <2>1. ClaimOf(history, k) = u
    BY <1>1, <1>2, ClaimOfValue DEF IInv, OneOwner, Claimed
  <2>2. QED
    BY <1>1, <2>1 DEF ClaimBar
<1>4. delivered[u][k] < MaxAttempts
  BY <1>1, <1>2, ConstantsAssumption DEF IInv, TypeOK
<1>5. Promise!DeliverCopy(u, k)
  BY <1>3, <1>4 DEF RequestExecuted, Promise!DeliverCopy, ClaimBar
<1>6. QED
  BY <1>1, <1>5 DEF Promise!Next

\* Recording an outcome keeps the claim: the abstract state stutters.
LEMMA RecordRefines ==
    ASSUME IInv, NEW t \in Tasks, Sending(t), NEW outcome \in Outcomes,
           Record(t, outcome)
    PROVE  UNCHANGED Promise!vars
<1> DEFINE u == call[t].user
           k == call[t].key
<1>1. u \in Users /\ k \in Keys
  BY DEF IInv, TypeOK, Sending, Calls, Idle
<1>2. history' = [history EXCEPT ![u][k] = outcome] /\ UNCHANGED delivered
  BY DEF Record, MarkResult
<1>3. history[u][k] = "pending"
  BY DEF IInv, CallsOwnRows
<1>4. \A v \in Users, j \in Keys :
          history'[v][j] = IF v = u /\ j = k THEN outcome ELSE history[v][j]
  BY <1>1, <1>2 DEF IInv, TypeOK, Tables
<1>5. \A j \in Keys : ClaimOf(history', j) = ClaimOf(history, j)
  BY <1>3, <1>4, ClaimOfStays DEF IInv, OneOwner, Claimed
<1>6. QED
  BY <1>2, <1>5 DEF ClaimBar, Promise!vars

\* Every step of the protocol is a step of OnceOnlyDelivery or a stutter.
LEMMA NextRefines == IInv /\ [Next]_vars => [Promise!Next]_(Promise!vars)
<1> SUFFICES ASSUME IInv, [Next]_vars PROVE Promise!Next \/ UNCHANGED Promise!vars
  OBVIOUS
<1> DEFINE Stutters == UNCHANGED Promise!vars
<1>1. ASSUME NEW u \in Users, NEW k \in Keys, Decide(u, k)
      PROVE  Promise!Next \/ Stutters
  BY <1>1, DecideRefines
<1>2. ASSUME NEW u \in Users, NEW k \in Keys, NEW t \in Tasks, Reserved(t, u, k)
      PROVE  Promise!Next
  BY <1>2, ReservedRefines DEF Promise!Next
<1>3. ASSUME NEW t \in Tasks, RequestExecuted(t) PROVE Promise!Next
  BY <1>3, RequestExecutedRefines
<1>4. UNCHANGED <<history, delivered>> => Stutters
  BY DEF Promise!vars, ClaimBar
<1>5. ASSUME NEW t \in Tasks, Answered(t) PROVE Stutters
  <2>1. CASE AnsweredOk(t)
    BY <2>1, RecordRefines DEF AnsweredOk
  <2>2. ASSUME NEW outcome \in Outcomes, Retry(t, outcome) PROVE Stutters
    BY <1>4, <2>2 DEF Retry
  <2>3. ASSUME NEW outcome \in Outcomes, GiveUp(t, outcome) PROVE Stutters
    BY <2>3, RecordRefines DEF GiveUp, RetryableFailure
  <2>4. ASSUME NEW outcome \in Outcomes, Refused(t, outcome) PROVE Stutters
    BY <2>4, RecordRefines DEF Refused
  <2>5. QED
    BY <1>5, <2>1, <2>2, <2>3, <2>4 DEF Answered
<1>6. CASE Crash \/ ToggleGlobal \/ (\E t \in Tasks : Cancelled(t)) \/ UNCHANGED vars
  BY <1>4, <1>6 DEF Crash, ToggleGlobal, Cancelled, vars
<1>7. QED
  BY <1>1, <1>2, <1>3, <1>5, <1>6 DEF Next

\* The reserve / send / record protocol implements the promise: each business
\* key is decided once, and its copies reach the chosen user only.
THEOREM Refinement == Spec => PromiseSpec
  BY InitRefines, NextRefines, Invariance, PTL DEF Spec, PromiseSpec, Promise!Spec
=============================================================================
