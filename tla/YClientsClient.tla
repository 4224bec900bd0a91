--------------------------- MODULE YClientsClient ---------------------------
(***************************************************************************)
(* YClientsClient.request (integrations/yclients/client.py): the requests  *)
(* of all tasks share one window of failures, one cooldown and the limits  *)
(* of the endpoints, which are attributes of the class.                    *)
(*                                                                         *)
(* The code compares instants with the clock; here a failure has an age    *)
(* and a cooldown or limit has a time left, so that time may go on for     *)
(* ever.  The shared state is looked at once, before the first attempt:    *)
(* an attempt after a failure is made whatever happened meanwhile.         *)
(***************************************************************************)
EXTENDS Naturals, Sequences, FiniteSets

CONSTANTS
    Tasks,
    Endpoints,
    RequestAttempts,  \* RetryPolicy.attempts
    Threshold,    \* _failure_threshold
    Window,       \* _failure_window_seconds
    Cooldown,     \* _cooldown_seconds
    Limits        \* what a limit may be: 5 to 60 seconds

ASSUME YClientsAssumption ==
    /\ {RequestAttempts, Threshold, Window, Cooldown} \subseteq Nat \ {0}
    /\ Limits \subseteq Nat
    /\ IsFiniteSet(Tasks)

VARIABLES
    failures,   \* _failures: ages, the oldest first
    cooldown,   \* _cooldown_until: the time left
    limit,      \* _rate_limit_cooldowns: the time left, by endpoint
    task,       \* the request of each task
    since       \* failures since the last success (observation)

shared == <<failures, cooldown, limit>>
clientVars == <<shared, task, since>>

NoRequest == [pc |-> "idle", endpoint |-> "none", attempt |-> 0]

\* An age above Window is as good as any other.
Ages == 0 .. Window + 1

ClientTypeOK ==
    /\ failures \in Seq(Ages)
    /\ cooldown \in 0 .. Cooldown
    /\ limit \in [Endpoints -> Nat]
    /\ task \in [Tasks -> [pc : {"idle", "waiting", "backoff"},
                           endpoint : Endpoints \cup {"none"}, attempt : 0 .. RequestAttempts]]
    /\ since \in 0 .. Threshold

ClientInit ==
    /\ failures = <<>> /\ cooldown = 0
    /\ limit = [e \in Endpoints |-> 0]
    /\ task = [t \in Tasks |-> NoRequest]
    /\ since = 0

-----------------------------------------------------------------------------

\* _ensure_available, _ensure_endpoint_not_rate_limited; a request that is
\* refused here changes nothing.
Allowed(e) == cooldown = 0 /\ limit[e] = 0

Attempt(t, e, n) ==
    task' = [task EXCEPT ![t] = [pc |-> "waiting", endpoint |-> e, attempt |-> n]]

Begin(t, e) ==
    /\ task[t].pc = "idle"
    /\ Allowed(e)
    /\ Attempt(t, e, 1)
    /\ UNCHANGED <<shared, since>>

\* Mutant of Kept: old failures are never dropped.
KeptAll(ages) == ages

\* Old failures are dropped from the left, up to the first that is not.
Kept(ages) ==
    LET old == {i \in DOMAIN ages : \A j \in 1 .. i : ages[j] > Window} IN
    SubSeq(ages, Cardinality(old) + 1, Len(ages))

\* Mutant of Opens: a cooldown that is on is extended.
OpensAnyTime(ages) == Len(ages) >= Threshold

Opens(ages) == Len(ages) >= Threshold /\ cooldown = 0

\* _record_failure
RecordFailure ==
    /\ failures' = Kept(Append(failures, 0))
    /\ cooldown' = IF Opens(failures') THEN Cooldown ELSE cooldown
    /\ since' = IF since < Threshold THEN since + 1 ELSE since

\* _record_success
RecordSuccess == failures' = <<>> /\ since' = 0

Waiting(t) == task[t].pc = "waiting"
Ended(t) == task' = [task EXCEPT ![t] = NoRequest]

Answered(t) ==
    /\ Waiting(t)
    /\ RecordSuccess
    /\ Ended(t)
    /\ UNCHANGED <<cooldown, limit>>

\* An answer like 404 or 422 is neither a success nor a failure.
Rejected(t) ==
    /\ Waiting(t)
    /\ Ended(t)
    /\ UNCHANGED <<shared, since>>

\* 429 is not tried again; its limit takes the place of an earlier one.
Limited(t, time) ==
    /\ Waiting(t)
    /\ RecordFailure
    /\ limit' = [limit EXCEPT ![task[t].endpoint] = time]
    /\ Ended(t)

\* 5xx, a transport error or the time-out of the last attempt
Failed(t) ==
    /\ Waiting(t)
    /\ task[t].attempt = RequestAttempts
    /\ RecordFailure
    /\ Ended(t)
    /\ UNCHANGED limit

\* Mutant of Fails: one attempt too many.
FailsOnceMore(t) ==
    /\ Waiting(t)
    /\ task[t].attempt <= RequestAttempts
    /\ RecordFailure
    /\ task' = [task EXCEPT ![t].pc = "backoff"]
    /\ UNCHANGED limit

\* ... of another one
Fails(t) ==
    /\ Waiting(t)
    /\ task[t].attempt < RequestAttempts
    /\ RecordFailure
    /\ task' = [task EXCEPT ![t].pc = "backoff"]
    /\ UNCHANGED limit

\* Mutant of Retry: the attempts are not counted.
RetryUncounted(t) ==
    /\ task[t].pc = "backoff"
    /\ task' = [task EXCEPT ![t].pc = "waiting"]
    /\ UNCHANGED <<shared, since>>

Retry(t) ==
    /\ task[t].pc = "backoff"
    /\ Attempt(t, task[t].endpoint, task[t].attempt + 1)
    /\ UNCHANGED <<shared, since>>

\* The task is cancelled at an await.
Cancelled(t) ==
    /\ task[t].pc # "idle"
    /\ Ended(t)
    /\ UNCHANGED <<shared, since>>

Less(time) == IF time = 0 THEN 0 ELSE time - 1

Tick ==
    /\ failures' = [i \in DOMAIN failures |-> IF failures[i] > Window THEN failures[i] ELSE failures[i] + 1]
    /\ cooldown' = Less(cooldown)
    /\ limit' = [e \in Endpoints |-> Less(limit[e])]
    /\ UNCHANGED <<task, since>>

Step(t) ==
    \/ Answered(t) \/ Rejected(t) \/ Failed(t) \/ Fails(t) \/ Retry(t) \/ Cancelled(t)
    \/ \E time \in Limits : Limited(t, time)

ClientNext == Tick \/ \E t \in Tasks : Step(t) \/ \E e \in Endpoints : Begin(t, e)

ClientSpec == ClientInit /\ [][ClientNext]_clientVars

\* An attempt has a time-out and a backoff ends; the clock goes on.
ClientFairSpec == ClientSpec /\ WF_clientVars(Tick) /\ \A t \in Tasks : WF_clientVars(Step(t))

-----------------------------------------------------------------------------
(* Properties *)

\* The window is in order, which trimming it from its left end relies on, and it
\* does not grow with time: a burst of failures is made of requests begun before
\* the cooldown, the next burst waits for its end, and as many cooldowns begin
\* within a window as fit into it, and one that began before.
WindowIsBounded ==
    LET bursts == (Window + Cooldown - 1) \div Cooldown + 1 IN
    /\ \A i, j \in DOMAIN failures : i < j => failures[i] >= failures[j]
    /\ Len(failures) < Threshold + bursts * (Cardinality(Tasks) * RequestAttempts)

\* A cooldown is earned by as many failures in a row, and those that arrive
\* while it is on do not make it longer.
CooldownsAreEarned == [][cooldown' > cooldown => cooldown = 0 /\ since' = Threshold]_clientVars

\* Every request ends.
RequestsEnd == \A t \in Tasks : task[t].pc # "idle" ~> task[t].pc = "idle"

=============================================================================
