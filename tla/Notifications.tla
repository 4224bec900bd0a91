---------------------------- MODULE Notifications ----------------------------
(***************************************************************************)
(* services/notifications.py and the retry loop of max_api/sender.py: the  *)
(* reserve / send / record protocol every automatic message goes through.  *)
(*                                                                         *)
(* The bot is one asyncio process.  A task (the update handler, the        *)
(* reminder loop, the birthday loop, the cancellation-recovery loop) runs  *)
(* without interruption from one await to the next, so the settings check, *)
(* the look-up and the reservation of send_business_notification are one   *)
(* step, and so are the arrival of the transport's answer, the UPDATE of   *)
(* the row and the switching-off of the user.  Between them the task is    *)
(* suspended and everything else may happen: other tasks, the settings     *)
(* screen, the cancellation of the task, the death of the process.         *)
(***************************************************************************)
EXTENDS Naturals, NotificationStore

CONSTANTS
    Tasks,        \* asyncio tasks able to send
    TestKeys,     \* keys sent with respect_global_settings=False
    MaxAttempts   \* MaxMessageSender._max_attempts

ASSUME ConstantsAssumption ==
    /\ TestKeys \subseteq Keys
    /\ MaxAttempts \in Nat \ {0}
    /\ {"unclaimed", "closed"} \cap Users = {}

VARIABLES
    history,    \* table notification_history
    globalOn,   \* app_settings.notifications_enabled
    userOn,     \* users.notifications_enabled
    call,       \* call[t]: the send_business_notification t is suspended in
    delivered,  \* delivered[u][k]: copies of message k that reached u
    abandoned   \* keys whose call was killed before its row was updated

vars == <<history, globalOn, userOn, call, delivered, abandoned>>

Idle == [attempt |-> 0]

\* reached: the request of this attempt has been executed by the MAX server.
Calls == [user : Users, key : Keys, attempt : 1 .. MaxAttempts, reached : BOOLEAN]

Sending(t) == call[t].attempt > 0

TypeOK ==
    /\ history \in Tables
    /\ globalOn \in BOOLEAN
    /\ userOn \in [Users -> BOOLEAN]
    /\ call \in [Tasks -> Calls \cup {Idle}]
    /\ delivered \in [Users -> [Keys -> Nat]]
    /\ abandoned \subseteq Keys

Init ==
    /\ history = EmptyTable
    /\ globalOn = TRUE
    /\ userOn = [u \in Users |-> TRUE]
    /\ call = [t \in Tasks |-> Idle]
    /\ delivered = [u \in Users |-> [k \in Keys |-> 0]]
    /\ abandoned = {}

-----------------------------------------------------------------------------
(* Decisions taken before the first await *)

\* respect_global_settings and not notifications_enabled()
SkipGloballyOff(u, k) ==
    /\ ~ globalOn
    /\ k \notin TestKeys
    /\ history' = MarkSkipped(history, u, k)
    /\ UNCHANGED <<globalOn, userOn, call, delivered, abandoned>>

\* _send_immediate_confirmation_safely, for a user who switched messages off.
SkipUserOff(u, k) ==
    /\ ~ userOn[u]
    /\ history[u][k] = NoRow
    /\ history' = MarkSkipped(history, u, k)
    /\ UNCHANGED <<globalOn, userOn, call, delivered, abandoned>>

\* A caller gives the message up for a reason of its own: no recipient id, a
\* cancelled or past record, a newer booking.
SkipByCaller(u, k) ==
    /\ history' = MarkSkipped(history, u, k)
    /\ UNCHANGED <<globalOn, userOn, call, delivered, abandoned>>

\* Mutant of Reserved: the look-up asks for this user's row only.
ReservedForUser(t, u, k) ==
    /\ call[t] = Idle
    /\ globalOn \/ k \in TestKeys
    /\ history[u][k] = NoRow
    /\ history' = Reserve(history, u, k)
    /\ call' = [call EXCEPT ![t] =
                  [user |-> u, key |-> k, attempt |-> 1, reached |-> FALSE]]
    /\ UNCHANGED <<globalOn, userOn, delivered, abandoned>>

\* The remaining early returns (a row that StopsSend, a key that cannot be
\* reserved) change nothing: they are steps that leave vars as they are.
Reserved(t, u, k) ==
    /\ call[t] = Idle
    /\ globalOn \/ k \in TestKeys
    /\ ~ StopsSend(history[u][k])
    /\ CanReserve(history, k)
    /\ history' = Reserve(history, u, k)
    /\ call' = [call EXCEPT ![t] =
                  [user |-> u, key |-> k, attempt |-> 1, reached |-> FALSE]]
    /\ UNCHANGED <<globalOn, userOn, delivered, abandoned>>

-----------------------------------------------------------------------------
(* The suspended call *)

\* The server executes the request; the answer is still on its way.
RequestExecuted(t) ==
    /\ Sending(t)
    /\ ~ call[t].reached
    /\ call' = [call EXCEPT ![t].reached = TRUE]
    /\ delivered' = [delivered EXCEPT ![call[t].user][call[t].key] = @ + 1]
    /\ UNCHANGED <<history, globalOn, userOn, abandoned>>

\* Mutant of Record: a rate-limited row is left for later.
RecordUnlessLimited(t, outcome) ==
    LET u == call[t].user IN
    /\ history' = IF outcome = "rate_limited"
                    THEN history ELSE MarkResult(history, u, call[t].key, outcome)
    /\ userOn' = IF outcome \in {"blocked", "stopped"}
                   THEN [userOn EXCEPT ![u] = FALSE] ELSE userOn
    /\ call' = [call EXCEPT ![t] = Idle]
    /\ UNCHANGED <<globalOn, delivered, abandoned>>

\* mark_notification_history_result, and the user is switched off when the
\* answer says that the bot is blocked or stopped.
Record(t, outcome) ==
    LET u == call[t].user IN
    /\ history' = MarkResult(history, u, call[t].key, outcome)
    /\ userOn' = IF outcome \in {"blocked", "stopped"}
                   THEN [userOn EXCEPT ![u] = FALSE] ELSE userOn
    /\ call' = [call EXCEPT ![t] = Idle]
    /\ UNCHANGED <<globalOn, delivered, abandoned>>

AnsweredOk(t) ==
    /\ Sending(t)
    /\ call[t].reached
    /\ Record(t, "sent")

\* 429: the server refused the request.  Any other retryable failure (no
\* status, 503, 5xx) leaves open whether the request was executed.
RetryableFailure(t, outcome) ==
    /\ Sending(t)
    /\ outcome \in {"rate_limited", "failed"}
    /\ outcome = "rate_limited" => ~ call[t].reached

\* Mutant of Retry: a budget that starts over when it is spent.
RetryAnew(t, outcome) ==
    /\ RetryableFailure(t, outcome)
    /\ call' = [call EXCEPT ![t].attempt = (@ % MaxAttempts) + 1, ![t].reached = FALSE]
    /\ UNCHANGED <<history, globalOn, userOn, delivered, abandoned>>

Retry(t, outcome) ==
    /\ RetryableFailure(t, outcome)
    /\ call[t].attempt < MaxAttempts
    /\ call' = [call EXCEPT ![t].attempt = @ + 1, ![t].reached = FALSE]
    /\ UNCHANGED <<history, globalOn, userOn, delivered, abandoned>>

GiveUp(t, outcome) ==
    /\ RetryableFailure(t, outcome)
    /\ call[t].attempt >= MaxAttempts
    /\ Record(t, outcome)

\* blocked, stopped, 4xx, success = false
Refused(t, outcome) ==
    /\ Sending(t)
    /\ outcome \in {"blocked", "stopped", "failed"}
    /\ ~ call[t].reached
    /\ Record(t, outcome)

-----------------------------------------------------------------------------
(* What can happen to a suspended task, and the settings screen *)

\* Task.cancel() at the await (switching notifications off cancels the
\* reminder loop, shutdown cancels every loop), or a failing UPDATE: the row
\* stays as it is.
Cancelled(t) ==
    /\ Sending(t)
    /\ abandoned' = abandoned \cup {call[t].key}
    /\ call' = [call EXCEPT ![t] = Idle]
    /\ UNCHANGED <<history, globalOn, userOn, delivered>>

\* The process dies and is restarted: only SQLite survives.
Crash ==
    /\ abandoned' = abandoned \cup {call[t].key : t \in {s \in Tasks : Sending(s)}}
    /\ call' = [t \in Tasks |-> Idle]
    /\ UNCHANGED <<history, globalOn, userOn, delivered>>

\* set_notifications_enabled
ToggleGlobal ==
    /\ globalOn' = ~ globalOn
    /\ UNCHANGED <<history, userOn, call, delivered, abandoned>>

-----------------------------------------------------------------------------
Decide(u, k) == SkipGloballyOff(u, k) \/ SkipUserOff(u, k) \/ SkipByCaller(u, k)

Answered(t) ==
    \/ AnsweredOk(t)
    \/ \E outcome \in Outcomes :
          Retry(t, outcome) \/ GiveUp(t, outcome) \/ Refused(t, outcome)

Next ==
    \/ \E u \in Users, k \in Keys : Decide(u, k) \/ \E t \in Tasks : Reserved(t, u, k)
    \/ \E t \in Tasks : RequestExecuted(t) \/ Answered(t) \/ Cancelled(t)
    \/ Crash
    \/ ToggleGlobal

Spec == Init /\ [][Next]_vars

\* aiohttp's total timeout ends every request, so an answer, a failure at
\* the least, always comes.
FairSpec == Spec /\ \A t \in Tasks : WF_vars(Answered(t))

-----------------------------------------------------------------------------
(* Properties *)

Claimed(u, k) == history[u][k] \in ClaimedStatuses

\* At most one user ever owns a business key, however the tasks interleave:
\* the look-up of reserve_notification_history ignores the user.
OneOwner ==
    \A k \in Keys : \A u, v \in Users : Claimed(u, k) /\ Claimed(v, k) => u = v

\* A suspended call owns its pending row, and no two tasks are sending the
\* same key.
CallsOwnRows ==
    /\ \A t \in Tasks : Sending(t) => history[call[t].user][call[t].key] = "pending"
    /\ \A s, t \in Tasks :
          Sending(s) /\ Sending(t) /\ call[s].key = call[t].key => s = t

\* A pending row is either being sent right now or was abandoned by a
\* cancelled task or a dead process; nothing else leaves one behind.
PendingIsOwned ==
    \A u \in Users, k \in Keys : history[u][k] = "pending" =>
        \/ k \in abandoned
        \/ \E t \in Tasks : Sending(t) /\ call[t].user = u /\ call[t].key = k

\* Copies reach only the owner of the key, and never more than the sender's
\* retry budget: retries, crashes and restarts together cannot exceed it.
BoundedDelivery ==
    \A u \in Users, k \in Keys :
        /\ delivered[u][k] <= MaxAttempts
        /\ delivered[u][k] > 0 => Claimed(u, k)

\* Every attempt of a suspended call delivered at most one copy, and an
\* attempt that reached the server delivered one: what makes the two
\* properties around it inductive.
CopiesCounted ==
    \A t \in Tasks : Sending(t) =>
        LET copies == delivered[call[t].user][call[t].key] IN
        /\ call[t].reached => copies > 0 /\ copies <= call[t].attempt
        /\ ~ call[t].reached => copies < call[t].attempt

\* A row that says 'sent' is true: the message reached that user.
SentIsTrue ==
    \A u \in Users, k \in Keys : history[u][k] = "sent" => delivered[u][k] > 0

\* What was decided stays decided: a row never disappears and a row that is
\* not pending never changes, whichever task, toggle or restart comes later.
DecidedStay ==
    \A u \in Users, k \in Keys :
        history[u][k] \notin {NoRow, "pending"} =>
            history'[u][k] = history[u][k] /\ delivered'[u][k] = delivered[u][k]

DecisionsAreFinal == [][DecidedStay]_vars

\* Every call ends: the retry loop cannot keep a task suspended for ever.
CallsEnd == \A t \in Tasks : Sending(t) ~> ~ Sending(t)

\* The inductive invariant.
IInv ==
    /\ TypeOK
    /\ OneOwner
    /\ CallsOwnRows
    /\ PendingIsOwned
    /\ BoundedDelivery
    /\ CopiesCounted
    /\ SentIsTrue

-----------------------------------------------------------------------------
(* The abstract promise this protocol implements *)

ClaimBar == [k \in Keys |-> ClaimOf(history, k)]

Promise == INSTANCE OnceOnlyDelivery
             WITH claim <- ClaimBar, copies <- delivered, MaxCopies <- MaxAttempts

PromiseSpec == Promise!Spec
=============================================================================
