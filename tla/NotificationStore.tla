-------------------------- MODULE NotificationStore --------------------------
(***************************************************************************)
(* The table notification_history and the statements the program runs on   *)
(* it.  A row is identified by (user, key), where a key stands for the     *)
(* pair (yclients_record_id, notification_type); the table declares        *)
(* UNIQUE(platform, platform_user_id, yclients_record_id,                  *)
(* notification_type), and the platform is always "max".  A table is a     *)
(* function h with h[u][k] the status of the row, or NoRow.                *)
(*                                                                         *)
(* Two columns of the row matter to the callers: status, and the pair      *)
(* is_blocked / is_stopped.  They are folded into one value: "blocked" is  *)
(* status 'blocked' with is_blocked = 1, "stopped" is status 'skipped'     *)
(* with is_stopped = 1, and "skipped" is a row written by a decision not   *)
(* to send.                                                                *)
(***************************************************************************)
CONSTANTS Users, Keys

NoRow == "none"

\* What mark_notification_history_result can leave behind.
Outcomes == {"sent", "blocked", "stopped", "rate_limited", "failed"}

Statuses == {NoRow, "pending", "skipped"} \cup Outcomes

\* _ACTIVE_HISTORY_STATUSES ("delivering" is never written by the program).
ActiveStatuses == {"pending", "sent"}

\* The statuses of a row that went through reserve_notification_history.
ClaimedStatuses == {"pending"} \cup Outcomes

Tables == [Users -> [Keys -> Statuses]]

EmptyTable == [u \in Users |-> [k \in Keys |-> NoRow]]

\* SELECT id ... WHERE platform = ? AND yclients_record_id = ? AND
\* notification_type = ?: the user is NOT part of the lookup.
HasRowForKey(h, k) == \E u \in Users : h[u][k] # NoRow

\* Mutant of InsertOrIgnore: INSERT OR REPLACE.
InsertOrReplace(h, u, k, status) == [h EXCEPT ![u][k] = status]

\* INSERT OR IGNORE ... VALUES (status)
InsertOrIgnore(h, u, k, status) ==
    IF h[u][k] = NoRow THEN [h EXCEPT ![u][k] = status] ELSE h

\* reserve_notification_history returns an id, and the row is pending.
CanReserve(h, k) == ~ HasRowForKey(h, k)
Reserve(h, u, k) == InsertOrIgnore(h, u, k, "pending")

\* UPDATE notification_history SET status ... WHERE id = ?
MarkResult(h, u, k, outcome) == [h EXCEPT ![u][k] = outcome]

\* mark_notification_history_skipped
MarkSkipped(h, u, k) == InsertOrIgnore(h, u, k, "skipped")

\* An existing row that makes send_business_notification return at once.
StopsSend(status) == status \in ActiveStatuses \cup {"blocked", "stopped"}

\* What the rows of a key say in the terms of OnceOnlyDelivery: whose it is, or
\* that somebody's row closed it, or that it is still to be decided.
ClaimOf(h, k) ==
    IF \E u \in Users : h[u][k] \in ClaimedStatuses
      THEN CHOOSE u \in Users : h[u][k] \in ClaimedStatuses
      ELSE IF HasRowForKey(h, k) THEN "closed" ELSE "unclaimed"
=============================================================================
