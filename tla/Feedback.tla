------------------------------ MODULE Feedback ------------------------------
(***************************************************************************)
(* services/feedback.py, repositories/feedback.py and flows/feedback.py:   *)
(* one client is asked to rate its visits, comments a low rating, the      *)
(* staff is alerted and answers.                                           *)
(*                                                                         *)
(* The buttons of a request carry the number of stars and nothing about    *)
(* the visit: a rating, and the comment after it, belong to the client's   *)
(* newest request that still waits for one when they arrive.  All requests *)
(* of a scan are recorded before the first of them is sent.                *)
(*                                                                         *)
(* Visits are numbered in the order in which they are asked about.         *)
(***************************************************************************)
EXTENDS Naturals

CONSTANTS
    Last,       \* number of visits
    Admins,     \* who may have a role that gets alerts and answers them
    Crashes     \* bound: deaths of the process

ASSUME FeedbackAssumption == {Last, Crashes} \subseteq Nat

Visits == 1 .. Last
NoVisit == 0
SomeVisit == Visits \cup {NoVisit}

VARIABLES
    request,    \* feedback_requests: status
    response,   \* feedback_responses
    inbox,      \* the requests the client has received
    scan,       \* send_due_feedback_requests
    commenting, \* the client's screen: the visit whose comment it was asked for
    staff,      \* staff_roles
    desk,       \* the admins' chats
    job,        \* the handler suspended at a send
    alerts,     \* the alerts an admin has received (observation)
    replies,    \* the answers the client has received (observation)
    crashes

chats == <<commenting, desk>>
seen == <<alerts, replies>>
vars == <<request, response, inbox, scan, chats, staff, job, seen, crashes>>

NoResponse == [rating |-> "none", comment |-> FALSE, status |-> "open", notified |-> FALSE]
NoDesk == [visit |-> NoVisit, text |-> NoVisit, typing |-> FALSE]
NoScan == [pc |-> "idle", queue |-> {}]
NoJob == [pc |-> "idle", visit |-> NoVisit, left |-> {}, any |-> FALSE]

TypeOK ==
    /\ request \in [Visits -> {"none", "sent", "waiting", "positive", "commented"}]
    /\ response \in [Visits -> [rating : {"none", "negative", "positive"}, comment : BOOLEAN,
                                status : {"open", "admin_replied"}, notified : BOOLEAN]]
    /\ inbox \subseteq Visits
    /\ scan \in [pc : {"idle", "collect", "send"}, queue : SUBSET Visits]
    /\ commenting \in SomeVisit
    /\ staff \subseteq Admins
    /\ desk \in [Admins -> [visit : SomeVisit, text : SomeVisit, typing : BOOLEAN]]
    /\ job \in [pc : {"idle", "alert", "reply", "save"}, visit : SomeVisit,
                left : SUBSET Admins, any : BOOLEAN]
    /\ alerts \in [Admins -> [Visits -> Nat]]
    /\ replies \in [Visits -> Nat]
    /\ crashes \in 0 .. Crashes

Init ==
    /\ request = [v \in Visits |-> "none"]
    /\ response = [v \in Visits |-> NoResponse]
    /\ inbox = {}
    /\ scan = NoScan
    /\ commenting = NoVisit
    /\ staff = Admins
    /\ desk = [a \in Admins |-> NoDesk]
    /\ job = NoJob
    /\ alerts = [a \in Admins |-> [v \in Visits |-> 0]]
    /\ replies = [v \in Visits |-> 0]
    /\ crashes = 0

Free == job.pc = "idle"

-----------------------------------------------------------------------------
(* The scan *)

BeginScan ==
    /\ scan.pc = "idle"
    /\ scan' = [NoScan EXCEPT !.pc = "collect"]
    /\ UNCHANGED <<request, response, inbox, chats, staff, job, seen, crashes>>

\* get_due_feedback_requests: a completed visit nobody was asked about.
Request(v) ==
    /\ scan.pc = "collect"
    /\ request[v] = "none" /\ \A w \in 1 .. v - 1 : request[w] # "none"
    /\ request' = [request EXCEPT ![v] = "sent"]
    /\ scan' = [scan EXCEPT !.queue = @ \cup {v}]
    /\ UNCHANGED <<response, inbox, chats, staff, job, seen, crashes>>

Collected ==
    /\ scan.pc = "collect"
    /\ scan' = [scan EXCEPT !.pc = "send"]
    /\ UNCHANGED <<request, response, inbox, chats, staff, job, seen, crashes>>

\* send_business_notification, which may not reach the client.
Send(v) ==
    /\ scan.pc = "send" /\ v \in scan.queue
    /\ inbox' \in {inbox, inbox \cup {v}}
    /\ scan' = [scan EXCEPT !.queue = @ \ {v}]
    /\ UNCHANGED <<request, response, chats, staff, job, seen, crashes>>

EndScan ==
    /\ scan.pc = "send" /\ scan.queue = {}
    /\ scan' = NoScan
    /\ UNCHANGED <<request, response, inbox, chats, staff, job, seen, crashes>>

-----------------------------------------------------------------------------
(* The client *)

\* find_latest_waiting
Waiting == {v \in Visits : request[v] \in {"sent", "waiting"}}

IsLatest(v) == v \in Waiting /\ \A w \in Waiting : w <= v

RequestAfter(rating) == IF rating = "negative" THEN "waiting" ELSE "positive"

\* Mutant of Rated: every request of the client gets the status.
RatedEvery(v, rating) ==
    /\ response' = [response EXCEPT ![v].rating = rating]
    /\ request' = [w \in Visits |-> IF request[w] = "none" THEN "none" ELSE RequestAfter(rating)]

\* Mutant of Rated: the request of a good rating keeps waiting.
RatedWaiting(v, rating) ==
    /\ response' = [response EXCEPT ![v].rating = rating]
    /\ request' = [request EXCEPT ![v] = "waiting"]

\* save_rating_once
Rated(v, rating) ==
    /\ response' = [response EXCEPT ![v].rating = rating]
    /\ request' = [request EXCEPT ![v] = RequestAfter(rating)]

\* A button of a request the client has; which request it is does not matter.
Rate(v, rating) ==
    /\ Free /\ inbox # {}
    /\ IsLatest(v)
    /\ response[v].rating = "none" /\ Rated(v, rating)
    /\ commenting' = IF rating = "negative" THEN v ELSE NoVisit
    /\ UNCHANGED <<inbox, scan, desk, staff, job, seen, crashes>>

\* The text goes to the comment screen only; anything else leaves the screen.
LeaveScreen ==
    /\ Free /\ commenting # NoVisit
    /\ commenting' = NoVisit
    /\ UNCHANGED <<request, response, inbox, scan, desk, staff, job, seen, crashes>>

\* Mutant of Alerting: the staff is alerted of the missing comment as well.
AlertingAlways(v) ==
    \E reachable \in SUBSET staff : job' = [NoJob EXCEPT !.pc = "alert", !.visit = v, !.left = reachable]

\* notify_negative_feedback, to the staff that can be reached
Alerting(v) ==
    IF response[v].rating = "none" \/ response[v].notified THEN UNCHANGED job
    ELSE \E reachable \in SUBSET staff :
            job' = [NoJob EXCEPT !.pc = "alert", !.visit = v, !.left = reachable]

\* _handle_comment: save_comment closes the newest waiting request; when that
\* one was never rated, the comment is not kept.
Comment(v) ==
    /\ Free /\ commenting # NoVisit
    /\ IsLatest(v)
    /\ request' = [request EXCEPT ![v] = "commented"]
    /\ response' = [response EXCEPT ![v].comment = (response[v].rating # "none")]
    /\ Alerting(v)
    /\ commenting' = NoVisit
    /\ UNCHANGED <<inbox, scan, desk, staff, alerts, replies, crashes>>

-----------------------------------------------------------------------------
(* The staff *)

Alert(a) ==
    /\ job.pc = "alert" /\ a \in job.left
    /\ \/ /\ alerts' = [alerts EXCEPT ![a][job.visit] = @ + 1]
          /\ job' = [job EXCEPT !.left = @ \ {a}, !.any = TRUE]
       \/ job' = [job EXCEPT !.left = @ \ {a}] /\ UNCHANGED alerts
    /\ UNCHANGED <<request, response, inbox, scan, chats, staff, replies, crashes>>

\* mark_admin_notified, if any alert was delivered
AlertDone ==
    /\ job.pc = "alert" /\ job.left = {}
    /\ response' = [response EXCEPT ![job.visit].notified = @ \/ job.any]
    /\ job' = NoJob
    /\ UNCHANGED <<request, inbox, scan, chats, staff, seen, crashes>>

\* Mutant of MayReply: the response's status is not read again.
MayReplyEver(a, v) == a \in staff

\* is_feedback_admin, get_feedback_response
MayReply(a, v) == a \in staff /\ response[v].rating # "none" /\ response[v].status = "open"

Desk(a, d) ==
    /\ desk' = [desk EXCEPT ![a] = d]
    /\ UNCHANGED <<request, response, inbox, scan, commenting, staff, seen, crashes>>

\* The button of an alert; a text typed before stays in the chat's state.
ReplyStart(a, v) ==
    /\ Free /\ alerts[a][v] > 0
    /\ MayReply(a, v)
    /\ Desk(a, [desk[a] EXCEPT !.visit = v, !.typing = TRUE]) /\ UNCHANGED job

ReplyText(a) ==
    LET v == desk[a].visit IN
    /\ Free /\ desk[a].typing
    /\ Desk(a, IF MayReply(a, v) THEN [visit |-> v, text |-> v, typing |-> FALSE] ELSE NoDesk)
    /\ UNCHANGED job

\* The buttons of the card: change the text, or give up
ReplyEdit(a) ==
    /\ Free /\ desk[a].text # NoVisit
    /\ Desk(a, [desk[a] EXCEPT !.typing = TRUE]) /\ UNCHANGED job

ReplyBack(a) ==
    /\ Free /\ desk[a] # NoDesk
    /\ Desk(a, NoDesk) /\ UNCHANGED job

\* ... or send it: role and response are read again.
ReplySend(a) ==
    LET v == desk[a].visit IN
    /\ Free /\ desk[a].text # NoVisit
    /\ Desk(a, NoDesk)
    /\ job' = IF MayReply(a, v) THEN [NoJob EXCEPT !.pc = "reply", !.visit = v] ELSE NoJob

\* The send ends, whether or not the client gets the answer.
ReplySent ==
    /\ job.pc = "reply"
    /\ job' = [job EXCEPT !.pc = "save"]
    /\ replies' \in {replies, [replies EXCEPT ![job.visit] = @ + 1]}
    /\ UNCHANGED <<request, response, inbox, scan, chats, staff, alerts, crashes>>

\* save_admin_reply
ReplySaved ==
    /\ job.pc = "save"
    /\ response' = [response EXCEPT ![job.visit].status = "admin_replied"]
    /\ job' = NoJob
    /\ UNCHANGED <<request, inbox, scan, chats, staff, seen, crashes>>

\* Somebody gets or loses the role.
StaffChanges(a) ==
    /\ Free
    /\ staff' = IF a \in staff THEN staff \ {a} ELSE staff \cup {a}
    /\ UNCHANGED <<request, response, inbox, scan, chats, job, seen, crashes>>

\* Chats and handlers are in memory.
Crash ==
    /\ crashes < Crashes /\ crashes' = crashes + 1
    /\ scan' = NoScan /\ job' = NoJob
    /\ commenting' = NoVisit /\ desk' = [a \in Admins |-> NoDesk]
    /\ UNCHANGED <<request, response, inbox, staff, seen>>

Next ==
    \/ BeginScan \/ Collected \/ EndScan \/ \E v \in Visits : Request(v) \/ Send(v)
    \/ \E v \in Visits : Comment(v) \/ \E rating \in {"negative", "positive"} : Rate(v, rating)
    \/ LeaveScreen \/ AlertDone \/ ReplySent \/ ReplySaved \/ Crash
    \/ \E a \in Admins :
          \/ Alert(a) \/ ReplyText(a) \/ ReplyEdit(a) \/ ReplyBack(a) \/ ReplySend(a)
          \/ StaffChanges(a)
          \/ \E v \in Visits : ReplyStart(a, v)

Spec == Init /\ [][Next]_vars

-----------------------------------------------------------------------------
(* Properties *)

\* The two tables agree: what a request waits for is what its response lacks.
RequestsAgree ==
    \A v \in Visits :
        /\ request[v] \in {"none", "sent"} => response[v] = NoResponse
        /\ request[v] = "waiting" => response[v].rating = "negative" /\ ~ response[v].comment
        /\ (request[v] = "positive") = (response[v].rating = "positive")
        /\ response[v].comment => response[v].rating = "negative" /\ request[v] = "commented"

\* A rating and a comment are given once, whatever buttons of whichever requests
\* are pressed later, and no request is closed twice.
RatingsAreFinal ==
    [][\A v \in Visits :
          /\ response[v].rating # "none" => response'[v].rating = response[v].rating
          /\ response[v].comment => response'[v].comment
          /\ request[v] \in {"positive", "commented"} => request'[v] = request[v]]_vars

\* The staff hears of a visit once, and only of a low rating with its comment.
AlertsAreAboutComments ==
    /\ \A a \in Admins, v \in Visits :
          alerts[a][v] <= 1 /\ (alerts[a][v] > 0 => response[v].comment)
    /\ \A v \in Visits : response[v].notified => \E a \in Admins : alerts[a][v] > 0

\* However many of the staff answer at once, the client gets one answer to a
\* rating; a second one needs a death between the send and its record.
OneReplyPerRating == \A v \in Visits : replies[v] <= 1 + crashes

=============================================================================
