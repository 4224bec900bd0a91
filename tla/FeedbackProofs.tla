--------------------------- MODULE FeedbackProofs ---------------------------
(***************************************************************************)
(* The safety properties of Feedback for any number of visits, admins and  *)
(* deaths.  The handler suspended at a send carries them: the visit it is  *)
(* about has a rating, an alert is about a comment nobody was told of yet, *)
(* and an answer is sent while the response is still open.                 *)
(***************************************************************************)
EXTENDS Feedback, TLAPS

Ratings == {"none", "negative", "positive"}
Responses == [rating : Ratings, comment : BOOLEAN,
              status : {"open", "admin_replied"}, notified : BOOLEAN]
Jobs == [pc : {"idle", "alert", "reply", "save"}, visit : SomeVisit,
         left : SUBSET Admins, any : BOOLEAN]
Desks == [visit : SomeVisit, text : SomeVisit, typing : BOOLEAN]

\* What a suspended handler may rely on
JobInHand ==
    /\ job.pc # "idle" => job.visit \in Visits /\ response[job.visit].rating # "none"
    /\ job.pc = "alert" =>
          /\ response[job.visit].comment
          /\ \A a \in job.left : alerts[a][job.visit] = 0
          /\ job.any => \E a \in Admins : alerts[a][job.visit] > 0
    /\ job.pc = "reply" => response[job.visit].status = "open"

\* A text on an admin's desk is about some visit.
DesksAreAboutVisits ==
    \A a \in Admins : desk[a].text # NoVisit \/ desk[a].typing => desk[a].visit \in Visits

\* An open response was answered only by handlers that died.
Answering(v) == job.pc = "save" /\ job.visit = v

OpenIsUnanswered ==
    \A v \in Visits : response[v].status = "open" /\ ~ Answering(v) => replies[v] <= crashes

\* The inductive invariant.
IInv ==
    /\ TypeOK /\ RequestsAgree /\ AlertsAreAboutComments /\ OneReplyPerRating
    /\ JobInHand /\ DesksAreAboutVisits /\ OpenIsUnanswered

\* What a step may not do to ratings, comments and closed requests
Kept ==
    \A v \in Visits :
        /\ response[v].rating # "none" => response'[v].rating = response[v].rating
        /\ response[v].comment => response'[v].comment
        /\ request[v] \in {"positive", "commented"} => request'[v] = request[v]

USE DEF NoVisit, SomeVisit, seen, chats

LEMMA Numbers == Last \in Nat /\ Crashes \in Nat
  BY FeedbackAssumption

LEMMA NoVisitIsNone == NoVisit \notin Visits /\ Visits \subseteq Nat
  BY Numbers DEF Visits

\* TypeOK in terms of the named sets
LEMMA Types ==
    TypeOK <=>
    /\ request \in [Visits -> {"none", "sent", "waiting", "positive", "commented"}]
    /\ response \in [Visits -> Responses]
    /\ inbox \subseteq Visits
    /\ scan \in [pc : {"idle", "collect", "send"}, queue : SUBSET Visits]
    /\ commenting \in SomeVisit
    /\ staff \subseteq Admins
    /\ desk \in [Admins -> Desks]
    /\ job \in Jobs
    /\ alerts \in [Admins -> [Visits -> Nat]]
    /\ replies \in [Visits -> Nat]
    /\ crashes \in 0 .. Crashes
  BY DEF TypeOK, Responses, Ratings, Jobs, Desks

\* The response of one visit is written.
LEMMA ResponseWritten ==
    ASSUME response \in [Visits -> Responses], NEW v \in Visits, NEW r \in Responses,
           response' = [response EXCEPT ![v] = r]
    PROVE  /\ response' \in [Visits -> Responses] /\ response'[v] = r
           /\ \A w \in Visits : w # v => response'[w] = response[w]
  OBVIOUS

\* The fields of a response
LEMMA ResponseFields ==
    ASSUME response \in [Visits -> Responses], NEW v \in Visits
    PROVE  /\ response[v].rating \in Ratings /\ response[v].comment \in BOOLEAN
           /\ response[v].status \in {"open", "admin_replied"}
           /\ response[v].notified \in BOOLEAN
           /\ response[v] = [rating |-> response[v].rating, comment |-> response[v].comment,
                             status |-> response[v].status, notified |-> response[v].notified]
  BY DEF Responses

LEMMA InitIInv == Init => IInv
<1> SUFFICES ASSUME Init PROVE IInv
  OBVIOUS
<1>1. NoResponse \in Responses /\ NoDesk \in Desks /\ NoJob \in Jobs
      /\ NoScan \in [pc : {"idle", "collect", "send"}, queue : SUBSET Visits]
  BY DEF NoResponse, Responses, Ratings, NoDesk, Desks, NoJob, Jobs, NoScan
<1>2. 0 \in 0 .. Crashes
  BY Numbers
<1>3. TypeOK
  BY <1>1, <1>2, Types DEF Init
<1>4. RequestsAgree
  BY DEF Init, RequestsAgree, NoResponse
<1>5. AlertsAreAboutComments
  BY DEF Init, AlertsAreAboutComments, NoResponse
<1>6. OneReplyPerRating /\ OpenIsUnanswered
  BY DEF Init, OneReplyPerRating, OpenIsUnanswered
<1>7. JobInHand /\ DesksAreAboutVisits
  BY DEF Init, JobInHand, NoJob, DesksAreAboutVisits, NoDesk
<1>8. QED
  BY <1>3, <1>4, <1>5, <1>6, <1>7 DEF IInv

-----------------------------------------------------------------------------
(* The scan *)

LEMMA ScanStep ==
    ASSUME IInv, BeginScan \/ Collected \/ EndScan \/ \E v \in Visits : Request(v) \/ Send(v)
    PROVE  IInv' /\ Kept
<1> DEFINE Scans == [pc : {"idle", "collect", "send"}, queue : SUBSET Visits]
<1>1. UNCHANGED <<response, commenting, desk, staff, job, alerts, replies, crashes>>
  BY DEF BeginScan, Collected, EndScan, Request, Send
<1>2. scan \in Scans
  BY Types DEF IInv
<1>3. ASSUME NEW v \in Visits, Request(v) PROVE IInv' /\ Kept
  <2>1. /\ request[v] = "none" /\ request' = [request EXCEPT ![v] = "sent"]
        /\ scan' = [scan EXCEPT !.queue = @ \cup {v}] /\ UNCHANGED inbox
    BY <1>3 DEF Request
  <2>2. scan' \in Scans
    BY <1>2, <2>1
  <2>3. /\ request' \in [Visits -> {"none", "sent", "waiting", "positive", "commented"}]
        /\ request'[v] = "sent" /\ \A w \in Visits : w # v => request'[w] = request[w]
    BY <2>1, Types DEF IInv
  <2>4. TypeOK'
    BY <1>1, <2>1, <2>2, <2>3, Types DEF IInv, TypeOK
  <2>5. response[v] = NoResponse
    BY <2>1 DEF IInv, RequestsAgree
  <2>6. RequestsAgree'
    BY <1>1, <2>3, <2>5 DEF IInv, RequestsAgree, NoResponse
  <2>7. Kept
    BY <1>1, <2>1, <2>3 DEF Kept
  <2>8. QED
    BY <1>1, <2>4, <2>6, <2>7
    DEF IInv, AlertsAreAboutComments, OneReplyPerRating, JobInHand, DesksAreAboutVisits,
        OpenIsUnanswered, Answering
<1>4. ASSUME UNCHANGED request, inbox' \subseteq Visits, scan' \in Scans
      PROVE  IInv' /\ Kept
  <2>1. TypeOK'
    BY <1>1, <1>4 DEF IInv, TypeOK
  <2>2. QED
    BY <1>1, <1>4, <2>1
    DEF IInv, RequestsAgree, AlertsAreAboutComments, OneReplyPerRating, JobInHand,
        DesksAreAboutVisits, OpenIsUnanswered, Answering, Kept
<1>5. ASSUME NEW v \in Visits, Send(v) PROVE IInv' /\ Kept
  <2>1. UNCHANGED request /\ inbox' \subseteq Visits /\ scan' = [scan EXCEPT !.queue = @ \ {v}]
    BY <1>5, Types DEF Send, IInv
  <2>2. scan' \in Scans
    BY <1>2, <2>1
  <2>3. QED
    BY <1>4, <2>1, <2>2
<1>6. CASE BeginScan \/ Collected \/ EndScan
  <2>1. UNCHANGED <<request, inbox>>
    BY <1>6 DEF BeginScan, Collected, EndScan
  <2>2. inbox \subseteq Visits
    BY Types DEF IInv
  <2>3. scan' \in Scans
    BY <1>2, <1>6 DEF BeginScan, Collected, EndScan, NoScan
  <2>4. QED
    BY <1>4, <2>1, <2>2, <2>3
<1>7. QED
  BY <1>3, <1>5, <1>6

-----------------------------------------------------------------------------
(* The client *)

\* A rating goes to a request that was sent, and had no response.
LEMMA RateStep ==
    ASSUME IInv, NEW v \in Visits, NEW rating \in {"negative", "positive"}, Rate(v, rating)
    PROVE  IInv' /\ Kept
<1> DEFINE r == [rating |-> rating, comment |-> response[v].comment,
                 status |-> response[v].status, notified |-> response[v].notified]
<1>1. /\ job.pc = "idle" /\ request[v] \in {"sent", "waiting"} /\ response[v].rating = "none"
      /\ response' = [response EXCEPT ![v].rating = rating]
      /\ request' = [request EXCEPT ![v] = RequestAfter(rating)]
      /\ commenting' = IF rating = "negative" THEN v ELSE NoVisit
      /\ UNCHANGED <<inbox, scan, desk, staff, job, alerts, replies, crashes>>
  BY DEF Rate, Free, IsLatest, Waiting, Rated
<1>2. response \in [Visits -> Responses]
  BY Types DEF IInv
<1>3. r \in Responses /\ response' = [response EXCEPT ![v] = r]
  <2>1. response[v] = [rating |-> response[v].rating, comment |-> response[v].comment,
                       status |-> response[v].status, notified |-> response[v].notified]
    BY <1>2, ResponseFields
  <2>2. [response[v] EXCEPT !.rating = rating] = r
    BY <2>1
  <2>3. r \in Responses
    BY <1>2, ResponseFields DEF Responses, Ratings
  <2>4. QED
    BY <1>1, <2>2, <2>3
<1>4. /\ response' \in [Visits -> Responses] /\ response'[v] = r
      /\ \A w \in Visits : w # v => response'[w] = response[w]
  BY <1>2, <1>3, ResponseWritten
<1>5. /\ request' \in [Visits -> {"none", "sent", "waiting", "positive", "commented"}]
      /\ request'[v] = RequestAfter(rating)
      /\ \A w \in Visits : w # v => request'[w] = request[w]
  BY <1>1, Types DEF IInv, RequestAfter
<1>6. TypeOK'
  BY <1>1, <1>4, <1>5, Types DEF IInv, TypeOK
<1>7. response[v] = NoResponse
  BY <1>1 DEF IInv, RequestsAgree
<1>8. RequestsAgree'
  BY <1>4, <1>5, <1>7 DEF IInv, RequestsAgree, NoResponse, RequestAfter
<1>9. AlertsAreAboutComments' /\ OneReplyPerRating'
  BY <1>1, <1>4, <1>7 DEF IInv, AlertsAreAboutComments, OneReplyPerRating, NoResponse
<1>10. JobInHand' /\ DesksAreAboutVisits'
  BY <1>1 DEF IInv, JobInHand, DesksAreAboutVisits
<1>11. OpenIsUnanswered'
  BY <1>1, <1>4 DEF IInv, OpenIsUnanswered, Answering
<1>12. Kept
  <2>1. response'[v].comment = response[v].comment
    <3>1. response'[v].comment = r.comment
      BY <1>4, Zenon
    <3>2. r.comment = response[v].comment
      OBVIOUS
    <3>3. QED
      BY <3>1, <3>2, Zenon
  <2>2. request[v] \notin {"positive", "commented"}
    BY <1>1
  <2>3. QED
    BY <1>1, <1>4, <1>5, <2>1, <2>2 DEF Kept
<1>13. QED
  BY <1>6, <1>8, <1>9, <1>10, <1>11, <1>12 DEF IInv

\* A comment goes to the newest waiting request; it is kept, and the staff
\* alerted, if that one was rated.
LEMMA CommentStep ==
    ASSUME IInv, NEW v \in Visits, Comment(v)
    PROVE  IInv' /\ Kept
<1> DEFINE kept == response[v].rating # "none"
           r == [rating |-> response[v].rating, comment |-> kept,
                 status |-> response[v].status, notified |-> response[v].notified]
<1>1. /\ job.pc = "idle" /\ request[v] \in {"sent", "waiting"}
      /\ request' = [request EXCEPT ![v] = "commented"]
      /\ response' = [response EXCEPT ![v].comment = kept]
      /\ Alerting(v) /\ commenting' = NoVisit
      /\ UNCHANGED <<inbox, scan, desk, staff, alerts, replies, crashes>>
  BY DEF Comment, Free, IsLatest, Waiting
<1>2. response \in [Visits -> Responses]
  BY Types DEF IInv
<1>3. r \in Responses /\ response' = [response EXCEPT ![v] = r]
  <2>1. response[v] = [rating |-> response[v].rating, comment |-> response[v].comment,
                       status |-> response[v].status, notified |-> response[v].notified]
    BY <1>2, ResponseFields
  <2>2. [response[v] EXCEPT !.comment = kept] = r
    BY <2>1
  <2>3. r \in Responses
    BY <1>2, ResponseFields DEF Responses, Ratings
  <2>4. QED
    BY <1>1, <2>2, <2>3
<1>4. /\ response' \in [Visits -> Responses] /\ response'[v] = r
      /\ \A w \in Visits : w # v => response'[w] = response[w]
  BY <1>2, <1>3, ResponseWritten
<1>5. /\ request' \in [Visits -> {"none", "sent", "waiting", "positive", "commented"}]
      /\ request'[v] = "commented"
      /\ \A w \in Visits : w # v => request'[w] = request[w]
  BY <1>1, Types DEF IInv
<1>6. /\ ~ response[v].comment /\ response[v].rating \in {"none", "negative"}
      /\ \A a \in Admins : alerts[a][v] = 0
  <2>1. ~ response[v].comment /\ response[v].rating \in {"none", "negative"}
    BY <1>1 DEF IInv, RequestsAgree, NoResponse
  <2>2. \A a \in Admins : alerts[a][v] \in Nat /\ ~ alerts[a][v] > 0
    BY <2>1, Types DEF IInv, AlertsAreAboutComments
  <2>3. QED
    BY <2>1, <2>2
<1>7. job' \in Jobs /\ JobInHand'
  <2>1. job \in Jobs
    BY Types DEF IInv
  <2>2. CASE UNCHANGED job
    BY <1>1, <2>1, <2>2 DEF JobInHand
  <2>3. CASE ~ UNCHANGED job
    <3>1. PICK reachable \in SUBSET staff :
             job' = [pc |-> "alert", visit |-> v, left |-> reachable, any |-> FALSE]
      BY <1>1, <2>3 DEF Alerting, NoJob
    <3>2. response[v].rating # "none"
      BY <1>1, <2>3 DEF Alerting
    <3>3. reachable \subseteq Admins
      BY Types DEF IInv
    <3>4. job' \in Jobs
      BY <3>1, <3>3 DEF Jobs
    <3>5. JobInHand'
      <4>1. /\ job'.pc = "alert" /\ job'.visit = v /\ job'.left = reachable /\ ~ job'.any
        BY <3>1
      <4>2. response'[v].rating = r.rating /\ response'[v].comment = r.comment
        BY <1>4, Zenon
      <4>3. r.rating = response[v].rating /\ r.comment = kept
        OBVIOUS
      <4>4. response'[v].rating # "none" /\ response'[v].comment
        BY <3>2, <4>2, <4>3
      <4>5. \A a \in reachable : alerts'[a][v] = 0
        BY <1>1, <1>6, <3>3
      <4>6. QED
        BY <4>1, <4>4, <4>5 DEF JobInHand
    <3>6. QED
      BY <3>4, <3>5
  <2>4. QED
    BY <2>2, <2>3
<1>8. TypeOK'
  BY <1>1, <1>4, <1>5, <1>7 DEF IInv, TypeOK, Responses, Ratings, Jobs
<1>9. RequestsAgree'
  <2>1. /\ response'[v].rating = response[v].rating
        /\ response'[v].comment => response[v].rating # "none"
    <3>1. response'[v].rating = r.rating /\ response'[v].comment = r.comment
      BY <1>4, Zenon
    <3>2. r.rating = response[v].rating /\ r.comment = kept
      OBVIOUS
    <3>3. QED
      BY <3>1, <3>2, Zenon
  <2>2. ASSUME NEW w \in Visits, w # v
        PROVE  request'[w] = request[w] /\ response'[w] = response[w]
    BY <1>4, <1>5, <2>2
  <2>3. QED
    BY <1>5, <1>6, <2>1, <2>2 DEF IInv, RequestsAgree
<1>10. AlertsAreAboutComments'
  BY <1>1, <1>4, <1>6 DEF IInv, AlertsAreAboutComments
<1>11. OneReplyPerRating' /\ DesksAreAboutVisits'
  BY <1>1 DEF IInv, OneReplyPerRating, DesksAreAboutVisits
<1>12. OpenIsUnanswered'
  BY <1>1, <1>4 DEF IInv, OpenIsUnanswered, Answering
<1>13. Kept
  <2>1. response'[v].rating = response[v].rating
    <3>1. response'[v].rating = r.rating
      BY <1>4, Zenon
    <3>2. r.rating = response[v].rating
      OBVIOUS
    <3>3. QED
      BY <3>1, <3>2, Zenon
  <2>2. request[v] \notin {"positive", "commented"}
    BY <1>1
  <2>3. QED
    BY <1>4, <1>5, <1>6, <2>1, <2>2 DEF Kept
<1>14. QED
  BY <1>7, <1>8, <1>9, <1>10, <1>11, <1>12, <1>13 DEF IInv

-----------------------------------------------------------------------------
(* The staff *)

LEMMA AlertStep ==
    ASSUME IInv, NEW a \in Admins, Alert(a)
    PROVE  IInv'
<1> DEFINE v == job.visit
<1>1. /\ job.pc = "alert" /\ a \in job.left
      /\ UNCHANGED <<request, response, inbox, scan, commenting, desk, staff, replies, crashes>>
  BY DEF Alert
<1>2. /\ job \in Jobs /\ v \in Visits /\ response[v].rating # "none" /\ response[v].comment
      /\ alerts[a][v] = 0 /\ alerts \in [Admins -> [Visits -> Nat]]
  BY <1>1, Types DEF IInv, JobInHand
<1>3. PICK any \in BOOLEAN :
         /\ job' = [pc |-> "alert", visit |-> v, left |-> job.left \ {a}, any |-> any]
         /\ any => job.any \/ alerts'[a][v] > 0
         /\ alerts' \in [Admins -> [Visits -> Nat]]
         /\ alerts'[a][v] \in {0, 1}
         /\ \A b \in Admins, w \in Visits : <<b, w>> # <<a, v>> => alerts'[b][w] = alerts[b][w]
  <2>1. CASE /\ alerts' = [alerts EXCEPT ![a][job.visit] = @ + 1]
             /\ job' = [job EXCEPT !.left = @ \ {a}, !.any = TRUE]
    <3>1. job' = [pc |-> "alert", visit |-> v, left |-> job.left \ {a}, any |-> TRUE]
      BY <1>1, <1>2, <2>1 DEF Jobs
    <3>2. alerts' = [alerts EXCEPT ![a][v] = 1]
      BY <1>2, <2>1
    <3>3. /\ alerts' \in [Admins -> [Visits -> Nat]] /\ alerts'[a][v] = 1
          /\ \A b \in Admins, w \in Visits : <<b, w>> # <<a, v>> => alerts'[b][w] = alerts[b][w]
      BY <1>2, <1>1, <3>2 DEF Jobs
    <3>4. WITNESS TRUE \in BOOLEAN
    <3>5. QED
      BY <3>1, <3>3
  <2>2. CASE job' = [job EXCEPT !.left = @ \ {a}] /\ UNCHANGED alerts
    <3>1. job' = [pc |-> "alert", visit |-> v, left |-> job.left \ {a}, any |-> job.any]
      BY <1>1, <1>2, <2>2 DEF Jobs
    <3>2. job.any \in BOOLEAN
      BY <1>2 DEF Jobs
    <3>3. QED
      BY <1>2, <2>2, <3>1, <3>2
  <2>3. QED
    BY <2>1, <2>2 DEF Alert
<1>4. job' \in Jobs /\ job'.pc = "alert" /\ job'.visit = v /\ job'.left = job.left \ {a} /\ job'.any = any
  BY <1>2, <1>3 DEF Jobs
<1>5. TypeOK'
  BY <1>1, <1>3, <1>4, Types DEF IInv, TypeOK
<1>6. AlertsAreAboutComments'
  <2>1. \A b \in Admins, w \in Visits :
           alerts'[b][w] <= 1 /\ (alerts'[b][w] > 0 => response[w].comment)
    BY <1>2, <1>3 DEF IInv, AlertsAreAboutComments
  <2>2. ASSUME NEW w \in Visits, response[w].notified
        PROVE  \E b \in Admins : alerts'[b][w] > 0
    <3>1. PICK b \in Admins : alerts[b][w] > 0
      BY <2>2 DEF IInv, AlertsAreAboutComments
    <3>2. <<b, w>> # <<a, v>>
      BY <1>2, <3>1
    <3>3. QED
      BY <1>3, <3>1, <3>2
  <2>3. QED
    BY <1>1, <2>1, <2>2 DEF AlertsAreAboutComments
<1>7. JobInHand'
  <2>1. \A b \in job'.left : alerts'[b][v] = 0
    <3>1. \A b \in job'.left : b \in Admins /\ b \in job.left /\ b # a
      BY <1>2, <1>4 DEF Jobs
    <3>2. QED
      BY <1>1, <1>2, <1>3, <3>1 DEF IInv, JobInHand
  <2>2. any => \E b \in Admins : alerts'[b][v] > 0
    <3>1. ASSUME job.any PROVE \E b \in Admins : alerts'[b][v] > 0
      <4>1. PICK b \in Admins : alerts[b][v] > 0
        BY <1>1, <3>1 DEF IInv, JobInHand
      <4>2. b # a
        BY <1>2, <4>1
      <4>3. QED
        BY <1>2, <1>3, <4>1, <4>2
    <3>2. QED
      BY <1>3, <3>1
  <2>3. QED
    BY <1>1, <1>2, <1>4, <2>1, <2>2 DEF JobInHand
<1>8. OpenIsUnanswered'
  BY <1>1, <1>4 DEF IInv, OpenIsUnanswered, Answering
<1>9. QED
  BY <1>1, <1>5, <1>6, <1>7, <1>8 DEF IInv, RequestsAgree, OneReplyPerRating, DesksAreAboutVisits

\* mark_admin_notified says what the alerts did.
LEMMA AlertDoneStep ==
    ASSUME IInv, AlertDone
    PROVE  IInv' /\ Kept
<1> DEFINE v == job.visit
           r == [rating |-> response[v].rating, comment |-> response[v].comment,
                 status |-> response[v].status, notified |-> response[v].notified \/ job.any]
<1>1. /\ job.pc = "alert" /\ job' = NoJob
      /\ response' = [response EXCEPT ![v].notified = @ \/ job.any]
      /\ UNCHANGED <<request, inbox, scan, commenting, desk, staff, alerts, replies, crashes>>
  BY DEF AlertDone
<1>2. /\ response \in [Visits -> Responses] /\ job \in Jobs
      /\ v \in Visits /\ response[v].rating # "none" /\ response[v].comment
      /\ job.any => \E a \in Admins : alerts[a][v] > 0
  BY <1>1, Types DEF IInv, JobInHand
<1>3. r \in Responses
  <2>1. response[v].notified \in BOOLEAN /\ job.any \in BOOLEAN
    BY <1>2, ResponseFields DEF Jobs
  <2>2. (response[v].notified \/ job.any) \in BOOLEAN
    BY <2>1
  <2>3. QED
    BY <1>2, <2>2, ResponseFields DEF Responses
<1>4. response' = [response EXCEPT ![v] = r]
  <2>1. response[v] = [rating |-> response[v].rating, comment |-> response[v].comment,
                       status |-> response[v].status, notified |-> response[v].notified]
    BY <1>2, ResponseFields
  <2>2. [response[v] EXCEPT !.notified = @ \/ job.any] = r
    BY <2>1
  <2>3. QED
    BY <1>1, <2>2
<1>5. /\ response' \in [Visits -> Responses] /\ response'[v] = r
      /\ \A w \in Visits : w # v => response'[w] = response[w]
  <2> HIDE DEF r
  <2>1. QED
    BY <1>2, <1>3, <1>4, ResponseWritten
<1>6. /\ response'[v].rating = response[v].rating /\ response'[v].comment = response[v].comment
      /\ response'[v].status = response[v].status
      /\ response'[v].notified => response[v].notified \/ job.any
  <2>1. /\ r.rating = response[v].rating /\ r.comment = response[v].comment
        /\ r.status = response[v].status /\ r.notified = (response[v].notified \/ job.any)
    OBVIOUS
  <2>2. /\ response'[v].rating = r.rating /\ response'[v].comment = r.comment
        /\ response'[v].status = r.status /\ response'[v].notified = r.notified
    BY <1>5, Zenon
  <2>3. QED
    BY <2>1, <2>2, Zenon
<1>7. TypeOK'
  <2>1. NoJob \in Jobs
    BY DEF NoJob, Jobs
  <2>2. QED
    BY <1>1, <1>5, <2>1 DEF IInv, TypeOK, Responses, Ratings, Jobs
<1>8. RequestsAgree'
  <2>1. request[v] \notin {"none", "sent"}
    BY <1>2 DEF IInv, RequestsAgree, NoResponse
  <2>2. \A w \in Visits : /\ response'[w].rating = response[w].rating
                          /\ response'[w].comment = response[w].comment
    BY <1>5, <1>6
  <2>3. \A w \in Visits : request[w] \in {"none", "sent"} => response'[w] = response[w]
    BY <1>5, <2>1
  <2>4. QED
    BY <1>1, <2>2, <2>3 DEF IInv, RequestsAgree
<1>9. AlertsAreAboutComments'
  <2>1. \A w \in Visits : response'[w].comment = response[w].comment
    BY <1>5, <1>6
  <2>2. \A w \in Visits : response'[w].notified => response[w].notified \/ (w = v /\ job.any)
    BY <1>5, <1>6
  <2>3. QED
    BY <1>1, <1>2, <2>1, <2>2 DEF IInv, AlertsAreAboutComments
<1>10. OpenIsUnanswered'
  <2>1. \A w \in Visits : response'[w].status = response[w].status
    BY <1>5, <1>6
  <2>2. QED
    BY <1>1, <2>1 DEF IInv, OpenIsUnanswered, Answering
<1>11. JobInHand' /\ OneReplyPerRating' /\ DesksAreAboutVisits'
  BY <1>1 DEF IInv, JobInHand, OneReplyPerRating, DesksAreAboutVisits, NoJob
<1>12. Kept
  <2>1. \A w \in Visits : /\ response'[w].rating = response[w].rating
                          /\ response'[w].comment = response[w].comment
    BY <1>5, <1>6
  <2>2. QED
    BY <1>1, <2>1 DEF Kept
<1>13. QED
  BY <1>7, <1>8, <1>9, <1>10, <1>11, <1>12 DEF IInv

\* The fields of a desk
LEMMA DeskTyping ==
    ASSUME NEW d \in Desks, NEW t \in BOOLEAN
    PROVE  /\ [d EXCEPT !.typing = t] = [visit |-> d.visit, text |-> d.text, typing |-> t]
           /\ [visit |-> d.visit, text |-> d.text, typing |-> t] \in Desks
  BY DEF Desks

LEMMA DeskVisit ==
    ASSUME NEW d \in Desks, NEW v \in SomeVisit
    PROVE  /\ [d EXCEPT !.visit = v] = [visit |-> v, text |-> d.text, typing |-> d.typing]
           /\ [visit |-> v, text |-> d.text, typing |-> d.typing] \in Desks
  BY DEF Desks

\* An admin's desk: the answer is started, typed, changed, given up or sent.
LEMMA DeskStep ==
    ASSUME IInv, NEW a \in Admins,
           \/ ReplyText(a) \/ ReplyEdit(a) \/ ReplyBack(a) \/ ReplySend(a)
           \/ \E v \in Visits : ReplyStart(a, v)
    PROVE  IInv'
<1>1. /\ UNCHANGED <<request, response, inbox, scan, commenting, staff, alerts, replies, crashes>>
      /\ job.pc = "idle"
  BY DEF ReplyText, ReplyEdit, ReplyBack, ReplySend, ReplyStart, Desk, Free
<1>2. desk \in [Admins -> Desks] /\ desk[a] \in Desks
      /\ (desk[a].text # NoVisit \/ desk[a].typing => desk[a].visit \in Visits)
  BY Types DEF IInv, DesksAreAboutVisits
<1>3. PICK d \in Desks : desk' = [desk EXCEPT ![a] = d]
                        /\ (d.text # NoVisit \/ d.typing => d.visit \in Visits)
  <2>0. NoDesk \in Desks /\ NoDesk.text = NoVisit /\ ~ NoDesk.typing
    BY DEF NoDesk, Desks
  <2>1. CASE ReplyBack(a) \/ ReplySend(a)
    BY <2>0, <2>1 DEF ReplyBack, ReplySend, Desk
  <2>2. CASE ReplyText(a)
    <3>1. desk[a].typing /\ desk[a].visit \in Visits
      BY <1>2, <2>2 DEF ReplyText
    <3> DEFINE Card == [visit |-> desk[a].visit, text |-> desk[a].visit, typing |-> FALSE]
    <3>2. Card \in Desks /\ Card.visit \in Visits
      BY <3>1 DEF Desks
    <3>3. desk' = [desk EXCEPT ![a] = IF MayReply(a, desk[a].visit) THEN Card ELSE NoDesk]
      BY <2>2 DEF ReplyText, Desk
    <3> HIDE DEF Card
    <3>4. CASE MayReply(a, desk[a].visit)
      BY <3>2, <3>3, <3>4
    <3>5. CASE ~ MayReply(a, desk[a].visit)
      BY <2>0, <3>3, <3>5
    <3>6. QED
      BY <3>4, <3>5
  <2>3. CASE ReplyEdit(a)
    <3> DEFINE d == [desk[a] EXCEPT !.typing = TRUE]
    <3>1. desk[a].text # NoVisit /\ desk' = [desk EXCEPT ![a] = d]
      BY <2>3 DEF ReplyEdit, Desk
    <3>2. TRUE \in BOOLEAN /\ desk[a] \in Desks
      BY <1>2
    <3>3. d = [visit |-> desk[a].visit, text |-> desk[a].text, typing |-> TRUE] /\ d \in Desks
      BY <3>2, DeskTyping, Zenon
    <3>4. d.visit = desk[a].visit
      BY <3>3
    <3> HIDE DEF d
    <3>5. QED
      BY <1>2, <3>1, <3>3, <3>4
  <2>4. ASSUME NEW v \in Visits, ReplyStart(a, v)
        PROVE  \E d \in Desks : desk' = [desk EXCEPT ![a] = d]
                               /\ (d.text # NoVisit \/ d.typing => d.visit \in Visits)
    <3> DEFINE e == [desk[a] EXCEPT !.visit = v]
               d == [e EXCEPT !.typing = TRUE]
    <3>1. desk' = [desk EXCEPT ![a] = d]
      BY <2>4 DEF ReplyStart, Desk
    <3>2. e \in Desks /\ e.visit = v
      <4>1. v \in SomeVisit /\ desk[a] \in Desks
        BY <1>2
      <4>2. e = [visit |-> v, text |-> desk[a].text, typing |-> desk[a].typing] /\ e \in Desks
        BY <4>1, DeskVisit, Zenon
      <4>3. QED
        BY <4>2
    <3>3. d = [visit |-> e.visit, text |-> e.text, typing |-> TRUE] /\ d \in Desks
      <4> HIDE DEF e
      <4>1. TRUE \in BOOLEAN
        OBVIOUS
      <4>2. QED
        BY <3>2, <4>1, DeskTyping, Zenon
    <3>4. d.visit = v
      <4> HIDE DEF e
      <4>1. QED
        BY <3>2, <3>3
    <3> HIDE DEF d
    <3>5. QED
      BY <3>1, <3>3, <3>4
  <2>5. QED
    BY <2>1, <2>2, <2>3, <2>4
<1>4. desk' \in [Admins -> Desks] /\ DesksAreAboutVisits'
  BY <1>2, <1>3 DEF IInv, DesksAreAboutVisits
<1>5. job' \in Jobs /\ JobInHand' /\ job'.pc # "save"
  <2>1. NoJob \in Jobs /\ NoJob.pc = "idle"
    BY DEF NoJob, Jobs
  <2>2. CASE UNCHANGED job
    BY <1>1, <2>2, Types DEF IInv, JobInHand
  <2>3. CASE job' = NoJob
    BY <2>1, <2>3 DEF JobInHand
  <2>4. CASE ReplySend(a) /\ job' # NoJob
    <3>1. /\ desk[a].text # NoVisit /\ MayReply(a, desk[a].visit)
          /\ job' = [NoJob EXCEPT !.pc = "reply", !.visit = desk[a].visit]
      BY <2>4 DEF ReplySend
    <3>2. job' = [pc |-> "reply", visit |-> desk[a].visit, left |-> {}, any |-> FALSE]
      BY <3>1 DEF NoJob
    <3>3. desk[a].visit \in Visits
      BY <1>2, <3>1
    <3>4. job' \in Jobs /\ job'.pc = "reply" /\ job'.visit = desk[a].visit
      BY <3>2, <3>3 DEF Jobs
    <3>5. QED
      BY <1>1, <3>1, <3>3, <3>4 DEF JobInHand, MayReply
  <2>5. QED
    BY <2>2, <2>3, <2>4 DEF ReplyText, ReplyEdit, ReplyBack, ReplySend, ReplyStart, Desk
<1>6. TypeOK'
  BY <1>1, <1>4, <1>5 DEF IInv, TypeOK, Desks, Jobs
<1>7. RequestsAgree' /\ AlertsAreAboutComments' /\ OneReplyPerRating'
  BY <1>1 DEF IInv, RequestsAgree, AlertsAreAboutComments, OneReplyPerRating
<1>8. OpenIsUnanswered'
  BY <1>1, <1>5 DEF IInv, OpenIsUnanswered, Answering
<1>9. QED
  BY <1>4, <1>5, <1>6, <1>7, <1>8 DEF IInv

\* The answer goes out under an open response, which is then closed.
LEMMA ReplyStep ==
    ASSUME IInv, ReplySent \/ ReplySaved
    PROVE  IInv' /\ Kept
<1> DEFINE v == job.visit
<1>1. /\ UNCHANGED <<request, inbox, scan, commenting, desk, staff, alerts, crashes>>
      /\ job \in Jobs /\ v \in Visits /\ response[v].rating # "none"
      /\ response \in [Visits -> Responses] /\ replies \in [Visits -> Nat] /\ crashes \in Nat
  BY Types, Numbers DEF IInv, ReplySent, ReplySaved, JobInHand
<1>2. CASE ReplySent
  <2>1. /\ job.pc = "reply" /\ UNCHANGED response
        /\ job' = [job EXCEPT !.pc = "save"]
        /\ replies' \in {replies, [replies EXCEPT ![v] = @ + 1]}
    BY <1>2 DEF ReplySent
  <2>2. job' \in Jobs /\ job'.pc = "save" /\ job'.visit = v
    <3>1. job' = [pc |-> "save", visit |-> v, left |-> job.left, any |-> job.any]
      BY <1>1, <2>1 DEF Jobs
    <3>2. QED
      BY <1>1, <3>1 DEF Jobs
  <2>3. /\ replies' \in [Visits -> Nat] /\ replies'[v] \in {replies[v], replies[v] + 1}
        /\ \A w \in Visits : w # v => replies'[w] = replies[w]
    BY <1>1, <2>1
  <2>4. replies[v] <= crashes
    BY <1>1, <2>1 DEF IInv, JobInHand, OpenIsUnanswered, Answering
  <2>5. TypeOK'
    BY <1>1, <2>1, <2>2, <2>3 DEF IInv, TypeOK, Jobs
  <2>6. OneReplyPerRating'
    <3>1. replies'[v] <= 1 + crashes
      BY <1>1, <2>3, <2>4
    <3>2. QED
      BY <1>1, <2>3, <3>1 DEF IInv, OneReplyPerRating
  <2>7. OpenIsUnanswered'
    BY <1>1, <2>1, <2>2, <2>3 DEF IInv, OpenIsUnanswered, Answering
  <2>8. JobInHand' /\ RequestsAgree' /\ AlertsAreAboutComments' /\ DesksAreAboutVisits'
    BY <1>1, <2>1, <2>2 DEF IInv, JobInHand, RequestsAgree, AlertsAreAboutComments, DesksAreAboutVisits
  <2>9. QED
    BY <1>1, <2>1, <2>5, <2>6, <2>7, <2>8 DEF IInv, Kept
<1>3. CASE ReplySaved
  <2> DEFINE r == [rating |-> response[v].rating, comment |-> response[v].comment,
                   status |-> "admin_replied", notified |-> response[v].notified]
  <2>1. /\ job.pc = "save" /\ job' = NoJob /\ UNCHANGED replies
        /\ response' = [response EXCEPT ![v].status = "admin_replied"]
    BY <1>3 DEF ReplySaved
  <2>2. r \in Responses /\ response' = [response EXCEPT ![v] = r]
    <3>1. response[v] = [rating |-> response[v].rating, comment |-> response[v].comment,
                         status |-> response[v].status, notified |-> response[v].notified]
      BY <1>1, ResponseFields
    <3>2. [response[v] EXCEPT !.status = "admin_replied"] = r
      BY <3>1
    <3>3. r \in Responses
      BY <1>1, ResponseFields DEF Responses
    <3>4. QED
      BY <2>1, <3>2, <3>3
  <2>3. /\ response' \in [Visits -> Responses] /\ response'[v] = r
        /\ \A w \in Visits : w # v => response'[w] = response[w]
    <3> HIDE DEF r
    <3>1. QED
      BY <1>1, <2>2, ResponseWritten
  <2>4. /\ response'[v].rating = response[v].rating /\ response'[v].comment = response[v].comment
        /\ response'[v].status = "admin_replied" /\ response'[v].notified = response[v].notified
    BY <2>3
  <2>5. TypeOK'
    <3>1. NoJob \in Jobs
      BY DEF NoJob, Jobs
    <3>2. QED
      BY <1>1, <2>1, <2>3, <3>1 DEF IInv, TypeOK, Responses, Ratings, Jobs
  <2>6. RequestsAgree'
    <3>1. request[v] \notin {"none", "sent"}
      BY <1>1 DEF IInv, RequestsAgree, NoResponse
    <3>2. \A w \in Visits : /\ response'[w].rating = response[w].rating
                            /\ response'[w].comment = response[w].comment
      BY <2>3, <2>4
    <3>3. \A w \in Visits : request[w] \in {"none", "sent"} => response'[w] = response[w]
      BY <2>3, <3>1
    <3>4. QED
      BY <1>1, <3>2, <3>3 DEF IInv, RequestsAgree
  <2>7. AlertsAreAboutComments'
    <3>1. \A w \in Visits : /\ response'[w].comment = response[w].comment
                            /\ response'[w].notified = response[w].notified
      BY <2>3, <2>4
    <3>2. QED
      BY <1>1, <3>1 DEF IInv, AlertsAreAboutComments
  <2>8. OpenIsUnanswered'
    <3>1. \A w \in Visits : response'[w].status = "open" => w # v /\ response[w].status = "open"
      BY <2>3, <2>4
    <3>2. QED
      BY <1>1, <2>1, <3>1 DEF IInv, OpenIsUnanswered, Answering
  <2>9. JobInHand' /\ OneReplyPerRating' /\ DesksAreAboutVisits'
    BY <1>1, <2>1 DEF IInv, JobInHand, OneReplyPerRating, DesksAreAboutVisits, NoJob
  <2>10. Kept
    <3>1. \A w \in Visits : /\ response'[w].rating = response[w].rating
                            /\ response'[w].comment = response[w].comment
      BY <2>3, <2>4
    <3>2. QED
      BY <1>1, <3>1 DEF Kept
  <2>11. QED
    BY <2>5, <2>6, <2>7, <2>8, <2>9, <2>10 DEF IInv
<1>4. QED
  BY <1>2, <1>3

\* The client leaves the screen, the staff changes, the process dies.
LEMMA WorldStep ==
    ASSUME IInv, LeaveScreen \/ Crash \/ \E a \in Admins : StaffChanges(a)
    PROVE  IInv' /\ UNCHANGED <<request, response>>
<1>1. UNCHANGED <<request, response, inbox, alerts, replies>>
  BY DEF LeaveScreen, Crash, StaffChanges
<1>2. CASE LeaveScreen \/ \E a \in Admins : StaffChanges(a)
  <2>1. UNCHANGED <<scan, desk, job, crashes>>
    BY <1>2 DEF LeaveScreen, StaffChanges
  <2>2. commenting' \in SomeVisit /\ staff' \subseteq Admins
    BY <1>2 DEF LeaveScreen, StaffChanges, IInv, TypeOK
  <2>3. TypeOK'
    BY <1>1, <2>1, <2>2 DEF IInv, TypeOK
  <2>4. QED
    BY <1>1, <2>1, <2>3
    DEF IInv, RequestsAgree, AlertsAreAboutComments, OneReplyPerRating, JobInHand,
        DesksAreAboutVisits, OpenIsUnanswered, Answering
<1>3. CASE Crash
  <2>1. /\ scan' = NoScan /\ job' = NoJob /\ commenting' = NoVisit
        /\ desk' = [a \in Admins |-> NoDesk] /\ UNCHANGED staff
        /\ crashes < Crashes /\ crashes' = crashes + 1
    BY <1>3 DEF Crash
  <2>2. crashes \in 0 .. Crashes /\ replies \in [Visits -> Nat]
    BY DEF IInv, TypeOK
  <2>3. crashes' \in 0 .. Crashes
    BY <2>1, <2>2, Numbers
  <2>4. NoDesk \in Desks /\ NoJob \in Jobs
        /\ NoScan \in [pc : {"idle", "collect", "send"}, queue : SUBSET Visits]
    BY DEF NoDesk, Desks, NoJob, Jobs, NoScan
  <2>5. TypeOK'
    BY <1>1, <2>1, <2>3, <2>4 DEF IInv, TypeOK, Desks, Jobs
  <2>6. OneReplyPerRating' /\ OpenIsUnanswered'
    BY <1>1, <2>1, <2>2 DEF IInv, OneReplyPerRating, OpenIsUnanswered
  <2>7. JobInHand' /\ DesksAreAboutVisits'
    BY <2>1 DEF JobInHand, NoJob, DesksAreAboutVisits, NoDesk
  <2>8. RequestsAgree' /\ AlertsAreAboutComments'
    BY <1>1 DEF IInv, RequestsAgree, AlertsAreAboutComments
  <2>9. QED
    BY <1>1, <2>5, <2>6, <2>7, <2>8 DEF IInv
<1>4. QED
  BY <1>1, <1>2, <1>3

LEMMA NextIInv == IInv /\ [Next]_vars => IInv' /\ Kept
<1> SUFFICES ASSUME IInv, [Next]_vars PROVE IInv' /\ Kept
  OBVIOUS
<1>1. CASE BeginScan \/ Collected \/ EndScan \/ \E v \in Visits : Request(v) \/ Send(v)
  BY <1>1, ScanStep
<1>2. ASSUME NEW v \in Visits, NEW rating \in {"negative", "positive"}, Rate(v, rating)
      PROVE  IInv' /\ Kept
  BY <1>2, RateStep
<1>3. ASSUME NEW v \in Visits, Comment(v) PROVE IInv' /\ Kept
  BY <1>3, CommentStep
<1>4. UNCHANGED <<request, response>> => Kept
  BY DEF Kept
<1>5. ASSUME NEW a \in Admins, Alert(a) PROVE IInv' /\ Kept
  BY <1>4, <1>5, AlertStep DEF Alert
<1>6. CASE AlertDone
  BY <1>6, AlertDoneStep
<1>7. ASSUME NEW a \in Admins,
             \/ ReplyText(a) \/ ReplyEdit(a) \/ ReplyBack(a) \/ ReplySend(a)
             \/ \E v \in Visits : ReplyStart(a, v)
      PROVE  IInv' /\ Kept
  <2>1. UNCHANGED <<request, response>>
    BY <1>7 DEF ReplyText, ReplyEdit, ReplyBack, ReplySend, ReplyStart, Desk
  <2>2. QED
    BY <1>4, <1>7, <2>1, DeskStep
<1>8. CASE ReplySent \/ ReplySaved
  BY <1>8, ReplyStep
<1>9. CASE LeaveScreen \/ Crash \/ \E a \in Admins : StaffChanges(a)
  BY <1>4, <1>9, WorldStep
<1>10. CASE UNCHANGED vars
  BY <1>4, <1>10
  DEF vars, IInv, TypeOK, RequestsAgree, AlertsAreAboutComments, OneReplyPerRating, JobInHand,
      DesksAreAboutVisits, OpenIsUnanswered, Answering
<1>11. QED
  BY <1>1, <1>2, <1>3, <1>5, <1>6, <1>7, <1>8, <1>9, <1>10 DEF Next

\* The inductive invariant holds in every reachable state.
THEOREM Invariance == Spec => []IInv
  BY InitIInv, NextIInv, PTL DEF Spec

\* Every value stays in its type.
THEOREM TypeCorrect == Spec => []TypeOK
<1>1. IInv => TypeOK
  BY DEF IInv
<1>2. QED
  BY <1>1, Invariance, PTL

\* What a request waits for is what its response lacks.
THEOREM RequestsAgreeAlways == Spec => []RequestsAgree
<1>1. IInv => RequestsAgree
  BY DEF IInv
<1>2. QED
  BY <1>1, Invariance, PTL

\* An admin hears of a visit once, and only of a comment.
THEOREM AlertsAreAboutCommentsAlways == Spec => []AlertsAreAboutComments
<1>1. IInv => AlertsAreAboutComments
  BY DEF IInv
<1>2. QED
  BY <1>1, Invariance, PTL

\* One answer to a rating, plus one for every death of the process at most.
THEOREM OneReplyAlways == Spec => []OneReplyPerRating
<1>1. IInv => OneReplyPerRating
  BY DEF IInv
<1>2. QED
  BY <1>1, Invariance, PTL

\* Ratings and comments are given once, and closed requests stay closed.
THEOREM RatingsAreFinalAlways == Spec => RatingsAreFinal
<1>1. IInv /\ [Next]_vars => [Kept]_vars
  BY NextIInv
<1>2. Spec => [][Kept]_vars
  BY <1>1, Invariance, PTL DEF Spec
<1>3. QED
  BY <1>2 DEF Kept, RatingsAreFinal
=============================================================================
